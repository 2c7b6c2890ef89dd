---------------------------- MODULE BattleFleet ----------------------------
(***************************************************************************)
(* The battle servers as the lobby sees them, and the battle agent that    *)
(* runs them (runtime/core/service.go: the registry and the allocator;     *)
(* cmd/battle-agent/main.go: register, heartbeat, reconcile, spawn,        *)
(* waitProcess).                                                           *)
(*                                                                         *)
(* The agent has one loop, which heartbeats, polls its assignments and     *)
(* spawns a process for each match it was given, and one goroutine per     *)
(* process, which waits for the exit, submits the result and then clears   *)
(* the tables the loop also clears.  The loop holds no lock between the    *)
(* poll and the spawns, nor the goroutine between the exit and the clean   *)
(* up: those are the steps that interleave here.                           *)
(***************************************************************************)
EXTENDS Integers, FiniteSets

CONSTANTS
    Matches, NoMatch,
    Servers,        \* battle_server_ids that register and heartbeat
    Agent,          \* the one of them whose agent is modelled
    Local,          \* DefaultBattleServerID, the placeholder
    NoServer,
    Capacity,       \* capacity each server declares
    PortMin, PortMax,
    MaxSpawns,      \* maxSpawnAttempts
    Slots,          \* process identifiers: bound on processes alive at once
    NoProc,
    MaxFaults,      \* bound on endpoint reports that fail
    MaxCrashes      \* bound on agent exits and lobby restarts together

ASSUME FleetAssumptions ==
    /\ Agent \in Servers
    /\ Local \notin Servers
    /\ NoServer \notin Servers \cup {Local}
    /\ NoMatch \notin Matches
    /\ IsFiniteSet(Matches)
    /\ NoProc \notin Slots
    /\ Capacity \in [Servers \cup {Local} -> Nat \ {0}]
    /\ PortMin \in Nat \ {0}
    /\ PortMax \in Nat
    /\ PortMin <= PortMax
    /\ Capacity[Agent] = PortMax - PortMin + 1
    /\ MaxSpawns \in Nat \ {0}
    /\ MaxFaults \in Nat
    /\ MaxCrashes \in Nat

Ports == PortMin..PortMax
NoPort == 0

VARIABLES
    reg,        \* s.battleServers: who may be given matches, and ActiveMatches
    home,       \* the BattleServerID of the match's allocation
    over,       \* matches with EndedAt
    forgotten,  \* matches a lobby restart dropped from memory
    known,      \* the port of allocation.Endpoint
    up,         \* the agent runs
    pc,         \* where its loop is: "idle", "polled" or "spawning"
    want,       \* the assignments of the last poll: match -> pinned port
    todo,       \* the matches of want the loop has not looked at yet
    processes,  \* a.processes
    usedPorts,  \* a.usedPorts
    attempts,   \* a.attempts
    pending,    \* a.pendingReports, NoPort when absent
    proc,       \* the processes of the host
    faults, crashes

lobby == <<reg, home, over, forgotten, known>>
tables == <<processes, usedPorts, attempts, pending>>
vars == <<lobby, up, pc, want, todo, tables, proc, faults, crashes>>

All == Servers \cup {Local}
Absent == [status |-> "none", active |-> 0]
Out == [status |-> "out", active |-> 0]   \* offline, or its last heartbeat is too old
Free == [match |-> NoMatch, port |-> NoPort, st |-> "free", owned |-> FALSE, result |-> FALSE]
Running == {"starting", "bound"}

(* Outcomes of an endpoint report: callRPCDecoded sees an answer, or an     *)
(* error although the lobby may have applied the call.  A heartbeat or a    *)
(* poll that fails changes nothing, and is a stutter.                       *)
Calls == IF faults < MaxFaults THEN {"ok", "lost", "unknown"} ELSE {"ok"}
Reached(c) == c # "lost"
CountFault(c) == faults' = IF c = "ok" THEN faults ELSE faults + 1

-----------------------------------------------------------------------------
(* The registry.                                                            *)

(* upsertBattleServerLocked: the report replaces what the lobby had counted *)
(* itself.                                                                  *)
Upsert(r, s, n) == [r EXCEPT ![s] = [status |-> "online", active |-> n]]

(* registerDefaultBattleServerLocked                                        *)
WithPlaceholder(r) == Upsert(r, Local, 0)

(* battleServerEligibleForAllocationLocked, and the capacity check of       *)
(* bestAllocatableBattleServerLocked.                                       *)
Eligible(r, s) == r[s].status = "online" /\ r[s].active < Capacity[s]

(* score: Load and ActiveMatches/Capacity grow together, so the order of    *)
(* the scores is the order of the quotients; equal ones go by mode breadth  *)
(* and name, which is left open.                                            *)
Cheapest(r, S) ==
    {s \in S : \A t \in S : r[s].active * Capacity[t] <= r[t].active * Capacity[s]}

(* selectBattleServerLocked: registered servers first, the placeholder when *)
(* none can take the match, even one that is stale or full.                 *)
Candidates(r) ==
    LET real == {s \in Servers : Eligible(r, s)}
    IN IF real # {} THEN Cheapest(r, real) ELSE {Local}

(* accountBattleServerAllocationLocked                                      *)
Counted(r, s) == [r EXCEPT ![s].active = @ + 1]

(* ensureBattleAllocationLocked: the allocation starts with the endpoint of *)
(* the registry, that is, PortMin.                                          *)
AllocateMatch(m) ==
    /\ home[m] = NoServer
    /\ LET empty == \A s \in All : reg[s].status = "none"
           r0 == IF empty THEN WithPlaceholder(reg) ELSE reg
       IN \E s \in Candidates(r0) :
             LET r1 == IF s = Local /\ r0[Local].status = "none" THEN WithPlaceholder(r0) ELSE r0
             IN /\ reg' = Counted(r1, s)
                /\ home' = [home EXCEPT ![m] = s]
                /\ known' = [known EXCEPT ![m] = PortMin]
    /\ UNCHANGED <<over, forgotten, up, pc, want, todo, tables, proc, faults, crashes>>

(* The match ends without this agent: a player settles or abandons it, or   *)
(* the allocation TTL runs out.                                             *)
LobbyEndsMatch(m) ==
    /\ home[m] # NoServer
    /\ m \notin over
    /\ over' = over \cup {m}
    /\ UNCHANGED <<reg, home, forgotten, known, up, pc, want, todo, tables, proc,
                   faults, crashes>>

(* Heartbeats of the other servers: each counts the matches it was given    *)
(* that it has started.                                                     *)
ForeignHeartbeat(s) ==
    /\ s \in Servers \ {Agent}
    /\ \E n \in 0..Cardinality({m \in Matches : home[m] = s /\ m \notin over}) :
          reg' = Upsert(reg, s, n)
    /\ UNCHANGED <<home, over, forgotten, known, up, pc, want, todo, tables, proc,
                   faults, crashes>>

(* BattleServerOffline                                                      *)
Offline(r, s) == IF r[s].status = "none" THEN r ELSE [r EXCEPT ![s] = Out]

ForeignOffline(s) ==
    /\ s \in Servers \ {Agent}
    /\ reg[s].status = "online"
    /\ reg' = Offline(reg, s)
    /\ UNCHANGED <<home, over, forgotten, known, up, pc, want, todo, tables, proc,
                   faults, crashes>>

(* BattleServerHeartbeatTTLSeconds pass without a word from s; what the     *)
(* placeholder is worth does not depend on its age.                         *)
HeartbeatExpires(s) ==
    /\ reg[s].status = "online"
    /\ reg' = [reg EXCEPT ![s] = Out]
    /\ UNCHANGED <<home, over, forgotten, known, up, pc, want, todo, tables, proc,
                   faults, crashes>>

(* NewService: the registry and the matches in memory are gone; the         *)
(* allocation survives on the match row.                                    *)
LobbyRestart ==
    /\ crashes < MaxCrashes
    /\ crashes' = crashes + 1
    /\ reg' = [s \in All |-> Absent]
    /\ forgotten' = {m \in Matches : home[m] # NoServer}
    /\ UNCHANGED <<home, over, known, up, pc, want, todo, tables, proc, faults>>

(* BattleAgentAssignments, which answers not_found to an unknown server.    *)
Assignments == {m \in Matches : home[m] = Agent /\ m \notin over /\ m \notin forgotten}

(* ReportBattleAgentEndpoint reloads an allocation the lobby has forgotten. *)
Reported(k, m, port) == IF home[m] = Agent THEN [k EXCEPT ![m] = port] ELSE k

-----------------------------------------------------------------------------
(* The loop of the agent.                                                   *)

(* load: the number of processes in the table.                              *)
Load == Cardinality({m \in Matches : processes[m] # NoProc})

Heartbeat ==
    /\ up
    /\ pc = "idle"
    /\ reg' = Upsert(reg, Agent, Load)
    /\ UNCHANGED <<home, over, forgotten, known, up, pc, want, todo, tables, proc,
                   faults, crashes>>

(* reconcile, first part: the RPC.  A round whose poll fails does nothing.  *)
Poll ==
    /\ up
    /\ pc = "idle"
    /\ reg[Agent].status # "none"
    /\ want' = [m \in Matches |-> IF m \in Assignments THEN known[m] ELSE NoPort]
    /\ pc' = "polled"
    /\ UNCHANGED <<lobby, up, todo, tables, proc, faults, crashes>>

Wanted == {m \in Matches : want[m] # NoPort}

(* forgetStaleAttempts                                                      *)
ForgetStaleAttempts == [m \in Matches |-> IF m \in Wanted THEN attempts[m] ELSE 0]

(* reapFinished: processes whose done channel is closed, submitted or not.  *)
Finished == {m \in Matches : processes[m] # NoProc /\ proc[processes[m]].st \in {"exited", "submitted"}}

(* The spawn loop: the matches left to look at; after the last one the      *)
(* round is over.                                                           *)
Look(rest) ==
    /\ todo' = rest
    /\ pc' = IF rest = {} THEN "idle" ELSE "spawning"
    /\ want' = [m \in Matches |-> IF m \in rest THEN want[m] ELSE NoPort]

(* flushPendingReports: each waiting report is sent again; one that fails   *)
(* may have been applied.                                                   *)
FlushPendingReports ==
    LET due == {m \in Matches : pending[m] # NoPort}
    IN \E failed \in SUBSET due, applied \in SUBSET due :
          /\ due \ failed \subseteq applied
          /\ faults + Cardinality(failed) <= MaxFaults
          /\ {m \in due : home[m] # Agent} \subseteq failed
          /\ faults' = faults + Cardinality(failed)
          /\ known' = [m \in Matches |-> IF m \in applied THEN pending[m] ELSE known[m]]
          /\ pending' = [m \in Matches |-> IF m \in due \ failed THEN NoPort ELSE pending[m]]

(* reconcile, second part: forget, reap, and flushPendingReports.           *)
Reconcile ==
    /\ pc = "polled"
    /\ attempts' = ForgetStaleAttempts
    /\ processes' = [m \in Matches |-> IF m \in Finished THEN NoProc ELSE processes[m]]
    /\ usedPorts' = [q \in Ports |->
          IF \E m \in Finished : proc[processes[m]].port = q THEN NoMatch ELSE usedPorts[q]]
    /\ FlushPendingReports
    /\ Look(Wanted)
    /\ UNCHANGED <<reg, home, over, forgotten, up, proc, crashes>>

(* portFreeLocked: not reserved, and nothing on the host has it bound.      *)
PortFree(q) == usedPorts[q] = NoMatch /\ \A p \in Slots : ~(proc[p].st = "bound" /\ proc[p].port = q)
FreePorts == {q \in Ports : PortFree(q)}

(* allocatePort: the port of the assignment if free, else the lowest.       *)
AllocatePort(m) ==
    IF want[m] \in FreePorts THEN want[m]
    ELSE CHOOSE q \in FreePorts : \A r \in FreePorts : q <= r

(* publishEndpoint: a report that fails is kept for the next round.         *)
(* Mutant: the port the lobby pinned is kept instead of the one bound.      *)
PublishEndpointPinned(m, q, c) ==
    /\ known' = IF Reached(c) THEN Reported(known, m, q) ELSE known
    /\ pending' = [pending EXCEPT ![m] = IF c = "ok" THEN NoPort ELSE want[m]]
PublishEndpoint(m, q, c) ==
    /\ known' = IF Reached(c) THEN Reported(known, m, q) ELSE known
    /\ pending' = [pending EXCEPT ![m] = IF c = "ok" THEN NoPort ELSE q]

(* isRunning and reserveAttempt: matches the loop passes over.              *)
(* Mutant: one spawn too many.                                              *)
PassedOverLate(m) == processes[m] # NoProc \/ attempts[m] > MaxSpawns
PassedOver(m) == processes[m] # NoProc \/ attempts[m] >= MaxSpawns

SkipMatch(m) ==
    /\ pc = "spawning"
    /\ m \in todo
    /\ PassedOver(m)
    /\ Look(todo \ {m})
    /\ UNCHANGED <<lobby, up, tables, proc, faults, crashes>>

(* spawn without a free port, or with a binary that does not start.         *)
SpawnFails(m) ==
    /\ pc = "spawning"
    /\ m \in todo
    /\ ~PassedOver(m)
    /\ attempts' = [attempts EXCEPT ![m] = @ + 1]
    /\ Look(todo \ {m})
    /\ UNCHANGED <<lobby, up, processes, usedPorts, pending, proc, faults, crashes>>

Spawn(m) ==
    /\ pc = "spawning"
    /\ m \in todo
    /\ ~PassedOver(m)
    /\ FreePorts # {}
    /\ attempts' = [attempts EXCEPT ![m] = @ + 1]
    /\ Look(todo \ {m})
    /\ \E p \in Slots, c \in Calls :
          LET q == AllocatePort(m)
          IN /\ proc[p] = Free
             /\ proc' = [proc EXCEPT ![p] =
                   [match |-> m, port |-> q, st |-> "starting", owned |-> TRUE, result |-> FALSE]]
             /\ processes' = [processes EXCEPT ![m] = p]
             /\ usedPorts' = [usedPorts EXCEPT ![q] = m]
             /\ PublishEndpoint(m, q, c)
             /\ CountFault(c)
    /\ UNCHANGED <<reg, home, over, forgotten, up, crashes>>

-----------------------------------------------------------------------------
(* The processes, and the goroutine waiting for each.                       *)

(* The battle server binds its port some time after it was started, and     *)
(* gives up when another has it.                                            *)
Bind(p) ==
    /\ proc[p].st = "starting"
    /\ \A q \in Slots : ~(proc[q].st = "bound" /\ proc[q].port = proc[p].port)
    /\ proc' = [proc EXCEPT ![p].st = "bound"]
    /\ UNCHANGED <<lobby, up, pc, want, todo, tables, faults, crashes>>

(* The process exits; nobody waits for an orphan.  A RESULT line may be     *)
(* missing: none was printed, or consumeOutput had not read it when Wait    *)
(* closed the pipe.                                                         *)
Exit(p) ==
    /\ proc[p].st \in Running
    /\ \E r \in IF proc[p].st = "bound" THEN BOOLEAN ELSE {FALSE} :
          proc' = [proc EXCEPT ![p] =
             IF @.owned THEN [@ EXCEPT !.st = "exited", !.result = r] ELSE Free]
    /\ UNCHANGED <<lobby, up, pc, want, todo, tables, faults, crashes>>

(* waitProcess: submitResult, one attempt, which may fail.  The lobby       *)
(* refuses the result of a match it no longer holds in memory.              *)
SubmitResult(p) ==
    /\ proc[p].st = "exited"
    /\ \/ over' = over
       \/ /\ proc[p].result
          /\ proc[p].match \notin forgotten
          /\ over' = over \cup {proc[p].match}
    /\ proc' = [proc EXCEPT ![p].st = "submitted", ![p].result = FALSE]
    /\ UNCHANGED <<reg, home, forgotten, known, up, pc, want, todo, tables, faults, crashes>>

(* waitProcess: the entries of the match are deleted, whoever they are now. *)
(* Mutant: the port stays reserved.                                         *)
CleanUpKeepingPort(p) ==
    /\ proc[p].st = "submitted"
    /\ processes' = [processes EXCEPT ![proc[p].match] = NoProc]
    /\ pending' = [pending EXCEPT ![proc[p].match] = NoPort]
    /\ proc' = [proc EXCEPT ![p] = Free]
    /\ UNCHANGED <<lobby, up, pc, want, todo, usedPorts, attempts, faults, crashes>>
CleanUp(p) ==
    /\ proc[p].st = "submitted"
    /\ processes' = [processes EXCEPT ![proc[p].match] = NoProc]
    /\ usedPorts' = [usedPorts EXCEPT ![proc[p].port] = NoMatch]
    /\ pending' = [pending EXCEPT ![proc[p].match] = NoPort]
    /\ proc' = [proc EXCEPT ![p] = Free]
    /\ UNCHANGED <<lobby, up, pc, want, todo, attempts, faults, crashes>>

-----------------------------------------------------------------------------
(* Starting and stopping the agent.                                         *)

EmptyTables ==
    /\ processes' = [m \in Matches |-> NoProc]
    /\ usedPorts' = [q \in Ports |-> NoMatch]
    /\ attempts' = [m \in Matches |-> 0]
    /\ pending' = [m \in Matches |-> NoPort]
    /\ todo' = {}
    /\ want' = [m \in Matches |-> NoPort]
    /\ pc' = "idle"

Orphaned(pr) == IF pr.st \in Running THEN [pr EXCEPT !.owned = FALSE] ELSE Free

(* reapAll and offline: the processes of the table are terminated, results  *)
(* still being submitted are cut off.  A killed agent (notice "lost")       *)
(* terminates nothing.                                                      *)
AgentStops(graceful) ==
    /\ up
    /\ graceful => pc = "idle"
    /\ crashes < MaxCrashes
    /\ crashes' = crashes + 1
    /\ up' = FALSE
    /\ reg' = IF graceful THEN Offline(reg, Agent) ELSE reg
    /\ proc' = [p \in Slots |->
          IF graceful /\ \E m \in Matches : processes[m] = p THEN Free ELSE Orphaned(proc[p])]
    /\ EmptyTables
    /\ UNCHANGED <<home, over, forgotten, known, faults>>

(* register, RegisterBattleServer: the lobby counts from zero again.        *)
Register == reg' = Upsert(reg, Agent, 0)

(* run: reapOrphanProcesses, register.  An orphan is known by the path of   *)
(* its binary, which matches only when the configured path is absolute.     *)
AgentStarts ==
    /\ ~up
    /\ up' = TRUE
    /\ \/ proc' = [p \in Slots |-> Free]
       \/ UNCHANGED proc
    /\ Register
    /\ UNCHANGED <<home, over, forgotten, known, pc, want, todo, tables, faults, crashes>>

-----------------------------------------------------------------------------
Init ==
    /\ reg = [s \in All |-> Absent]
    /\ home = [m \in Matches |-> NoServer]
    /\ over = {}
    /\ forgotten = {}
    /\ known = [m \in Matches |-> NoPort]
    /\ up = FALSE
    /\ pc = "idle"
    /\ want = [m \in Matches |-> NoPort]
    /\ todo = {}
    /\ processes = [m \in Matches |-> NoProc]
    /\ usedPorts = [q \in Ports |-> NoMatch]
    /\ attempts = [m \in Matches |-> 0]
    /\ pending = [m \in Matches |-> NoPort]
    /\ proc = [p \in Slots |-> Free]
    /\ faults = 0
    /\ crashes = 0

LobbyStep ==
    \/ \E m \in Matches : AllocateMatch(m) \/ LobbyEndsMatch(m)
    \/ \E s \in Servers : ForeignHeartbeat(s) \/ ForeignOffline(s)
    \/ \E s \in Servers : HeartbeatExpires(s)
    \/ LobbyRestart

LoopStep ==
    \/ Heartbeat \/ Poll \/ Reconcile
    \/ \E m \in Matches : SkipMatch(m) \/ SpawnFails(m) \/ Spawn(m)

ProcessStep == \E p \in Slots : Bind(p) \/ Exit(p) \/ SubmitResult(p) \/ CleanUp(p)

Next == LobbyStep \/ LoopStep \/ ProcessStep \/ AgentStarts \/ \E g \in BOOLEAN : AgentStops(g)

Spec == Init /\ [][Next]_vars

-----------------------------------------------------------------------------
(* Properties.                                                              *)

TypeOK ==
    /\ reg \in [All -> [status : {"none", "online", "out"}, active : Nat]]
    /\ home \in [Matches -> All \cup {NoServer}]
    /\ over \subseteq Matches
    /\ forgotten \subseteq Matches
    /\ known \in [Matches -> Ports \cup {NoPort}]
    /\ up \in BOOLEAN
    /\ pc \in {"idle", "polled", "spawning"}
    /\ want \in [Matches -> Ports \cup {NoPort}]
    /\ todo \subseteq Matches
    /\ processes \in [Matches -> Slots \cup {NoProc}]
    /\ usedPorts \in [Ports -> Matches \cup {NoMatch}]
    /\ attempts \in [Matches -> 0..MaxSpawns]
    /\ pending \in [Matches -> Ports \cup {NoPort}]
    /\ proc \in [Slots -> [match : Matches \cup {NoMatch}, port : Ports \cup {NoPort},
                           st : Running \cup {"free", "exited", "submitted"},
                           owned : BOOLEAN, result : BOOLEAN]]
    /\ faults \in 0..MaxFaults
    /\ crashes \in 0..MaxCrashes

(* A report waiting for a retry is about the process the agent now tracks   *)
(* for the match: a retry never sends the lobby back to an earlier port.    *)
PendingIsCurrent ==
    \A m \in Matches :
       pending[m] # NoPort /\ processes[m] # NoProc => proc[processes[m]].port = pending[m]

(* A port is reserved only for a process that still has to be cleaned up:   *)
(* whoever clears the tables first, the loop or the waiting goroutine, no   *)
(* port of the range is lost.                                               *)
NoLostPort ==
    \A q \in Ports : usedPorts[q] # NoMatch =>
       \E p \in Slots : proc[p].owned /\ proc[p].port = q /\ proc[p].match = usedPorts[q]

(* A match has one battle process at a time.                                *)
OneProcessPerMatch ==
    \A p, q \in Slots :
       /\ p # q
       /\ proc[p].st \in Running /\ proc[p].owned
       /\ proc[q].st \in Running /\ proc[q].owned
       => proc[p].match # proc[q].match
=============================================================================
