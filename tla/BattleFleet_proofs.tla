------------------------- MODULE BattleFleet_proofs -------------------------
(***************************************************************************)
(* Proofs about BattleFleet, for any sets of matches, servers and process  *)
(* slots, any range of ports, and any numbers of failing reports, agent    *)
(* exits and lobby restarts in any combination: its type invariant, that a *)
(* report waiting for a retry is about the process the agent now tracks,   *)
(* and that no port of the range is lost.                                  *)
(***************************************************************************)
EXTENDS BattleFleet, FiniteSetTheorems, WellFoundedInduction, TLAPS

RegType == [All -> [status : {"none", "online", "out"}, active : Nat]]
ProcType == [match : Matches \cup {NoMatch}, port : Ports \cup {NoPort},
             st : Running \cup {"free", "exited", "submitted"},
             owned : BOOLEAN, result : BOOLEAN]

(* A process belongs to a match and was given a port.                      *)
ProcInv ==
    \A p \in Slots : proc[p].st # "free" => proc[p].match \in Matches /\ proc[p].port \in Ports

(* a.processes[m] is a process of m that the agent started itself and that *)
(* its goroutine has not cleaned up yet.                                   *)
TableInv ==
    \A m \in Matches : processes[m] # NoProc =>
       /\ proc[processes[m]].match = m
       /\ proc[processes[m]].owned
       /\ proc[processes[m]].st # "free"

(* An agent that does not run has no tables and no round under way.        *)
DownInv ==
    ~up => /\ pc = "idle"
           /\ \A m \in Matches : processes[m] = NoProc /\ pending[m] = NoPort
           /\ \A q \in Ports : usedPorts[q] = NoMatch

IInv == TypeOK /\ ProcInv /\ TableInv /\ DownInv /\ NoLostPort /\ PendingIsCurrent

-----------------------------------------------------------------------------
(* The operators.                                                          *)

LEMMA PortFacts == Ports \subseteq Nat /\ NoPort \notin Ports /\ PortMin \in Ports
BY FleetAssumptions DEF Ports, NoPort

LEMMA UpsertType ==
    ASSUME NEW r \in RegType, NEW s \in All, NEW n \in Nat
    PROVE  Upsert(r, s, n) \in RegType
BY DEF Upsert, RegType

LEMMA CountedType ==
    ASSUME NEW r \in RegType, NEW s \in All
    PROVE  Counted(r, s) \in RegType
BY DEF Counted, RegType

LEMMA OutType ==
    ASSUME NEW r \in RegType, NEW s \in All
    PROVE  [r EXCEPT ![s] = Out] \in RegType /\ Offline(r, s) \in RegType
BY DEF Offline, Out, RegType

LEMMA CandidatesType ==
    ASSUME NEW r PROVE Candidates(r) \subseteq All
BY DEF Candidates, Cheapest, All

(* A failing report stays within the bound.                                *)
LEMMA CallFacts ==
    ASSUME TypeOK, NEW c \in Calls, CountFault(c)
    PROVE  faults' \in 0..MaxFaults
BY FleetAssumptions DEF Calls, CountFault, TypeOK

(* allocatePort finds a lowest free port whenever there is a free one.     *)
LEMMA AllocatePortFree ==
    ASSUME NEW m, FreePorts # {}
    PROVE  AllocatePort(m) \in FreePorts
<1> DEFINE R == OpToRel(<, Nat)
<1>1. R = {p \in Nat \X Nat : p[1] < p[2]}
  BY DEF OpToRel
<1>2. IsWellFoundedOn(R, Nat)
  BY NatLessThanWellFounded
<1>3. FreePorts \in SUBSET Nat
  BY PortFacts DEF FreePorts
<1> HIDE DEF R
<1>4. PICK x \in FreePorts : \A y \in FreePorts : ~(<<y, x>> \in R)
  BY <1>2, <1>3, WFMin
<1>5. ASSUME NEW y \in FreePorts PROVE x <= y
  <2>1. <<y, x>> \in Nat \X Nat /\ <<y, x>>[1] = y /\ <<y, x>>[2] = x
    BY <1>3
  <2>2. ~(y < x)
    BY <1>1, <1>4, <2>1
  <2> QED
    BY <1>3, <2>2
<1> QED
  BY <1>5 DEF AllocatePort

(* What the spawn loop leaves behind is typed, and idle at the end.        *)
LEMMA LookType ==
    ASSUME TypeOK, NEW rest \in SUBSET Matches, Look(rest)
    PROVE  /\ todo' \in SUBSET Matches
           /\ pc' \in {"idle", "polled", "spawning"}
           /\ want' \in [Matches -> Ports \cup {NoPort}]
BY DEF Look, TypeOK

-----------------------------------------------------------------------------
(* Steps of the lobby and the heartbeat leave the agent alone.             *)
LEMMA LobbyOnly ==
    ASSUME IInv,
           reg' \in RegType, home' \in [Matches -> All \cup {NoServer}],
           over' \subseteq Matches, forgotten' \subseteq Matches,
           known' \in [Matches -> Ports \cup {NoPort}], crashes' \in 0..MaxCrashes,
           UNCHANGED <<up, pc, want, todo, tables, proc, faults>>
    PROVE  IInv'
<1> USE DEF IInv, tables
<1>1. TypeOK'
  BY DEF TypeOK, RegType
<1>2. ProcInv' /\ TableInv' /\ DownInv'
  BY DEF ProcInv, TableInv, DownInv
<1>3. NoLostPort' /\ PendingIsCurrent'
  BY DEF NoLostPort, PendingIsCurrent
<1> QED
  BY <1>1, <1>2, <1>3

LEMMA AllocateMatchInv ==
    ASSUME IInv, NEW m \in Matches, AllocateMatch(m)
    PROVE  IInv'
<1>1. reg \in RegType /\ known \in [Matches -> Ports \cup {NoPort}]
      /\ home \in [Matches -> All \cup {NoServer}]
  BY DEF IInv, TypeOK, RegType
<1> DEFINE empty == \A s \in All : reg[s].status = "none"
           r0 == IF empty THEN WithPlaceholder(reg) ELSE reg
<1>2. Local \in All
  BY DEF All
<1>3. r0 \in RegType
  BY <1>1, <1>2, UpsertType DEF WithPlaceholder
<1>4. PICK s \in Candidates(r0) :
         LET r1 == IF s = Local /\ r0[Local].status = "none" THEN WithPlaceholder(r0) ELSE r0
         IN /\ reg' = Counted(r1, s)
            /\ home' = [home EXCEPT ![m] = s]
            /\ known' = [known EXCEPT ![m] = PortMin]
  BY DEF AllocateMatch
<1> DEFINE r1 == IF s = Local /\ r0[Local].status = "none" THEN WithPlaceholder(r0) ELSE r0
<1>5. s \in All
  BY <1>4, CandidatesType
<1>6. r1 \in RegType
  <2> HIDE DEF r0
  <2> QED
    BY <1>2, <1>3, UpsertType DEF WithPlaceholder
<1>7. reg' = Counted(r1, s)
  BY <1>4
<1>8. reg' \in RegType
  <2> HIDE DEF r1
  <2> QED
    BY <1>5, <1>6, <1>7, CountedType
<1>9. home' \in [Matches -> All \cup {NoServer}] /\ known' \in [Matches -> Ports \cup {NoPort}]
  BY <1>1, <1>4, <1>5, PortFacts
<1>10. UNCHANGED <<over, forgotten, up, pc, want, todo, tables, proc, faults, crashes>>
  BY DEF AllocateMatch
<1>11. over \subseteq Matches /\ forgotten \subseteq Matches /\ crashes \in 0..MaxCrashes
  BY DEF IInv, TypeOK
<1> QED
  BY <1>8, <1>9, <1>10, <1>11, LobbyOnly

LEMMA LobbyStepInv ==
    ASSUME IInv, LobbyStep
    PROVE  IInv'
<1>1. /\ reg \in RegType
      /\ home \in [Matches -> All \cup {NoServer}]
      /\ over \subseteq Matches /\ forgotten \subseteq Matches
      /\ known \in [Matches -> Ports \cup {NoPort}]
      /\ crashes \in 0..MaxCrashes
      /\ Servers \subseteq All
  BY DEF IInv, TypeOK, RegType, All
<1>2. ASSUME NEW m \in Matches, LobbyEndsMatch(m) PROVE IInv'
  BY <1>1, <1>2, LobbyOnly DEF LobbyEndsMatch
<1>3. ASSUME NEW s \in Servers, ForeignHeartbeat(s) PROVE IInv'
  <2>1. PICK n \in Nat : reg' = Upsert(reg, s, n)
    BY <1>3 DEF ForeignHeartbeat
  <2>2. reg' \in RegType
    BY <1>1, <2>1, UpsertType
  <2> QED
    BY <1>1, <1>3, <2>2, LobbyOnly DEF ForeignHeartbeat
<1>4. ASSUME NEW s \in Servers, ForeignOffline(s) \/ HeartbeatExpires(s) PROVE IInv'
  <2>1. reg' \in RegType
    BY <1>1, <1>4, OutType DEF ForeignOffline, HeartbeatExpires
  <2> QED
    BY <1>1, <1>4, <2>1, LobbyOnly DEF ForeignOffline, HeartbeatExpires
<1>5. CASE LobbyRestart
  <2>1. reg' \in RegType
    BY <1>5 DEF LobbyRestart, Absent, RegType
  <2>2. crashes' \in 0..MaxCrashes
    BY <1>1, <1>5, FleetAssumptions DEF LobbyRestart
  <2> QED
    BY <1>1, <1>5, <2>1, <2>2, LobbyOnly DEF LobbyRestart
<1> QED
  BY <1>2, <1>3, <1>4, <1>5, AllocateMatchInv DEF LobbyStep

LEMMA HeartbeatInv ==
    ASSUME IInv, Heartbeat
    PROVE  IInv'
<1>1. Load \in Nat
  <2>1. IsFiniteSet({m \in Matches : processes[m] # NoProc})
    BY FleetAssumptions, FS_Subset
  <2> QED
    BY <2>1, FS_CardinalityType DEF Load
<1>2. Agent \in All /\ reg \in RegType
  BY FleetAssumptions DEF All, IInv, TypeOK, RegType
<1>3. reg' \in RegType
  BY <1>1, <1>2, UpsertType DEF Heartbeat
<1> QED
  BY <1>3, LobbyOnly DEF Heartbeat, IInv, TypeOK

-----------------------------------------------------------------------------
(* The loop of the agent.                                                  *)

(* Steps of a running agent's loop that leave tables and processes alone.  *)
LEMMA LoopOnly ==
    ASSUME IInv, up, todo' \in SUBSET Matches, pc' \in {"idle", "polled", "spawning"},
           want' \in [Matches -> Ports \cup {NoPort}],
           attempts' \in [Matches -> 0..MaxSpawns],
           UNCHANGED <<lobby, up, processes, usedPorts, pending, proc, faults, crashes>>
    PROVE  IInv'
<1> USE DEF IInv, lobby
<1>1. TypeOK'
  BY DEF TypeOK
<1>2. ProcInv' /\ TableInv' /\ DownInv'
  BY DEF ProcInv, TableInv, DownInv
<1>3. NoLostPort' /\ PendingIsCurrent'
  BY DEF NoLostPort, PendingIsCurrent
<1> QED
  BY <1>1, <1>2, <1>3

LEMMA LookInv ==
    ASSUME IInv, NEW m \in Matches, Poll \/ SkipMatch(m) \/ SpawnFails(m)
    PROVE  IInv'
<1>1. TypeOK /\ up
  BY DEF IInv, DownInv, Poll, SkipMatch, SpawnFails
<1>2. CASE Poll
  <2>1. want' \in [Matches -> Ports \cup {NoPort}]
    BY <1>1, <1>2 DEF Poll, TypeOK
  <2> QED
    BY <1>1, <1>2, <2>1, LoopOnly DEF Poll, TypeOK, tables
<1>3. CASE SkipMatch(m) \/ SpawnFails(m)
  <2>1. todo \ {m} \in SUBSET Matches /\ Look(todo \ {m})
    BY <1>1, <1>3 DEF SkipMatch, SpawnFails, TypeOK
  <2>2. attempts' \in [Matches -> 0..MaxSpawns]
    <3>1. attempts \in [Matches -> 0..MaxSpawns] /\ MaxSpawns \in Nat
      BY <1>1, FleetAssumptions DEF TypeOK
    <3>2. \/ attempts' = attempts
          \/ ~(attempts[m] >= MaxSpawns) /\ attempts' = [attempts EXCEPT ![m] = attempts[m] + 1]
      BY <1>3 DEF SkipMatch, SpawnFails, PassedOver, tables
    <3> QED
      BY <3>1, <3>2
  <2> QED
    BY <1>1, <1>3, <2>1, <2>2, LookType, LoopOnly DEF SkipMatch, SpawnFails, tables
<1> QED
  BY <1>2, <1>3

(* Reaping takes entries away and delivering takes reports away: what is   *)
(* left is as it was.                                                      *)
LEMMA ReconcileInv ==
    ASSUME IInv, Reconcile
    PROVE  IInv'
<1> USE FleetAssumptions
<1>1. TypeOK /\ up
  BY DEF IInv, DownInv, Reconcile
<1> DEFINE due == {m \in Matches : pending[m] # NoPort}
<1>2. PICK failed \in SUBSET due, applied \in SUBSET due :
         /\ faults + Cardinality(failed) <= MaxFaults
         /\ faults' = faults + Cardinality(failed)
         /\ known' = [m \in Matches |-> IF m \in applied THEN pending[m] ELSE known[m]]
         /\ pending' = [m \in Matches |-> IF m \in due \ failed THEN NoPort ELSE pending[m]]
  BY DEF Reconcile, FlushPendingReports
<1>3. faults' \in 0..MaxFaults
  <2>1. IsFiniteSet(failed)
    BY <1>2, FS_Subset
  <2>2. Cardinality(failed) \in Nat
    BY <2>1, FS_CardinalityType
  <2> QED
    BY <1>1, <1>2, <2>2 DEF TypeOK
<1>4. /\ processes' = [m \in Matches |-> IF m \in Finished THEN NoProc ELSE processes[m]]
      /\ usedPorts' = [q \in Ports |->
            IF \E m \in Finished : proc[processes[m]].port = q THEN NoMatch ELSE usedPorts[q]]
      /\ attempts' = ForgetStaleAttempts
      /\ Look(Wanted)
      /\ UNCHANGED <<reg, home, over, forgotten, up, proc, crashes>>
  BY DEF Reconcile
<1>5. Wanted \in SUBSET Matches
  BY DEF Wanted
<1>6. TypeOK'
  <2>1. known' \in [Matches -> Ports \cup {NoPort}] /\ pending' \in [Matches -> Ports \cup {NoPort}]
    BY <1>1, <1>2 DEF TypeOK
  <2>2. /\ processes' \in [Matches -> Slots \cup {NoProc}]
        /\ usedPorts' \in [Ports -> Matches \cup {NoMatch}]
    BY <1>1, <1>4 DEF TypeOK
  <2>3. attempts' \in [Matches -> 0..MaxSpawns]
    BY <1>1, <1>4 DEF TypeOK, ForgetStaleAttempts
  <2> QED
    BY <1>1, <1>3, <1>4, <1>5, <2>1, <2>2, <2>3, LookType DEF TypeOK
<1>7. ProcInv' /\ TableInv' /\ DownInv'
  BY <1>1, <1>4 DEF IInv, ProcInv, TableInv, DownInv
<1>8. NoLostPort'
  BY <1>4 DEF IInv, NoLostPort
<1>9. PendingIsCurrent'
  BY <1>2, <1>4 DEF IInv, PendingIsCurrent
<1> QED
  BY <1>6, <1>7, <1>8, <1>9 DEF IInv

(* A new process takes a slot that no table entry names (TableInv).        *)
LEMMA SpawnInv ==
    ASSUME IInv, NEW m \in Matches, Spawn(m)
    PROVE  IInv'
<1> USE FleetAssumptions
<1>1. TypeOK /\ up
  BY DEF IInv, DownInv, Spawn
<1> DEFINE q == AllocatePort(m)
           new == [match |-> m, port |-> q, st |-> "starting", owned |-> TRUE, result |-> FALSE]
<1>2. q \in Ports /\ usedPorts[q] = NoMatch
  BY AllocatePortFree DEF Spawn, FreePorts, PortFree
<1>3. PICK p \in Slots, c \in Calls :
         /\ proc[p] = Free
         /\ proc' = [proc EXCEPT ![p] = new]
         /\ processes' = [processes EXCEPT ![m] = p]
         /\ usedPorts' = [usedPorts EXCEPT ![q] = m]
         /\ PublishEndpoint(m, q, c)
         /\ CountFault(c)
  BY DEF Spawn
<1>4. /\ attempts' = [attempts EXCEPT ![m] = @ + 1]
      /\ attempts[m] < MaxSpawns
      /\ Look(todo \ {m})
      /\ UNCHANGED <<reg, home, over, forgotten, up, crashes>>
  BY <1>1 DEF Spawn, PassedOver, TypeOK
<1>5. /\ known' = known \/ known' = [known EXCEPT ![m] = q]
      /\ pending' = [pending EXCEPT ![m] = NoPort] \/ pending' = [pending EXCEPT ![m] = q]
  BY <1>3 DEF PublishEndpoint, Reported
<1>6. faults' \in 0..MaxFaults
  BY <1>1, <1>3, CallFacts
<1>7. new \in ProcType /\ new.match = m /\ new.port = q /\ new.owned /\ new.st = "starting"
  BY <1>2 DEF ProcType, Running
<1> HIDE DEF q, new
<1>8. TypeOK'
  <2>1. proc' \in [Slots -> ProcType]
    BY <1>1, <1>3, <1>7 DEF TypeOK, ProcType
  <2>2. /\ processes' \in [Matches -> Slots \cup {NoProc}]
        /\ usedPorts' \in [Ports -> Matches \cup {NoMatch}]
    BY <1>1, <1>2, <1>3 DEF TypeOK
  <2>3. /\ known' \in [Matches -> Ports \cup {NoPort}]
        /\ pending' \in [Matches -> Ports \cup {NoPort}]
    BY <1>1, <1>2, <1>5 DEF TypeOK
  <2>4. attempts' \in [Matches -> 0..MaxSpawns]
    BY <1>1, <1>4 DEF TypeOK
  <2>5. todo \ {m} \in SUBSET Matches
    BY <1>1 DEF TypeOK
  <2> QED
    BY <1>1, <1>4, <1>6, <2>1, <2>2, <2>3, <2>4, <2>5, LookType DEF TypeOK, ProcType
<1>9. \A k \in Slots : k # p => proc'[k] = proc[k]
  BY <1>1, <1>3 DEF TypeOK
<1>10. proc'[p] = new
  BY <1>1, <1>3 DEF TypeOK
<1>11. \A n \in Matches : /\ processes[n] # p
                          /\ n # m => processes'[n] = processes[n] /\ pending'[n] = pending[n]
  BY <1>1, <1>3, <1>5 DEF IInv, TableInv, TypeOK, Free
<1>12. processes'[m] = p /\ pending'[m] \in {NoPort, q}
  BY <1>1, <1>3, <1>5 DEF TypeOK
<1>13. ProcInv' /\ DownInv'
  BY <1>1, <1>2, <1>4, <1>7, <1>9, <1>10 DEF IInv, ProcInv, DownInv
<1>14. TableInv'
  BY <1>1, <1>7, <1>9, <1>10, <1>11, <1>12 DEF IInv, TableInv, TypeOK
<1>15. NoLostPort'
  <2>1. ~proc[p].owned
    BY <1>3 DEF Free
  <2>2. usedPorts'[q] = m /\ \A k \in Ports : k # q => usedPorts'[k] = usedPorts[k]
    BY <1>1, <1>2, <1>3 DEF TypeOK
  <2> QED
    BY <1>7, <1>9, <1>10, <2>1, <2>2 DEF IInv, NoLostPort
<1>16. PendingIsCurrent'
  BY <1>1, <1>7, <1>9, <1>10, <1>11, <1>12 DEF IInv, PendingIsCurrent, TypeOK
<1> QED
  BY <1>8, <1>13, <1>14, <1>15, <1>16 DEF IInv

-----------------------------------------------------------------------------
(* The processes.                                                          *)

(* A process that is owned keeps its match and its port until the clean up. *)
LEMMA ProcessMoves ==
    ASSUME IInv, NEW p \in Slots, NEW pr \in ProcType,
           proc' = [proc EXCEPT ![p] = pr],
           pr.st # "free" => pr.match = proc[p].match /\ pr.port = proc[p].port /\ proc[p].st # "free",
           proc[p].owned /\ proc[p].st # "free" => /\ pr.owned /\ pr.st # "free",
           proc[p].owned => pr.owned /\ pr.match = proc[p].match /\ pr.port = proc[p].port,
           over' \subseteq Matches,
           UNCHANGED <<reg, home, forgotten, known, up, pc, want, todo, tables, faults, crashes>>
    PROVE  IInv'
<1> USE DEF IInv, tables
<1>1. proc \in [Slots -> ProcType] /\ proc'[p] = pr /\ \A k \in Slots : k # p => proc'[k] = proc[k]
  BY DEF TypeOK, ProcType
<1>2. proc' \in [Slots -> ProcType]
  BY <1>1
<1>3. TypeOK'
  BY <1>2 DEF TypeOK, ProcType
<1>4. ProcInv' /\ DownInv'
  BY <1>1 DEF ProcInv, DownInv
<1>5. TableInv'
  BY <1>1 DEF TableInv, TypeOK
<1>6. NoLostPort'
  BY <1>1 DEF NoLostPort
<1>7. PendingIsCurrent'
  BY <1>1 DEF PendingIsCurrent, TableInv, TypeOK
<1> QED
  BY <1>3, <1>4, <1>5, <1>6, <1>7

LEMMA BindExitInv ==
    ASSUME IInv, NEW p \in Slots, Bind(p) \/ Exit(p)
    PROVE  IInv'
<1>1. proc[p] \in ProcType /\ over \subseteq Matches /\ proc \in [Slots -> ProcType]
  BY DEF IInv, TypeOK, ProcType
<1>2. CASE Bind(p)
  <2> DEFINE pr == [proc[p] EXCEPT !.st = "bound"]
  <2>1. proc' = [proc EXCEPT ![p] = pr] /\ proc[p].st = "starting"
    BY <1>1, <1>2 DEF Bind
  <2>2. /\ pr \in ProcType /\ pr.st = "bound" /\ pr.match = proc[p].match
        /\ pr.port = proc[p].port /\ pr.owned = proc[p].owned
    BY <1>1 DEF ProcType, Running
  <2>3. UNCHANGED <<lobby, up, pc, want, todo, tables, faults, crashes>>
    BY <1>2 DEF Bind
  <2> HIDE DEF pr
  <2> QED
    BY <1>1, <2>1, <2>2, <2>3, ProcessMoves DEF lobby
<1>3. CASE Exit(p)
  <2>1. PICK r \in BOOLEAN : proc' = [proc EXCEPT ![p] =
             IF @.owned THEN [@ EXCEPT !.st = "exited", !.result = r] ELSE Free]
    BY <1>3 DEF Exit
  <2> DEFINE ex == [proc[p] EXCEPT !.st = "exited", !.result = r]
             pr == IF proc[p].owned THEN ex ELSE Free
  <2>2. proc' = [proc EXCEPT ![p] = pr] /\ proc[p].st # "free"
    BY <1>1, <1>3, <2>1 DEF Exit, Running
  <2>3. /\ ex \in ProcType /\ ex.st = "exited" /\ ex.match = proc[p].match
        /\ ex.port = proc[p].port /\ ex.owned = proc[p].owned
    BY <1>1 DEF ProcType
  <2>4. Free \in ProcType /\ Free.st = "free"
    BY DEF Free, ProcType
  <2>5. UNCHANGED <<lobby, up, pc, want, todo, tables, faults, crashes>>
    BY <1>3 DEF Exit
  <2> HIDE DEF ex
  <2>6. CASE proc[p].owned
    BY <1>1, <2>2, <2>3, <2>5, <2>6, ProcessMoves DEF lobby
  <2>7. CASE ~proc[p].owned
    BY <1>1, <2>2, <2>4, <2>5, <2>7, ProcessMoves DEF lobby
  <2> QED
    BY <2>6, <2>7
<1> QED
  BY <1>2, <1>3

LEMMA SubmitResultInv ==
    ASSUME IInv, NEW p \in Slots, SubmitResult(p)
    PROVE  IInv'
<1>1. proc[p] \in ProcType /\ proc \in [Slots -> ProcType]
  BY DEF IInv, TypeOK, ProcType
<1> DEFINE pr == [proc[p] EXCEPT !.st = "submitted", !.result = FALSE]
<1>2. proc' = [proc EXCEPT ![p] = pr] /\ proc[p].st = "exited"
  BY <1>1 DEF SubmitResult
<1>3. /\ pr \in ProcType /\ pr.st = "submitted" /\ pr.match = proc[p].match
      /\ pr.port = proc[p].port /\ pr.owned = proc[p].owned
  BY <1>1 DEF ProcType
<1>4. over' \subseteq Matches
  BY <1>2 DEF SubmitResult, IInv, TypeOK, ProcInv
<1>5. UNCHANGED <<reg, home, forgotten, known, up, pc, want, todo, tables, faults, crashes>>
  BY DEF SubmitResult
<1> HIDE DEF pr
<1> QED
  BY <1>1, <1>2, <1>3, <1>4, <1>5, ProcessMoves

(* The clean up frees the slot, the match's entries and the port.          *)
LEMMA CleanUpInv ==
    ASSUME IInv, NEW p \in Slots, CleanUp(p)
    PROVE  IInv'
<1> USE FleetAssumptions
<1>1. TypeOK /\ proc \in [Slots -> ProcType]
  BY DEF IInv, TypeOK, ProcType
<1> DEFINE m == proc[p].match
           q == proc[p].port
<1>2. m \in Matches /\ q \in Ports
  BY DEF IInv, ProcInv, CleanUp
<1>3. /\ processes' = [processes EXCEPT ![m] = NoProc]
      /\ usedPorts' = [usedPorts EXCEPT ![q] = NoMatch]
      /\ pending' = [pending EXCEPT ![m] = NoPort]
      /\ proc' = [proc EXCEPT ![p] = Free]
      /\ UNCHANGED <<lobby, up, pc, want, todo, attempts, faults, crashes>>
  BY DEF CleanUp
<1>4. Free \in ProcType /\ Free.st = "free" /\ ~Free.owned
  BY DEF Free, ProcType
<1>5. /\ proc'[p] = Free /\ \A k \in Slots : k # p => proc'[k] = proc[k]
      /\ processes'[m] = NoProc /\ \A n \in Matches : n # m => processes'[n] = processes[n]
      /\ pending'[m] = NoPort /\ \A n \in Matches : n # m => pending'[n] = pending[n]
      /\ usedPorts'[q] = NoMatch /\ \A k \in Ports : k # q => usedPorts'[k] = usedPorts[k]
  BY <1>1, <1>2, <1>3 DEF TypeOK
<1>6. \A n \in Matches : n # m => processes[n] # p
  BY DEF IInv, TableInv
<1>7. TypeOK'
  <2>1. proc' \in [Slots -> ProcType]
    BY <1>1, <1>3, <1>4
  <2>2. /\ processes' \in [Matches -> Slots \cup {NoProc}]
        /\ usedPorts' \in [Ports -> Matches \cup {NoMatch}]
        /\ pending' \in [Matches -> Ports \cup {NoPort}]
    BY <1>1, <1>2, <1>3 DEF TypeOK
  <2> QED
    BY <1>1, <1>3, <2>1, <2>2 DEF TypeOK, ProcType, lobby
<1>8. ProcInv' /\ TableInv'
  BY <1>1, <1>4, <1>5, <1>6 DEF IInv, ProcInv, TableInv, TypeOK
<1>9. DownInv'
  BY <1>2, <1>3, <1>5 DEF IInv, DownInv
<1>10. NoLostPort'
  BY <1>5 DEF IInv, NoLostPort
<1>11. PendingIsCurrent'
  BY <1>1, <1>5, <1>6 DEF IInv, PendingIsCurrent, TypeOK
<1> QED
  BY <1>7, <1>8, <1>9, <1>10, <1>11 DEF IInv

-----------------------------------------------------------------------------
(* An agent that stops leaves no tables; one that starts finds none.       *)
LEMMA AgentStopsInv ==
    ASSUME IInv, NEW g \in BOOLEAN, AgentStops(g)
    PROVE  IInv'
<1> USE FleetAssumptions
<1>1. TypeOK
  BY DEF IInv
<1>2. /\ processes' = [m \in Matches |-> NoProc]
      /\ usedPorts' = [q \in Ports |-> NoMatch]
      /\ attempts' = [m \in Matches |-> 0]
      /\ pending' = [m \in Matches |-> NoPort]
      /\ todo' = {}
      /\ want' = [m \in Matches |-> NoPort]
      /\ pc' = "idle"
      /\ up' = FALSE
      /\ UNCHANGED <<home, over, forgotten, known, faults>>
  BY DEF AgentStops, EmptyTables
<1>3. \A p \in Slots : proc'[p] = Free \/ proc'[p] = Orphaned(proc[p])
  BY DEF AgentStops
<1>4. Free \in ProcType /\ Free.st = "free"
  BY DEF Free, ProcType
<1>5. \A p \in Slots : /\ proc'[p] \in ProcType
                       /\ proc'[p].st # "free" => /\ proc'[p].match \in Matches
                                                  /\ proc'[p].port \in Ports
  <2> TAKE p \in Slots
  <2>1. proc[p] \in ProcType
    BY <1>1 DEF TypeOK, ProcType
  <2> DEFINE orphan == [proc[p] EXCEPT !.owned = FALSE]
  <2>2. /\ orphan \in ProcType /\ orphan.match = proc[p].match
        /\ orphan.port = proc[p].port /\ orphan.st = proc[p].st
    BY <2>1 DEF ProcType
  <2>3. proc'[p] = Free \/ (proc[p].st \in Running /\ proc'[p] = orphan)
    BY <1>3 DEF Orphaned
  <2> HIDE DEF orphan
  <2>4. proc[p].st # "free" => proc[p].match \in Matches /\ proc[p].port \in Ports
    BY DEF IInv, ProcInv
  <2> QED
    BY <1>4, <2>2, <2>3, <2>4
<1>6. proc' \in [Slots -> ProcType]
  BY <1>5 DEF AgentStops
<1>7. reg' \in RegType
  <2>1. reg \in RegType /\ Agent \in All
    BY <1>1 DEF TypeOK, RegType, All
  <2> QED
    BY <2>1, OutType DEF AgentStops
<1>8. crashes' \in 0..MaxCrashes
  BY <1>1 DEF AgentStops, TypeOK
<1>9. TypeOK'
  <2>1. /\ want' \in [Matches -> Ports \cup {NoPort}]
        /\ pending' \in [Matches -> Ports \cup {NoPort}]
        /\ processes' \in [Matches -> Slots \cup {NoProc}]
        /\ usedPorts' \in [Ports -> Matches \cup {NoMatch}]
        /\ attempts' \in [Matches -> 0..MaxSpawns]
    BY <1>2
  <2> QED
    BY <1>1, <1>2, <1>6, <1>7, <1>8, <2>1 DEF TypeOK, RegType, ProcType
<1>10. ProcInv' /\ TableInv' /\ DownInv'
  BY <1>2, <1>5 DEF ProcInv, TableInv, DownInv
<1>11. NoLostPort' /\ PendingIsCurrent'
  BY <1>2 DEF NoLostPort, PendingIsCurrent
<1> QED
  BY <1>9, <1>10, <1>11 DEF IInv

LEMMA AgentStartsInv ==
    ASSUME IInv, AgentStarts
    PROVE  IInv'
<1> USE FleetAssumptions
<1>1. TypeOK
  BY DEF IInv
<1>2. /\ \A m \in Matches : processes[m] = NoProc /\ pending[m] = NoPort
      /\ \A q \in Ports : usedPorts[q] = NoMatch
  BY DEF IInv, DownInv, AgentStarts
<1>3. /\ up' = TRUE
      /\ proc' = [p \in Slots |-> Free] \/ proc' = proc
      /\ UNCHANGED <<home, over, forgotten, known, pc, want, todo, tables, faults, crashes>>
  BY DEF AgentStarts
<1>4. reg' \in RegType
  <2>1. reg \in RegType /\ Agent \in All
    BY <1>1 DEF TypeOK, RegType, All
  <2> QED
    BY <2>1, UpsertType DEF AgentStarts, Register
<1>5. proc' \in [Slots -> ProcType]
  <2>1. proc \in [Slots -> ProcType]
    BY <1>1 DEF TypeOK, ProcType
  <2>2. Free \in ProcType
    BY DEF Free, ProcType
  <2> QED
    BY <1>3, <2>1, <2>2
<1>6. TypeOK'
  BY <1>1, <1>3, <1>4, <1>5 DEF TypeOK, RegType, ProcType, tables
<1>7. ProcInv'
  BY <1>3 DEF IInv, ProcInv, Free
<1>8. TableInv' /\ DownInv' /\ NoLostPort' /\ PendingIsCurrent'
  BY <1>2, <1>3 DEF TableInv, DownInv, NoLostPort, PendingIsCurrent, tables
<1> QED
  BY <1>6, <1>7, <1>8 DEF IInv

LEMMA InitInv == Init => IInv
<1> SUFFICES ASSUME Init PROVE IInv
  OBVIOUS
<1> USE FleetAssumptions
<1>1. reg \in RegType
  BY DEF Init, RegType, Absent
<1>2. proc \in [Slots -> ProcType]
  BY DEF Init, ProcType, Free
<1>3. TypeOK
  <2>1. /\ home \in [Matches -> All \cup {NoServer}]
        /\ known \in [Matches -> Ports \cup {NoPort}]
        /\ want \in [Matches -> Ports \cup {NoPort}]
        /\ pending \in [Matches -> Ports \cup {NoPort}]
    BY DEF Init
  <2>2. /\ processes \in [Matches -> Slots \cup {NoProc}]
        /\ usedPorts \in [Ports -> Matches \cup {NoMatch}]
        /\ attempts \in [Matches -> 0..MaxSpawns]
    BY DEF Init
  <2>3. /\ over = {} /\ forgotten = {} /\ todo = {} /\ up = FALSE /\ pc = "idle"
        /\ faults \in 0..MaxFaults /\ crashes \in 0..MaxCrashes
    BY DEF Init
  <2> QED
    BY <1>1, <1>2, <2>1, <2>2, <2>3 DEF TypeOK, RegType, ProcType
<1>4. ProcInv /\ TableInv /\ DownInv /\ NoLostPort /\ PendingIsCurrent
  BY DEF Init, ProcInv, TableInv, DownInv, NoLostPort, PendingIsCurrent, Free
<1> QED
  BY <1>3, <1>4 DEF IInv

LEMMA NextInv == IInv /\ [Next]_vars => IInv'
<1> SUFFICES ASSUME IInv, [Next]_vars PROVE IInv'
  OBVIOUS
<1>1. CASE UNCHANGED vars
  <2>1. TypeOK'
    BY <1>1 DEF IInv, TypeOK, vars, lobby, tables
  <2> QED
    BY <1>1, <2>1 DEF IInv, ProcInv, TableInv, DownInv, NoLostPort, PendingIsCurrent,
                      vars, lobby, tables
<1>2. CASE LoopStep
  <2>1. CASE Poll /\ Matches # {}
    BY <2>1, LookInv
  <2>2. CASE Poll /\ Matches = {}
    BY <2>2, LoopOnly DEF Poll, IInv, TypeOK, tables
  <2> QED
    BY <1>2, <2>1, <2>2, LookInv, HeartbeatInv, ReconcileInv, SpawnInv DEF LoopStep
<1>3. CASE ProcessStep
  BY <1>3, BindExitInv, SubmitResultInv, CleanUpInv DEF ProcessStep
<1> QED
  BY <1>1, <1>2, <1>3, LobbyStepInv, AgentStartsInv, AgentStopsInv DEF Next

(* The invariant holds of every reachable state of the lobby's registry,   *)
(* the agent and its processes, however many things go wrong.              *)
THEOREM InductiveInvariant == Spec => []IInv
BY InitInv, NextInv, PTL DEF Spec

-----------------------------------------------------------------------------
(* Every reachable state of the registry and the agent is well formed.     *)
THEOREM TypeCorrect == Spec => []TypeOK
<1>1. IInv => TypeOK
  BY DEF IInv
<1> QED
  BY <1>1, InductiveInvariant, PTL

(* flushPendingReports never sends the lobby the port of an earlier        *)
(* process of a match that has a tracked one.                              *)
THEOREM PendingReportsAreCurrent == Spec => []PendingIsCurrent
<1>1. IInv => PendingIsCurrent
  BY DEF IInv
<1> QED
  BY <1>1, InductiveInvariant, PTL

(* Every port in usedPorts belongs to a process whose goroutine will still *)
(* clear it, whichever of the loop and the goroutine comes first.          *)
THEOREM PortsAreNotLost == Spec => []NoLostPort
<1>1. IInv => NoLostPort
  BY DEF IInv
<1> QED
  BY <1>1, InductiveInvariant, PTL
=============================================================================
