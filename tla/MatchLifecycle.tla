--------------------------- MODULE MatchLifecycle ---------------------------
(***************************************************************************)
(* The life of a match in the lobby process of Gensoulkyo                  *)
(* (runtime/core/service.go, battle_result_callback.go, battle_events.go,  *)
(* lobby_bridge.go) and its durable row (match_store.go).                  *)
(*                                                                         *)
(* Every handler runs under the one mutex of the Service, so a handler is  *)
(* one action.  What interleaves is everything outside the mutex: the      *)
(* players, the battle agent's poll, the battle server's callbacks, the    *)
(* passing of time, store writes that fail half way through a handler and  *)
(* restarts of the process, which lose every variable but the row.         *)
(*                                                                         *)
(* Time is kept as ages: alloc[m] is the age of the allocation,            *)
(* dropAge[m][p] the time since the last drop of p, and so on, each        *)
(* saturating where the code stops telling ages apart.                     *)
(***************************************************************************)
EXTENDS Integers, FiniteSets

CONSTANTS
    Matches,          \* match identifiers; also the bound on matches created
    Players,          \* the roster: every match here is played by all of them
    Hashes, NoHash,   \* result hashes a battle server can report
    NoMatch,
    AllocTTL,         \* battleAllocationTTL
    MatchTTL,         \* DefaultMatchTTL
    ReconnectWindow,  \* ReconnectWindowSeconds
    MaxFaults,        \* bound on failing store writes
    MaxRestarts       \* bound on restarts of the lobby process

ASSUME MatchAssumptions ==
    /\ NoHash \notin Hashes
    /\ NoMatch \notin Matches
    /\ IsFiniteSet(Matches)
    /\ AllocTTL \in Nat \ {0}
    /\ MatchTTL \in Nat \ {0}
    /\ ReconnectWindow \in Nat \ {0}
    /\ MaxFaults \in Nat
    /\ MaxRestarts \in Nat

VARIABLES
    status,     \* s.matches[m].Status, "absent" when m is not in the map
    endedAt,    \* match.EndedAt is set
    ready,      \* the players with Ready
    dropAge,    \* age of DisconnectedAt; Unset means zero, that is, connected
    result,     \* match.BattleResultHash
    settled,    \* s.settlements: the result each player was given
    alloc,      \* age of s.battleAllocations[m].AllocatedAt, Unset when absent
    bound,      \* lobbyws has started its per-match server for m
    rematch,    \* s.rematches: who accepted, and the match that came of it
    row,        \* the durable row in lobby_matches
    age,        \* age of CreatedAt, from which expires_at is computed
    paid,       \* history: how often applyRewards/applyProgress ran for a player
    endedBy,    \* history: what first ended the match
    parent,     \* history: the match whose rematch this is
    minted,     \* history: the match ids handed out so far
    faults, restarts,
    reply       \* the part of the last answer that a property speaks of

memory == <<status, endedAt, ready, dropAge, result, settled, alloc, bound, rematch>>
history == <<paid, endedBy, parent, minted>>
vars == <<memory, row, age, history, faults, restarts, reply>>

Unset == -1
Live == {"loading", "running"}
NoRow == [status |-> "none", hash |-> NoHash, alloc |-> Unset]
NoRematch == [accepted |-> {}, next |-> NoMatch]
Silent == [op |-> "none", match |-> NoMatch, listed |-> {}]
Duplicate(m) == [op |-> "duplicate", match |-> m, listed |-> {}]
Assigned(ms) == [op |-> "assigned", match |-> NoMatch, listed |-> ms]

(* One tick later; past its limit an age stays where it is.                 *)
Older(a, limit) == IF a = Unset \/ a = limit THEN a ELSE a + 1

-----------------------------------------------------------------------------
(* Store writes.  While the fault budget lasts a write may be lost, or be   *)
(* applied although the handler sees an error (a lost answer, or a player   *)
(* row that fails after the match row was saved).                           *)

WriteOutcomes == IF faults < MaxFaults THEN {"ok", "lost", "unknown"} ELSE {"ok"}
Applied(w) == w # "lost"
CountFault(w) == faults' = IF w = "ok" THEN faults ELSE faults + 1

(* matchRecordFromStateLocked: the row a match in memory projects to.       *)
RowOf(st, h, al) == [status |-> st, hash |-> h, alloc |-> al]

(* persistMatchLocked: SaveMatch is an upsert that overwrites every column. *)
PersistMatch(m, rec, w) ==
    /\ row' = IF Applied(w) THEN [row EXCEPT ![m] = rec] ELSE row
    /\ CountFault(w)

(* SettleMatch of the store: an UPDATE, so a missing row stays missing.     *)
SettledRow(m, h) ==
    IF row[m].status = "none" THEN row[m]
    ELSE [row[m] EXCEPT !.status = "ended", !.hash = h]

-----------------------------------------------------------------------------
(* Settlement.                                                              *)

WinnerOutcome(W) == [p \in Players |-> IF p \in W THEN "win" ELSE "loss"]
DrawOutcome == [p \in Players |-> "draw"]
FleeOutcome(leavers) == [p \in Players |-> IF p \in leavers THEN "flee" ELSE "win"]

(* The results settleMatchLocked can compute: versus modes have one winner  *)
(* or a draw, boss modes let any set of players win.                        *)
ScoreOutcomes == {DrawOutcome} \cup {WinnerOutcome(W) : W \in SUBSET Players}

(* Mutant: the error of the store write is ignored.                         *)
SettleLockedIgnoringError(m, h, outcome, w) ==
    /\ status' = [status EXCEPT ![m] = "ended"]
    /\ endedAt' = [endedAt EXCEPT ![m] = TRUE]
    /\ result' = [result EXCEPT ![m] = h]
    /\ endedBy' = [endedBy EXCEPT ![m] = IF @ = "none" THEN "play" ELSE @]
    /\ row' = IF Applied(w) THEN [row EXCEPT ![m] = SettledRow(m, h)] ELSE row
    /\ settled' = [settled EXCEPT ![m] = outcome]
    /\ paid' = [paid EXCEPT ![m] = [p \in Players |-> @[p] + 1]]
    /\ CountFault(w)

(* settleMatchLocked / settleMatchFromWinnerLocked: the match ends in       *)
(* memory before the row is written; a failed write returns at once, before *)
(* any settlement, reward or event.                                         *)
SettleLocked(m, h, outcome, w) ==
    /\ status' = [status EXCEPT ![m] = "ended"]
    /\ endedAt' = [endedAt EXCEPT ![m] = TRUE]
    /\ result' = [result EXCEPT ![m] = h]
    /\ endedBy' = [endedBy EXCEPT ![m] = IF @ = "none" THEN "play" ELSE @]
    /\ row' = IF Applied(w) THEN [row EXCEPT ![m] = SettledRow(m, h)] ELSE row
    /\ settled' = IF w = "ok" THEN [settled EXCEPT ![m] = outcome] ELSE settled
    /\ paid' = IF w = "ok" THEN [paid EXCEPT ![m] = [p \in Players |-> @[p] + 1]] ELSE paid
    /\ CountFault(w)

(* Mutant: a flee leaves no settlement behind.                              *)
SettleFleeLockedUnrecorded(m, leavers, w) ==
    /\ status' = [status EXCEPT ![m] = "ended"]
    /\ endedBy' = [endedBy EXCEPT ![m] = "flee"]
    /\ row' = IF Applied(w) THEN [row EXCEPT ![m] = SettledRow(m, result[m])] ELSE row
    /\ settled' = settled
    /\ CountFault(w)

(* settleFleeLocked: like settleMatchLocked, but EndedAt stays zero and     *)
(* nobody is paid.                                                          *)
SettleFleeLocked(m, leavers, w) ==
    /\ status' = [status EXCEPT ![m] = "ended"]
    /\ endedBy' = [endedBy EXCEPT ![m] = "flee"]
    /\ row' = IF Applied(w) THEN [row EXCEPT ![m] = SettledRow(m, result[m])] ELSE row
    /\ settled' = IF w = "ok" THEN [settled EXCEPT ![m] = FleeOutcome(leavers)] ELSE settled
    /\ CountFault(w)

-----------------------------------------------------------------------------
(* Handlers called by players.  Requests that change nothing (a second      *)
(* ready, a reconnect too late, anything on an ended match) are stutters.   *)

EveryoneReady(who) == who = Players

ReadyMatch(m, p) ==
    /\ status[m] \in Live
    /\ p \notin ready[m]
    /\ LET st == IF EveryoneReady(ready[m] \cup {p}) THEN "running" ELSE status[m]
       IN /\ status' = [status EXCEPT ![m] = st]
          /\ ready' = [ready EXCEPT ![m] = @ \cup {p}]
          /\ \E w \in WriteOutcomes :
                PersistMatch(m, RowOf(st, result[m], alloc[m]), w)
    /\ reply' = Silent
    /\ UNCHANGED <<endedAt, dropAge, result, settled, alloc, bound, rematch, age, history, restarts>>

DisconnectMatch(m, p) ==
    /\ status[m] \in Live
    /\ dropAge' = [dropAge EXCEPT ![m][p] = 0]
    /\ reply' = Silent
    /\ UNCHANGED <<status, endedAt, ready, result, settled, alloc, bound, rematch,
                   row, age, history, faults, restarts>>

ReconnectMatch(m, p) ==
    /\ status[m] \in Live
    /\ dropAge[m][p] < ReconnectWindow
    /\ dropAge' = [dropAge EXCEPT ![m][p] = Unset]
    /\ reply' = Silent
    /\ UNCHANGED <<status, endedAt, ready, result, settled, alloc, bound, rematch,
                   row, age, history, faults, restarts>>

AbandonMatch(m, p) ==
    /\ status[m] \in Live
    /\ dropAge' = [dropAge EXCEPT ![m][p] = 0]
    /\ \E w \in WriteOutcomes : SettleFleeLocked(m, {p}, w)
    /\ reply' = Silent
    /\ UNCHANGED <<endedAt, ready, result, alloc, bound, rematch, age,
                   paid, parent, minted, restarts>>

(* Any player may settle a match that has not ended, whatever its status.   *)
SettleMatch(m) ==
    /\ status[m] \in Live
    /\ \E outcome \in ScoreOutcomes, w \in WriteOutcomes :
          SettleLocked(m, result[m], outcome, w)
    /\ reply' = Silent
    /\ UNCHANGED <<ready, dropAge, alloc, bound, rematch, age, parent, minted, restarts>>

(* createMatchFromParticipantsLocked: the match and its allocation enter    *)
(* the maps before the row is written, and stay there when the write fails. *)
CreateMatch(n, from, w) ==
    /\ n \in Matches \ minted
    /\ minted' = minted \cup {n}
    /\ parent' = [parent EXCEPT ![n] = from]
    /\ status' = [status EXCEPT ![n] = "loading"]
    /\ alloc' = [alloc EXCEPT ![n] = 0]
    /\ age' = [age EXCEPT ![n] = 0]
    /\ PersistMatch(n, RowOf("loading", NoHash, 0), w)

(* Mutant: the match a rematch already produced is forgotten.               *)
RematchFoundNever(m) == FALSE
RematchFound(m) == rematch[m].next # NoMatch

RequestRematch(m, p) ==
    /\ status[m] = "ended"
    /\ \A q \in Players : settled[m][q] # "none"
    /\ LET accepted == rematch[m].accepted \cup {p}
       IN \/ /\ RematchFound(m) \/ accepted # Players
             /\ rematch' = [rematch EXCEPT ![m].accepted = accepted]
             /\ UNCHANGED <<status, alloc, row, age, minted, parent, faults>>
          \/ /\ ~RematchFound(m)
             /\ accepted = Players
             /\ \E n \in Matches, w \in WriteOutcomes :
                   /\ CreateMatch(n, m, w)
                   /\ rematch' = [rematch EXCEPT ![m] =
                         [accepted |-> accepted, next |-> IF w = "ok" THEN n ELSE NoMatch]]
    /\ reply' = Silent
    /\ UNCHANGED <<endedAt, ready, dropAge, result, settled, bound, paid, endedBy, restarts>>

-----------------------------------------------------------------------------
(* Handlers called by the battle side.                                      *)

(* SubmitBattleResult (signed) and ApplyBattleResultCallback (plain): the   *)
(* hash is stamped before the settle, and an ended match answers the same   *)
(* hash as a duplicate.                                                     *)
AcceptResult(m, h, outcomes) ==
    \/ /\ status[m] = "running"
       /\ \E outcome \in outcomes, w \in WriteOutcomes : SettleLocked(m, h, outcome, w)
       /\ reply' = Silent
       /\ UNCHANGED <<ready, dropAge, alloc, bound, rematch, age, parent, minted, restarts>>
    \/ /\ status[m] = "ended"
       /\ result[m] = h
       /\ reply' = Duplicate(m)
       /\ UNCHANGED <<memory, row, age, history, faults, restarts>>

SubmitBattleResult(m, h) == AcceptResult(m, h, ScoreOutcomes)

ApplyBattleResultCallback(m, h) ==
    AcceptResult(m, h, {DrawOutcome} \cup {WinnerOutcome({w}) : w \in Players})

(* SubmitBattleEvents with an all_players_disconnected row.                 *)
SubmitBattleEvents(m) ==
    /\ status[m] = "running"
    /\ \E p \in Players : dropAge[m][p] # Unset
    /\ \E w \in WriteOutcomes : SettleFleeLocked(m, Players, w)
    /\ reply' = Silent
    /\ UNCHANGED <<endedAt, ready, dropAge, result, alloc, bound, rematch, age,
                   paid, parent, minted, restarts>>

(* ReportBattleAgentEndpoint: a lobby that restarted reloads the allocation *)
(* from the row; the match, when it is in memory, is written back whole.    *)
ReportBattleAgentEndpoint(m) ==
    LET al == IF alloc[m] # Unset THEN alloc[m] ELSE row[m].alloc
    IN /\ al # Unset
       /\ alloc' = [alloc EXCEPT ![m] = al]
       /\ \E w \in WriteOutcomes :
             IF status[m] # "absent"
             THEN PersistMatch(m, RowOf(status[m], result[m], al), w)
             ELSE PersistMatch(m, IF row[m].status = "none" THEN row[m]
                                  ELSE [row[m] EXCEPT !.alloc = al], w)
       /\ reply' = Silent
       /\ UNCHANGED <<status, endedAt, ready, dropAge, result, settled, bound, rematch,
                      age, history, restarts>>

(* BindBattleServerAllocation: lobbyws calls it once for a match, when the  *)
(* server it spawned is up; the allocation starts a new life.               *)
BindBattleServerAllocation(m) ==
    /\ status[m] # "absent"
    /\ ~bound[m]
    /\ bound' = [bound EXCEPT ![m] = TRUE]
    /\ alloc' = [alloc EXCEPT ![m] = 0]
    /\ \E w \in WriteOutcomes :
          PersistMatch(m, RowOf(status[m], result[m], 0), w)
    /\ reply' = Silent
    /\ UNCHANGED <<status, endedAt, ready, dropAge, result, settled, rematch,
                   age, history, restarts>>

(* expireStaleAllocationsLocked: what outlived the TTL without EndedAt is   *)
(* settled by score; an allocation without a match is dropped.              *)
StaleAlloc(m) == alloc[m] = AllocTTL
(* Mutants: a match that already ended, or only a running one, is settled.  *)
StaleMatchesEndedToo == {m \in Matches : StaleAlloc(m) /\ status[m] # "absent"}
StaleMatchesRunningOnly == {m \in Matches : StaleAlloc(m) /\ status[m] = "running"}
StaleMatches == {m \in Matches : StaleAlloc(m) /\ status[m] # "absent" /\ ~endedAt[m]}

ExpireStaleAllocations(failed, lost, outcomes) ==
    LET hit == StaleMatches
        done == hit \ failed
    IN /\ status' = [m \in Matches |-> IF m \in hit THEN "ended" ELSE status[m]]
       /\ endedAt' = [m \in Matches |-> endedAt[m] \/ m \in hit]
       /\ endedBy' = [m \in Matches |->
             IF m \in hit /\ endedBy[m] = "none" THEN "play" ELSE endedBy[m]]
       /\ row' = [m \in Matches |-> IF m \in hit \ lost THEN SettledRow(m, result[m]) ELSE row[m]]
       /\ settled' = [m \in Matches |-> IF m \in done THEN outcomes[m] ELSE settled[m]]
       /\ paid' = [m \in Matches |->
             IF m \in done THEN [p \in Players |-> paid[m][p] + 1] ELSE paid[m]]
       /\ alloc' = [m \in Matches |->
             IF StaleAlloc(m) /\ status[m] = "absent" THEN Unset ELSE alloc[m]]
       /\ faults' = faults + Cardinality(failed)

(* BattleAgentAssignments: the poll of the battle agent.                    *)
(* Mutant: ended matches are still handed to the agent.                     *)
AssignableEndedToo(m) == alloc[m] # Unset /\ status[m] # "absent"
Assignable(m) == alloc[m] # Unset /\ status[m] # "absent" /\ ~endedAt[m]

BattleAgentAssignments ==
    /\ \E failed \in SUBSET StaleMatches, outcomes \in [StaleMatches -> ScoreOutcomes] :
          /\ faults + Cardinality(failed) <= MaxFaults
          /\ \E lost \in SUBSET failed : ExpireStaleAllocations(failed, lost, outcomes)
    /\ reply' = Assigned({m \in Matches : Assignable(m)'})
    /\ UNCHANGED <<ready, dropAge, result, bound, rematch, age, parent, minted, restarts>>

-----------------------------------------------------------------------------
(* The operator's sweep, time, and restarts.                                *)

(* ListExpiringMatches of the store.                                        *)
(* Mutant: the sweep forgets the status filter.                             *)
ExpiringMatchesAnyStatus == {m \in Matches : age[m] > MatchTTL /\ row[m].status # "none"}
ExpiringMatches == {m \in Matches : age[m] > MatchTTL /\ row[m].status \in Live}

(* Mutant: the sweep gives the match in memory the status of its row too,   *)
(* which no handler of a match expects to find there.                       *)
SweepExpiredMatchesInMemory ==
    /\ ExpiringMatches # {}
    /\ row' = [m \in Matches |->
          IF m \in ExpiringMatches THEN [row[m] EXCEPT !.status = "expired"] ELSE row[m]]
    /\ status' = [m \in Matches |->
          IF m \in ExpiringMatches /\ status[m] # "absent" THEN "expired" ELSE status[m]]
    /\ reply' = Silent
    /\ UNCHANGED <<endedAt, ready, dropAge, result, settled, alloc, bound, rematch,
                   age, history, faults, restarts>>
(* SweepExpiredMatches stamps the row only; a failing write ends the pass.  *)
SweepExpiredMatches ==
    /\ ExpiringMatches # {}
    /\ \E reaped \in SUBSET ExpiringMatches :
          /\ reaped = ExpiringMatches \/ faults < MaxFaults
          /\ row' = [m \in Matches |->
                IF m \in reaped THEN [row[m] EXCEPT !.status = "expired"] ELSE row[m]]
          /\ CountFault(IF reaped = ExpiringMatches THEN "ok" ELSE "lost")
    /\ reply' = Silent
    /\ UNCHANGED <<memory, age, history, restarts>>

Tick ==
    /\ alloc' = [m \in Matches |-> Older(alloc[m], AllocTTL)]
    /\ dropAge' = [m \in Matches |-> [p \in Players |-> Older(dropAge[m][p], ReconnectWindow)]]
    /\ age' = [m \in Matches |-> Older(age[m], MatchTTL + 1)]
    /\ row' = [m \in Matches |-> [row[m] EXCEPT !.alloc = Older(@, AllocTTL)]]
    /\ reply' = Silent
    /\ UNCHANGED <<status, endedAt, ready, result, settled, bound, rematch,
                   history, faults, restarts>>

EmptyMemory ==
    /\ endedAt' = [m \in Matches |-> FALSE]
    /\ ready' = [m \in Matches |-> {}]
    /\ dropAge' = [m \in Matches |-> [p \in Players |-> Unset]]
    /\ result' = [m \in Matches |-> NoHash]
    /\ settled' = [m \in Matches |-> [p \in Players |-> "none"]]
    /\ bound' = [m \in Matches |-> FALSE]
    /\ rematch' = [m \in Matches |-> NoRematch]

(* NewService: every map of the process starts empty again.                 *)
Restart ==
    /\ restarts < MaxRestarts
    /\ restarts' = restarts + 1
    /\ EmptyMemory
    /\ status' = [m \in Matches |-> "absent"]
    /\ alloc' = [m \in Matches |-> Unset]
    /\ reply' = Silent
    /\ UNCHANGED <<row, age, history, faults>>

-----------------------------------------------------------------------------
(* One match has just been created from the queue or from a room.           *)
Init ==
    /\ \E m \in Matches :
          /\ minted = {m}
          /\ status = [n \in Matches |-> IF n = m THEN "loading" ELSE "absent"]
          /\ alloc = [n \in Matches |-> IF n = m THEN 0 ELSE Unset]
          /\ row = [n \in Matches |-> IF n # m THEN NoRow ELSE
                RowOf("loading", NoHash, 0)]
          /\ age = [n \in Matches |-> IF n = m THEN 0 ELSE Unset]
    /\ endedAt = [m \in Matches |-> FALSE]
    /\ ready = [m \in Matches |-> {}]
    /\ dropAge = [m \in Matches |-> [p \in Players |-> Unset]]
    /\ result = [m \in Matches |-> NoHash]
    /\ settled = [m \in Matches |-> [p \in Players |-> "none"]]
    /\ bound = [m \in Matches |-> FALSE]
    /\ rematch = [m \in Matches |-> NoRematch]
    /\ paid = [m \in Matches |-> [p \in Players |-> 0]]
    /\ endedBy = [m \in Matches |-> "none"]
    /\ parent = [m \in Matches |-> NoMatch]
    /\ faults = 0
    /\ restarts = 0
    /\ reply = Silent

PlayerStep ==
    \E m \in Matches :
       \/ SettleMatch(m)
       \/ \E p \in Players :
             \/ ReadyMatch(m, p)
             \/ DisconnectMatch(m, p)
             \/ ReconnectMatch(m, p)
             \/ AbandonMatch(m, p)
             \/ RequestRematch(m, p)

BattleStep ==
    \E m \in Matches :
       \/ \E h \in Hashes : SubmitBattleResult(m, h) \/ ApplyBattleResultCallback(m, h)
       \/ SubmitBattleEvents(m)
       \/ ReportBattleAgentEndpoint(m)
       \/ BindBattleServerAllocation(m)

Next == PlayerStep \/ BattleStep \/ BattleAgentAssignments
        \/ SweepExpiredMatches \/ Tick \/ Restart

Spec == Init /\ [][Next]_vars

-----------------------------------------------------------------------------
(* Properties.                                                              *)

Ages(limit) == Unset .. limit
Outcomes == {"none", "win", "loss", "draw", "flee"}
RowType == [status : {"none", "loading", "running", "ended", "expired"},
            hash : Hashes \cup {NoHash}, alloc : Ages(AllocTTL)]

(* The shape of the state.  "expired" is a status of the row alone: the     *)
(* sweep of the store leaves the match in memory to its handlers.           *)
TypeOK ==
    /\ status \in [Matches -> Live \cup {"absent", "ended"}]
    /\ endedAt \in [Matches -> BOOLEAN]
    /\ ready \in [Matches -> SUBSET Players]
    /\ dropAge \in [Matches -> [Players -> Ages(ReconnectWindow)]]
    /\ result \in [Matches -> Hashes \cup {NoHash}]
    /\ settled \in [Matches -> [Players -> Outcomes]]
    /\ alloc \in [Matches -> Ages(AllocTTL)]
    /\ bound \in [Matches -> BOOLEAN]
    /\ rematch \in [Matches -> [accepted : SUBSET Players, next : Matches \cup {NoMatch}]]
    /\ row \in [Matches -> RowType]
    /\ age \in [Matches -> Ages(MatchTTL + 1)]
    /\ paid \in [Matches -> [Players -> Nat]]
    /\ endedBy \in [Matches -> {"none", "play", "flee"}]
    /\ parent \in [Matches -> Matches \cup {NoMatch}]
    /\ minted \in SUBSET Matches
    /\ faults \in Nat
    /\ restarts \in Nat
    /\ reply \in [op : {"none", "duplicate", "assigned"},
                   match : Matches \cup {NoMatch}, listed : SUBSET Matches]

(* Nobody is rewarded twice for one match, whichever of the five paths that *)
(* settle a match (SettleMatch, SubmitBattleResult, the result callback,    *)
(* the flee paths, the allocation TTL) run, in whatever order, with failing *)
(* writes and restarts in between.                                          *)
PaidAtMostOnce == \A m \in Matches, p \in Players : paid[m][p] <= 1

(* Rewards are granted only after settleMatchRecordLocked has made the end  *)
(* durable: the row of a paid match says "ended" (or there is no row at     *)
(* all, when even creating it failed), and no sweep, endpoint report or     *)
(* restart ever takes that back.                                            *)
PaidOnlyOnceDurable ==
    \A m \in Matches, p \in Players :
       paid[m][p] > 0 => row[m].status \in {"none", "ended"}

(* While no store write has failed, a match that ended has a settlement for *)
(* each player, so SettleMatch and RequestRematch cannot answer "not        *)
(* settled" for it.                                                         *)
EndedIsSettled ==
    faults = 0 => \A m \in Matches, p \in Players :
                     status[m] = "ended" => settled[m][p] # "none"

(* A poll of the battle agent never lists a match whose players were paid:  *)
(* the agent would spawn a battle server for a finished match.              *)
PaidNeverAssigned == \A m \in reply.listed, p \in Players : paid[m][p] = 0

(* While no store write has failed, one match has at most one rematch,      *)
(* however the players' requests interleave.                                *)
OneRematch ==
    faults = 0 => \A m, n \in minted :
                     parent[m] = parent[n] /\ parent[m] # NoMatch => m = n

(* The durable end of a match is final: no upsert, status update or sweep   *)
(* moves a row out of "ended", and a stored result hash is never replaced.  *)
DurableEndIsFinal ==
    [][\A m \in Matches : row[m].status = "ended" =>
          /\ row'[m].status = "ended"
          /\ row[m].hash # NoHash => row'[m].hash = row[m].hash]_vars

(* The settlement a player was shown for a match that was played is never   *)
(* replaced by another one while the process lives.                         *)
SettlementStable ==
    [][\A m \in Matches, p \in Players :
          settled[m][p] # "none" /\ endedBy[m] = "play" /\ status'[m] # "absent"
             => settled'[m][p] = settled[m][p]]_vars

(* A match whose battle server never answers, or whose players never ready, *)
(* does not stay live: the allocation TTL ends it at a poll of the agent.   *)
EventuallyEnds == \A m \in Matches : status[m] \in Live ~> status[m] \notin Live

(* settleFleeLocked: "neither player's wallet, inventory, rating or task    *)
(* progress moves" for a match that ended by abandonment.                   *)
FledNeverPaid ==
    \A m \in Matches, p \in Players : endedBy[m] = "flee" => paid[m][p] = 0

(* ApplyBattleResultCallback: replaying the same callback "returns the      *)
(* existing settlement marked as a duplicate".                              *)
DuplicateHasSettlement ==
    reply.op = "duplicate" => \A p \in Players : settled[reply.match][p] # "none"
=============================================================================
