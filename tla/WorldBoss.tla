----------------------------- MODULE WorldBoss -----------------------------
(***************************************************************************)
(* The boss all players fight together (runtime/core/service.go: the entry *)
(* check, the daily attempts, the matches made from the queue or as a      *)
(* rematch, and finalizeModeResultLocked, which takes the damage of a      *)
(* match off the shared HP).                                               *)
(*                                                                         *)
(* A match can be settled along several paths, and one that was abandoned  *)
(* is settled a second time when its allocation grows old; the damage must *)
(* leave the boss once.                                                    *)
(***************************************************************************)
EXTENDS Integers, FiniteSets, FiniteSetsExt

CONSTANTS
    Users,
    BossMatches, NoBossMatch,
    BossMaxHP,      \* worldBossMaxHP
    DailyLimit,     \* worldBossDailyLimit
    PartySize,      \* MinPlayers of the world_boss mode
    MaxDamage,      \* bound on the damage dealt in one match
    MaxDays         \* bound on midnights

ASSUME WorldBossAssumptions ==
    /\ IsFiniteSet(BossMatches)
    /\ NoBossMatch \notin BossMatches
    /\ BossMaxHP \in Nat \ {0}
    /\ DailyLimit \in Nat \ {0}
    /\ PartySize \in Nat \ {0}
    /\ MaxDamage \in Nat
    /\ MaxDays \in Nat

VARIABLES
    hp,         \* s.worldBoss.CurrentHP
    defeatedBy, \* DefeatedByMatchID, set together with AnnouncementEmitted
    used,       \* s.worldBossAttempts of the current day
    bossDay,
    waiting,    \* users with a queued world_boss ticket
    fight       \* the world_boss matches

bossVars == <<hp, defeatedBy, used, bossDay, waiting, fight>>

NoFight == [st |-> "none", players |-> {}, cap |-> 0, damage |-> 0, applied |-> 0,
            finalized |-> FALSE, defeated |-> FALSE, endedAt |-> FALSE, accepted |-> {}, rematch |-> NoBossMatch]

Smaller(a, b) == IF a < b THEN a ELSE b
Used(m) == fight[m].st # "none"

(* nextIDLocked for a match; which of the unused ones does not matter.      *)
Minted == CHOOSE m \in BossMatches : ~Used(m)
MatchesLeft == \E m \in BossMatches : ~Used(m)

(* worldBossAttemptsLeftLocked                                              *)
AttemptsLeft(u) == IF used[u] < DailyLimit THEN DailyLimit - used[u] ELSE 0

(* validateModeEntryLocked                                                  *)
MayEnter(u) == hp > 0 /\ AttemptsLeft(u) > 0

(* createMatchFromParticipantsLocked with consumeModeEntryLocked: the       *)
(* attempt is taken here, and nothing is checked again.                     *)
BeginFight(f, m, players) ==
    [f EXCEPT ![m] = [NoFight EXCEPT !.st = "live", !.players = players, !.cap = hp]]

Consume(players) == [u \in Users |-> IF u \in players THEN used[u] + 1 ELSE used[u]]

(* JoinQueue in world_boss mode: whoever completes the party starts it.     *)
JoinBossQueue(u) ==
    /\ u \notin waiting
    /\ MayEnter(u)
    /\ LET party == waiting \cup {u}
       IN IF Cardinality(party) < PartySize
          THEN waiting' = party /\ UNCHANGED <<used, fight>>
          ELSE /\ MatchesLeft
               /\ fight' = BeginFight(fight, Minted, party)
               /\ used' = Consume(party)
               /\ waiting' = {}
    /\ UNCHANGED <<hp, defeatedBy, bossDay>>

CancelBossTicket(u) ==
    /\ u \in waiting
    /\ waiting' = waiting \ {u}
    /\ UNCHANGED <<hp, defeatedBy, used, bossDay, fight>>

(* finalizeModeResultLocked, for the match after its status was changed.    *)
(* Mutant: the damage of a match that is settled again counts again.        *)
FinalizeAgain(m, ended) ==
    LET damage == Smaller(ended.damage, ended.cap)
        applied == Smaller(hp, damage)
        kill == hp > 0 /\ hp = applied /\ defeatedBy = NoBossMatch
    IN /\ hp' = hp - applied
       /\ defeatedBy' = IF kill THEN m ELSE defeatedBy
       /\ fight' = [fight EXCEPT ![m] =
             [ended EXCEPT !.finalized = TRUE, !.applied = applied, !.defeated = @ \/ kill]]
Finalize(m, ended) ==
    IF ended.finalized
    THEN UNCHANGED <<hp, defeatedBy>> /\ fight' = [fight EXCEPT ![m] = ended]
    ELSE LET damage == Smaller(ended.damage, ended.cap)
             applied == Smaller(hp, damage)
             kill == hp > 0 /\ hp = applied /\ defeatedBy = NoBossMatch
         IN /\ hp' = hp - applied
            /\ defeatedBy' = IF kill THEN m ELSE defeatedBy
            /\ fight' = [fight EXCEPT ![m] =
                  [ended EXCEPT !.finalized = TRUE, !.applied = applied, !.defeated = kill]]

(* settleMatchLocked: by a player, or by a signed result.                   *)
SettleFight(m) ==
    /\ fight[m].st = "live"
    /\ \E d \in 0..MaxDamage :
          Finalize(m, [fight[m] EXCEPT !.st = "settled", !.endedAt = TRUE, !.damage = d])
    /\ UNCHANGED <<used, bossDay, waiting>>

(* settleFleeLocked leaves EndedAt alone.                                   *)
FleeFight(m) ==
    /\ fight[m].st = "live"
    /\ \E d \in 0..MaxDamage :
          Finalize(m, [fight[m] EXCEPT !.st = "settled", !.damage = d])
    /\ UNCHANGED <<used, bossDay, waiting>>

(* settleMatchFromWinnerLocked, reached from the result callback, does not  *)
(* call finalizeModeResultLocked.                                           *)
CallbackFight(m) ==
    /\ fight[m].st = "live"
    /\ \E d \in 0..MaxDamage :
          fight' = [fight EXCEPT ![m].st = "settled", ![m].endedAt = TRUE, ![m].damage = d]
    /\ UNCHANGED <<hp, defeatedBy, used, bossDay, waiting>>

(* A settlement whose durable write fails ends the match in memory only.    *)
FailedSettle(m) ==
    /\ fight[m].st = "live"
    /\ fight' = [fight EXCEPT ![m].st = "stuck", ![m].endedAt = TRUE]
    /\ UNCHANGED <<hp, defeatedBy, used, bossDay, waiting>>

(* expireStaleAllocationsLocked: EndedAt is what it looks at, so a match    *)
(* that was abandoned is settled once more.                                 *)
ExpireFight(m) ==
    /\ Used(m)
    /\ ~fight[m].endedAt
    /\ Finalize(m, [fight[m] EXCEPT !.st = "settled", !.endedAt = TRUE])
    /\ UNCHANGED <<used, bossDay, waiting>>

(* RequestRematch: once all have accepted, a match is created from the      *)
(* participants without the entry check.                                    *)
RematchFight(m, u) ==
    /\ fight[m].st = "settled"
    /\ u \in fight[m].players
    /\ fight[m].rematch = NoBossMatch
    /\ LET all == fight[m].accepted \cup {u}
       IN IF all # fight[m].players
          THEN /\ u \notin fight[m].accepted
               /\ fight' = [fight EXCEPT ![m].accepted = all]
               /\ UNCHANGED used
          ELSE /\ MatchesLeft
               /\ fight' = BeginFight([fight EXCEPT ![m].accepted = all, ![m].rematch = Minted],
                                      Minted, fight[m].players)
               /\ used' = Consume(fight[m].players)
    /\ UNCHANGED <<hp, defeatedBy, bossDay, waiting>>

(* worldBossAttemptDayLocked: attempts are counted per UTC day.             *)
Midnight ==
    /\ bossDay < MaxDays
    /\ bossDay' = bossDay + 1
    /\ used' = [u \in Users |-> 0]
    /\ UNCHANGED <<hp, defeatedBy, waiting, fight>>

(* ensureWorldBossLocked                                                    *)
BossInit ==
    /\ hp = BossMaxHP
    /\ defeatedBy = NoBossMatch
    /\ used = [u \in Users |-> 0]
    /\ bossDay = 0
    /\ waiting = {}
    /\ fight = [m \in BossMatches |-> NoFight]

BossNext ==
    \/ \E u \in Users : JoinBossQueue(u) \/ CancelBossTicket(u)
    \/ \E m \in BossMatches :
          \/ SettleFight(m) \/ FleeFight(m) \/ CallbackFight(m) \/ FailedSettle(m) \/ ExpireFight(m)
          \/ \E u \in Users : RematchFight(m, u)
    \/ Midnight

BossSpec == BossInit /\ [][BossNext]_bossVars

-----------------------------------------------------------------------------
(* Properties.                                                              *)

BossTypeOK ==
    /\ hp \in 0..BossMaxHP
    /\ defeatedBy \in BossMatches \cup {NoBossMatch}
    /\ used \in [Users -> Nat]
    /\ bossDay \in 0..MaxDays
    /\ waiting \subseteq Users
    /\ fight \in [BossMatches ->
          [st : {"none", "live", "settled", "stuck"}, players : SUBSET Users, cap : 0..BossMaxHP,
           damage : 0..MaxDamage, applied : 0..BossMaxHP, finalized : BOOLEAN, defeated : BOOLEAN,
           endedAt : BOOLEAN, accepted : SUBSET Users, rematch : BossMatches \cup {NoBossMatch}]]

(* The ledger of the boss, whatever the order in which matches of several   *)
(* parties are settled, abandoned and settled again: it has lost what the   *)
(* matches were told they took (WorldBossApplied), and it falls once,       *)
(* exactly when no HP is left, with one match named and told so             *)
(* (finalizeModeResultLocked, DefeatedByMatchID, world_boss_defeated).      *)
BossLedger ==
    /\ BossMaxHP - hp = MapThenSumSet(LAMBDA m : fight[m].applied, BossMatches)
    /\ hp = 0 <=> defeatedBy # NoBossMatch
    /\ \A m \in BossMatches : fight[m].defeated <=> defeatedBy = m
=============================================================================
