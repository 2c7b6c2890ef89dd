----------------------------- MODULE BattlePlay -----------------------------
(***************************************************************************)
(* The hands and the card draft of one battle royale match as the lobby     *)
(* keeps them: SubmitInput (applyInputLocked, applyCardRequestLocked,       *)
(* advanceSimulationLocked), select_round_card of SubmitModeAction and      *)
(* battle_draft.go.                                                         *)
(*                                                                          *)
(* The match is running and its players are connected (MatchLifecycle has   *)
(* the rest), every card of a deck is in the catalog, and the positions,    *)
(* bullets, scores and events of the simulation are left out: none of them  *)
(* reaches a hand or the draft.  LastSimulatedTick equals match.Tick after  *)
(* every input, so one variable stands for both.  deterministicUnit is a    *)
(* hash of the server seed: any result.                                     *)
(***************************************************************************)
EXTENDS Integers, Sequences, FiniteSets, FiniteSetsExt

CONSTANTS
    Fighters,       \* sortedPlayerIDs(match), a sequence
    NoFighter,
    DeckOf,         \* [user -> DeckSnapshot.CardIDs]
    NoCard,
    HandLimit,      \* cardHandLimit
    CardCost,       \* serverCardCatalog[card].Cost
    CardDraws,      \* serverCardCatalog[card].DrawCards
    CardGain,       \* serverCardCatalog[card].EnergyGain
    CardCooldown,   \* CooldownTicks, the same for every card
    StartEnergy,    \* cardStartingEnergy
    MaxEnergy,      \* cardMaxEnergy; cardEnergyPerTick is 1
    DraftPickCount, \* draftPickCount
    ChoiceTicks,    \* TickRate * 30
    MaxJump,        \* TickRate * 5
    MaxLate,        \* the 4 ticks of validateInputPacket
    DraftBosses,    \* boss ids
    MaxTick,        \* bound on ticks
    MaxRounds       \* bound on match.DraftRoundSeq

Fighting == {Fighters[i] : i \in DOMAIN Fighters}
Pool == UNION {{DeckOf[u][i] : i \in DOMAIN DeckOf[u]} : u \in Fighting}

ASSUME BattlePlayAssumptions ==
    /\ HandLimit \in Nat \ {0} /\ DraftPickCount \in Nat \ {0} /\ MaxJump \in Nat \ {0}
    /\ {ChoiceTicks, MaxLate, CardCooldown, MaxTick, MaxRounds} \subseteq Nat
    /\ MaxEnergy \in Nat /\ StartEnergy \in 0..MaxEnergy
    /\ Fighters \in Seq(Fighting) /\ \A u \in Fighting : DeckOf[u] \in Seq(Pool)
    /\ CardCost \in [Pool -> Nat] /\ CardDraws \in [Pool -> Nat] /\ CardGain \in [Pool -> Nat]
    /\ NoFighter \notin Fighting /\ NoCard \notin Pool
    /\ \A i, j \in DOMAIN Fighters : i # j => Fighters[i] # Fighters[j]

VARIABLES
    matchTick,  \* match.Tick and match.LastSimulatedTick
    lastTick,   \* player.LastTick
    seat,       \* player.Hand, PendingGrants and DrawCursor
    energy,     \* player.Energy
    cooldown,   \* player.Cooldowns
    draft,      \* match.Draft
    rounds,     \* match.DraftRoundSeq
    plays,      \* history: cards played, by user
    won,        \* history: draft cards granted, by user
    defeats,    \* history: the tick of the report that named a picker of the round
    late        \* history: the pickers of the round reported after its first pick

playVars == <<matchTick, lastTick, seat, energy, cooldown, draft, rounds, plays, won, defeats, late>>

Bigger(a, b) == IF a > b THEN a ELSE b
Lesser(a, b) == IF a < b THEN a ELSE b

-----------------------------------------------------------------------------
(* Hands *)

(* drawServerCard: the deck is dealt round and round. *)
DrawServerCard(s, u) ==
    IF Len(s.hand) >= HandLimit \/ DeckOf[u] = <<>> THEN s
    ELSE [s EXCEPT !.hand = Append(@, DeckOf[u][(s.cursor % Len(DeckOf[u])) + 1]),
                   !.cursor = @ + 1]

(* The loop over activation.DrawCards. *)
DrawMany(n, s, u) ==
    LET drawn[i \in 0..n] == IF i = 0 THEN s ELSE DrawServerCard(drawn[i - 1], u)
    IN drawn[n]

InitialHand(u) ==
    LET n == Lesser(HandLimit, Len(DeckOf[u]))
    IN [hand |-> SubSeq(DeckOf[u], 1, n), pending |-> <<>>, cursor |-> n]

GrantCardToPlayer(s, c) ==
    IF Len(s.hand) < HandLimit THEN [s EXCEPT !.hand = Append(@, c)]
    ELSE [s EXCEPT !.pending = Append(@, c)]

PromotePendingGrants(s) ==
    LET n == Lesser(Len(s.pending), HandLimit - Len(s.hand))
    IN [s EXCEPT !.hand = @ \o SubSeq(s.pending, 1, n), !.pending = SubSeq(@, n + 1, Len(@))]

Without(q, i) == SubSeq(q, 1, i - 1) \o SubSeq(q, i + 1, Len(q))

(* The seat after the card in a slot was played: the freed place goes to a  *)
(* deferred grant first, then to the deck, then come the card's own draws.  *)
Played(s, i, u) ==
    LET freed == [s EXCEPT !.hand = Without(@, i)]
    IN DrawMany(CardDraws[s.hand[i]], DrawServerCard(PromotePendingGrants(freed), u), u)

-----------------------------------------------------------------------------
(* The draft: a record whose boss is NoBoss before the first round *)

NoBoss == "none"
NoDraft == [boss |-> NoBoss, first |-> NoFighter, second |-> NoFighter, firstTick |-> 0,
            offer |-> {}, picks |-> [u \in Fighting |-> NoCard], granted |-> TRUE, deadline |-> 0]

(* draftRound is nil or Granted in the tests below: no open round. *)
OpenRound == ~draft.granted
Rank(u) == CHOOSE i \in DOMAIN Fighters : Fighters[i] = u
Taken(picks) == {picks[u] : u \in Fighting} \ {NoCard}

(* drawMixedPoolCandidates: distinct cards of the deduplicated pool. *)
Offers == kSubset(Lesser(DraftPickCount, Cardinality(Pool)), Pool)

OpenDraftRound(u, b, t) ==
    /\ rounds < MaxRounds
    /\ rounds' = rounds + 1
    /\ \E offer \in Offers :
          draft' = [NoDraft EXCEPT !.boss = b, !.first = u, !.firstTick = t, !.offer = offer,
                                   !.granted = FALSE, !.deadline = t + ChoiceTicks]
    /\ defeats' = [v \in Fighting |-> IF v = u THEN t ELSE -1]
    /\ late' = {}

(* recordDraftDefeatLocked for a user the round has no seat for yet: an     *)
(* earlier tick takes the first pick and moves the deadline, the same tick  *)
(* is decided by the order of the player ids.                               *)
(* Mutant: the reports count in the order in which they arrive. *)
SecondDefeatByArrival(u, t) == [draft EXCEPT !.second = u]
SecondDefeat(u, t) ==
    IF t < draft.firstTick
      THEN [draft EXCEPT !.second = draft.first, !.first = u, !.firstTick = t,
                         !.deadline = t + ChoiceTicks]
    ELSE IF t = draft.firstTick /\ Rank(u) < Rank(draft.first)
      THEN [draft EXCEPT !.second = draft.first, !.first = u]
    ELSE [draft EXCEPT !.second = u]

(* ReportBossDefeat.  A report of the current boss is skipped when the      *)
(* round is granted or full or names the user already, one of another boss  *)
(* while the round is open.                                                 *)
ReportBossDefeat(u, b, t) ==
    /\ \/ draft.boss # b /\ ~OpenRound /\ OpenDraftRound(u, b, t)
       \/ /\ draft.boss = b /\ OpenRound /\ draft.second = NoFighter /\ u # draft.first
          /\ draft' = SecondDefeat(u, t)
          /\ defeats' = [defeats EXCEPT ![u] = t]
          /\ late' = IF Taken(draft.picks) = {} THEN late ELSE late \cup {u}
          /\ UNCHANGED rounds
    /\ UNCHANGED <<matchTick, lastTick, seat, energy, cooldown, plays, won>>

(* grantDraftLocked: both picks reach their hands in one step. *)
Granted(d) == [d EXCEPT !.granted = TRUE]
GrantDraft(d, seats) ==
    /\ draft' = Granted(d)
    /\ seat' = [u \in Fighting |-> IF d.picks[u] # NoCard /\ u \in {d.first, d.second}
                                   THEN GrantCardToPlayer(seats[u], d.picks[u]) ELSE seats[u]]
    /\ won' = [u \in Fighting |-> won[u] + IF d.picks[u] # NoCard /\ u \in {d.first, d.second} THEN 1 ELSE 0]

DraftAllPicked(d) == d.second # NoFighter /\ \A u \in {d.first, d.second} : d.picks[u] # NoCard

(* applyMixedPoolDraftPickLocked: the first picker while no pick exists,    *)
(* the second while exactly one does.                                       *)
MayPick(u, c) ==
    /\ OpenRound
    /\ c \in draft.offer
    /\ LET n == Cardinality({v \in Fighting : draft.picks[v] # NoCard})
       IN \/ u = draft.first /\ n = 0
          \/ u # draft.first /\ u = draft.second /\ n = 1 /\ c # draft.picks[draft.first]

SelectRoundCard(u, c) ==
    /\ MayPick(u, c)
    /\ LET d == [draft EXCEPT !.picks[u] = c]
       IN IF DraftAllPicked(d) THEN GrantDraft(d, seat)
          ELSE draft' = d /\ UNCHANGED <<seat, won>>
    /\ UNCHANGED <<matchTick, lastTick, energy, cooldown, rounds, plays, defeats, late>>

(* autoDraftPick for one of the two pickers: any card nobody took, or none  *)
(* when the pool was too small.                                             *)
AutoDraftPick(picks, u) ==
    LET remaining == draft.offer \ Taken(picks)
    IN IF u = NoFighter THEN {picks}
       ELSE IF picks[u] # NoCard \/ remaining = {} THEN {picks}
       ELSE {[picks EXCEPT ![u] = c] : c \in remaining}

Overdue(t) == OpenRound /\ t >= draft.deadline

(* resolveDraftTimeoutLocked, at the end of advanceSimulationLocked. *)
ResolveDraftTimeout(t, seats) ==
    IF ~Overdue(t) THEN seat' = seats /\ UNCHANGED <<draft, won>>
    ELSE \E f \in AutoDraftPick(draft.picks, draft.first) :
         \E g \in AutoDraftPick(f, draft.second) : GrantDraft([draft EXCEPT !.picks = g], seats)

-----------------------------------------------------------------------------
(* validateInputPacket; a repeated packet fails on its tick as on its seq. *)
ValidInput(u, t) ==
    /\ t > lastTick[u]
    /\ t + MaxLate >= matchTick
    /\ t <= Bigger(lastTick[u], matchTick) + MaxJump

Accrued(u, t) == Lesser(MaxEnergy, energy[u] + Bigger(1, t - lastTick[u]))

(* validateAndActivateCardLocked *)
MayPlay(u, i, t) ==
    /\ i \in DOMAIN seat[u].hand
    /\ t >= cooldown[u][seat[u].hand[i]]
    /\ Accrued(u, t) >= CardCost[seat[u].hand[i]]

(* What is left after the card is paid for, and after what it gives back.   *)
Paid(u, t, c) == Lesser(MaxEnergy, Accrued(u, t) - CardCost[c] + CardGain[c])

(* SubmitInput with card_slot i - 1, or without a card when i is 0.  A card *)
(* that is refused leaves the rest of the input standing.                   *)
SubmitInput(u, t, i) ==
    /\ t <= MaxTick
    /\ ValidInput(u, t)
    /\ lastTick' = [lastTick EXCEPT ![u] = t]
    /\ matchTick' = Bigger(matchTick, t)
    /\ LET plain == ~MayPlay(u, i, t)
           seats == IF plain THEN seat ELSE [seat EXCEPT ![u] = Played(@, i, u)]
       IN /\ energy' = [energy EXCEPT ![u] = IF plain THEN Accrued(u, t) ELSE Paid(u, t, seat[u].hand[i])]
          /\ cooldown' = IF plain THEN cooldown ELSE [cooldown EXCEPT ![u][seat[u].hand[i]] = t + CardCooldown]
          /\ plays' = [plays EXCEPT ![u] = @ + IF plain THEN 0 ELSE 1]
          /\ IF t > matchTick THEN ResolveDraftTimeout(t, seats)
             ELSE seat' = seats /\ UNCHANGED <<draft, won>>
    /\ UNCHANGED <<rounds, defeats, late>>

-----------------------------------------------------------------------------
PlayInit ==
    /\ matchTick = 0
    /\ lastTick = [u \in Fighting |-> -1]
    /\ seat = [u \in Fighting |-> InitialHand(u)]
    /\ energy = [u \in Fighting |-> StartEnergy]
    /\ cooldown = [u \in Fighting |-> [c \in Pool |-> 0]]
    /\ draft = NoDraft
    /\ rounds = 0
    /\ plays = [u \in Fighting |-> 0]
    /\ won = [u \in Fighting |-> 0]
    /\ defeats = [u \in Fighting |-> -1]
    /\ late = {}

PlayNext ==
    \/ \E u \in Fighting, b \in DraftBosses, t \in 0..MaxTick : ReportBossDefeat(u, b, t)
    \/ \E u \in Fighting, c \in Pool : SelectRoundCard(u, c)
    \/ \E u \in Fighting, t \in 0..MaxTick, i \in 0..HandLimit : SubmitInput(u, t, i)

PlaySpec == PlayInit /\ [][PlayNext]_playVars

-----------------------------------------------------------------------------
(* Types. *)
PlayTypeOK ==
    /\ matchTick \in 0..MaxTick
    /\ lastTick \in [Fighting -> -1..MaxTick]
    /\ \A u \in Fighting :
          /\ Len(seat[u].hand) \in 0..HandLimit
          /\ \A q \in {seat[u].hand, seat[u].pending} : \A i \in DOMAIN q : q[i] \in Pool
    /\ energy \in [Fighting -> 0..MaxEnergy]
    /\ \A u \in Fighting : cooldown[u] \in [Pool -> 0..(MaxTick + CardCooldown)]
    /\ draft.picks \in [Fighting -> Pool \cup {NoCard}]
    /\ {draft.first, draft.second} \subseteq Fighting \cup {NoFighter}
    /\ rounds \in 0..MaxRounds

(* However the two reports of a boss arrive (out of order, repeated, in the *)
(* same tick, before or after the deadline moved), the round's first picker *)
(* is the player who beat the boss first, ties going by player id, and      *)
(* nobody chooses before him, unless his report came only after the other   *)
(* had chosen; the players of a round end up with different cards of its    *)
(* offer (recordDraftDefeatLocked, applyMixedPoolDraftPickLocked,           *)
(* autoDraftPick).                                                          *)
DraftIsFair ==
    draft.second # NoFighter =>
       /\ \/ defeats[draft.first] < defeats[draft.second]
          \/ defeats[draft.first] = defeats[draft.second] /\ Rank(draft.first) < Rank(draft.second)
       /\ draft.first \notin late /\ draft.picks[draft.second] # NoCard => draft.picks[draft.first] # NoCard
       /\ Taken(draft.picks) \subseteq draft.offer
       /\ \A u, v \in Fighting : u # v /\ draft.picks[u] # NoCard => draft.picks[u] # draft.picks[v]

(* No card is lost or doubled: what a player holds, has deferred and has    *)
(* played is what was drawn from the deck and won in drafts, one card a     *)
(* round, through full hands, deferred grants and rounds closed by a pick   *)
(* or by the deadline (grantDraftLocked, promotePendingGrants,              *)
(* drawServerCard).                                                         *)
CardsConserved ==
    \A u \in Fighting :
       /\ Len(seat[u].hand) + Len(seat[u].pending) + plays[u] = seat[u].cursor + won[u]
       /\ won[u] <= rounds

(* What a match may rely on while rounds open, are picked and time out: the *)
(* draft is fair (recordDraftDefeatLocked) and the cards it hands out are   *)
(* conserved (grantDraftLocked).                                            *)
DraftHolds == DraftIsFair /\ CardsConserved
=============================================================================
