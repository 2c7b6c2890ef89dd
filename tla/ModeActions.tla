----------------------------- MODULE ModeActions -----------------------------
(***************************************************************************)
(* The mode actions of one match (SubmitModeAction in service.go): round   *)
(* selections of a battle royale outside a draft, card transfers of a boss *)
(* fight, gifts, and what the match keeps of them: the retained actions    *)
(* and the event log a client reads with a cursor (MatchEvents).           *)
(*                                                                         *)
(* Which candidate card a round selection names makes no difference here.  *)
(* The draft picks, which SubmitModeAction also serves, are BattlePlay's.  *)
(***************************************************************************)
EXTENDS Integers, FiniteSets, Sequences

CONSTANTS
    Seats,          \* match.PlayerIDs
    SeatDeck,       \* the cards of each seat's DeckSnapshot
    GiftCost,       \* giftCatalog: gift -> charges
    GiftBudget,     \* giftChargeBudget
    RoundTicks,     \* TickRate * 30
    MatchTicks,     \* matchDurationTicks
    RoundCap,       \* maxModeActionRounds
    SelectionCap,   \* maxRetainedRoundSelections
    ActionCap,      \* maxRetainedModeActions
    EventCap,       \* maxEventLogEntries
    PageSize,       \* the limit of MatchEvents
    MaxActions,     \* bound on submitted actions
    MaxEvents       \* bound on match.NextEventSeq

ASSUME ModeActionsAssumptions ==
    /\ IsFiniteSet(Seats)
    /\ Cardinality(Seats) <= SelectionCap
    /\ GiftCost \in [DOMAIN GiftCost -> Nat \ {0}]
    /\ DOMAIN SeatDeck = Seats
    /\ {GiftBudget, RoundTicks, MatchTicks, RoundCap, SelectionCap, ActionCap, EventCap, PageSize}
          \subseteq Nat \ {0}
    /\ MaxActions \in Nat /\ MaxEvents \in Nat

VARIABLES
    mode,       \* match.ModeID
    phase,      \* match.Status
    tick,       \* match.Tick
    ready,      \* the seats with player.Ready
    online,     \* the seats with player.Connected
    selections, \* ModeState["round_selections"], by action id: [round, user, id]
    transfers,  \* ModeState["transfer_requests"]: [card, from, to, id]
    charges,    \* match.GiftChargesUsed
    seq,        \* match.NextModeActionSeq
    retained,   \* the sequence numbers in match.ModeActions
    eventSeq,   \* match.NextEventSeq
    log,        \* match.EventLog, as sequence numbers
    cursor,     \* a client's cursor
    page,       \* the last answer of MatchEvents
    live        \* history: selections accepted for the round being played

modeVars == <<mode, phase, tick, ready, online, selections, transfers, charges, seq, retained,
              eventSeq, log, cursor, page, live>>

Newest(s, n) == IF Len(s) > n THEN SubSeq(s, Len(s) - n + 1, Len(s)) ELSE s

(* currentModeRoundIndex                                                    *)
CurrentRound == tick \div RoundTicks

(* modeActionMaxRoundIndex                                                  *)
MaxRound ==
    LET last == (MatchTicks - 1) \div RoundTicks
    IN IF last > RoundCap - 1 THEN RoundCap - 1 ELSE last

(* appendMatchEventLocked, as often as the request calls it.                *)
AppendMatchEvents(n) ==
    /\ eventSeq + n <= MaxEvents
    /\ eventSeq' = eventSeq + n
    /\ log' = Newest(log \o [i \in 1..n |-> eventSeq + i], EventCap)

(* recordModeActionLocked: the ids sort by their numbers.                   *)
RecordModeAction ==
    LET kept == retained \cup {seq'}
    IN retained' = {s \in kept : Cardinality({t \in kept : t > s}) < ActionCap}

(* SubmitModeAction: the checks of every action, then applyModeActionLocked *)
(* with its event and its record, whether the action is accepted or not.    *)
SubmitModeAction(u) ==
    /\ phase # "ended"
    /\ u \in online
    /\ seq < MaxActions
    /\ seq' = seq + 1
    /\ AppendMatchEvents(1)
    /\ RecordModeAction
    /\ UNCHANGED <<mode, phase, tick, ready, online, cursor, page>>

(* An action its branch refuses leaves only the event and the record.       *)
RejectModeAction(u) ==
    /\ SubmitModeAction(u)
    /\ UNCHANGED <<selections, transfers, charges, live>>

(* evictEarliestRoundSelectionsLocked: what may be left of sel.  Entries    *)
(* of the earliest round other than the current one go first; map order     *)
(* decides between them.                                                    *)
(* Mutant: the current round is one among the others.                       *)
SurvivorsAny(sel) ==
    LET excess == Cardinality(sel) - SelectionCap
    IN IF excess <= 0 THEN {sel}
       ELSE {sel \ gone : gone \in {g \in SUBSET sel :
               /\ Cardinality(g) = excess
               /\ \A x \in g, y \in sel \ g : x.round <= y.round}}
Survivors(sel) ==
    LET old == {x \in sel : x.round # CurrentRound}
        excess == Cardinality(sel) - SelectionCap
        most == IF excess <= Cardinality(old) THEN excess ELSE Cardinality(old)
    IN IF excess <= 0 THEN {sel}
       ELSE {sel \ gone : gone \in {g \in SUBSET old :
               /\ Cardinality(g) = most
               /\ \A x \in g, y \in old \ g : x.round <= y.round}}

(* applyBattleRoyaleSelectionLocked outside a draft.  A request without a   *)
(* round means the current one, which no bound applies to.                  *)
SelectRound(u, r) ==
    /\ mode = "battle_royale"
    /\ r \in 0..MaxRound \/ r = CurrentRound
    /\ ~\E x \in selections : x.round = r /\ x.user = u
    /\ SubmitModeAction(u)
    /\ LET new == [round |-> r, user |-> u, id |-> seq']
       IN /\ selections' \in Survivors(selections \cup {new})
          /\ live' = IF r = CurrentRound THEN live \cup {new} ELSE live
    /\ UNCHANGED <<transfers, charges>>

(* match.TransferredCards                                                   *)
Transferred == {t.card : t \in transfers}

(* applyBossTransferLocked                                                  *)
TransferCard(u, to, c) ==
    /\ mode = "boss"
    /\ to # u
    /\ c \in SeatDeck[u]
    /\ c \notin Transferred
    /\ SubmitModeAction(u)
    /\ transfers' = transfers \cup {[card |-> c, from |-> u, to |-> to, id |-> seq']}
    /\ UNCHANGED <<selections, charges, live>>

(* otherMatchPlayerLocked: there is exactly one receiver.                   *)
HasReceiver(u) == Cardinality(Seats \ {u}) = 1

(* The gifts are paid from a pool of their own.                             *)
Affordable(u, g) == charges[u] + GiftCost[g] <= GiftBudget

(* applyGiftLocked                                                          *)
SendGift(u, g) ==
    /\ phase = "running"
    /\ HasReceiver(u)
    /\ Affordable(u, g)
    /\ SubmitModeAction(u)
    /\ charges' = [charges EXCEPT ![u] = @ + GiftCost[g]]
    /\ UNCHANGED <<selections, transfers, live>>

(* MatchEvents: the events after the cursor, at most a page of them.        *)
Page(after) ==
    LET events[i \in 0..Len(log)] ==
          IF i = 0 THEN <<>>
          ELSE IF log[i] <= after \/ Len(events[i - 1]) >= PageSize THEN events[i - 1]
          ELSE Append(events[i - 1], log[i])
    IN events[Len(log)]

MatchEvents ==
    /\ LET events == Page(cursor)
       IN /\ page' = [after |-> cursor, events |-> events, oldest |-> IF log = <<>> THEN 0 ELSE log[1]]
          /\ cursor' = IF events = <<>> THEN cursor ELSE events[Len(events)]
    /\ UNCHANGED <<mode, phase, tick, ready, online, selections, transfers, charges, seq, retained, eventSeq, log, live>>

(* What other requests do meanwhile, with the events they append.  Only the *)
(* seat, the phase and the tick of a match matter here, MatchLifecycle has  *)
(* the rest.                                                                *)
Meanwhile == UNCHANGED <<mode, selections, transfers, charges, seq, retained, cursor, page, live>>

(* The player_ready of a seat that was not ready, and match_started when it *)
(* was the last one.                                                        *)
ReadyMatch(u) ==
    /\ phase # "ended" /\ u \notin ready
    /\ ready' = ready \cup {u}
    /\ IF ready' = Seats /\ phase # "running"
         THEN phase' = "running" /\ AppendMatchEvents(2)
         ELSE phase' = phase /\ AppendMatchEvents(1)
    /\ UNCHANGED <<tick, online>> /\ Meanwhile

DisconnectMatch(u) ==
    /\ phase # "ended"
    /\ online' = online \ {u}
    /\ AppendMatchEvents(1)
    /\ UNCHANGED <<phase, tick, ready>> /\ Meanwhile

(* Within the reconnect window. *)
ReconnectMatch(u) ==
    /\ phase # "ended"
    /\ online' = online \cup {u}
    /\ AppendMatchEvents(1)
    /\ UNCHANGED <<phase, tick, ready>> /\ Meanwhile

(* An input that moves the tick, with or without an event of its own (a     *)
(* card, a bomb, a hit).                                                    *)
TickAdvances ==
    /\ phase = "running" /\ tick < MatchTicks
    /\ tick' = tick + 1
    /\ \E n \in 0..1 : AppendMatchEvents(n)
    /\ UNCHANGED <<phase, ready, online>> /\ Meanwhile

(* The settlement's match_ended, battle_result_verified before it and the   *)
(* world boss's defeat; no event when the durable write failed.  A match    *)
(* that was abandoned is settled once more by the TTL.                      *)
MatchEnds ==
    /\ phase' = "ended"
    /\ \E n \in 0..3 : AppendMatchEvents(n)
    /\ UNCHANGED <<tick, ready, online>> /\ Meanwhile

ModeInit ==
    /\ mode \in {"battle_royale", "boss"}
    /\ phase = "loading"
    /\ tick = 0
    /\ online = Seats /\ ready = {}
    /\ selections = {} /\ transfers = {} /\ live = {} /\ retained = {}
    /\ charges = [u \in Seats |-> 0]
    /\ seq = 0 /\ eventSeq = 0 /\ cursor = 0
    /\ log = <<>>
    /\ page = [after |-> 0, events |-> <<>>, oldest |-> 0]

ModeNext ==
    \/ \E u \in Seats : RejectModeAction(u) \/ ReadyMatch(u) \/ DisconnectMatch(u) \/ ReconnectMatch(u)
    \/ \E u \in Seats, r \in 0..(MatchTicks \div RoundTicks) : SelectRound(u, r)
    \/ \E u, to \in Seats : \E c \in SeatDeck[u] : TransferCard(u, to, c)
    \/ \E u \in Seats, g \in DOMAIN GiftCost : SendGift(u, g)
    \/ MatchEvents
    \/ TickAdvances
    \/ MatchEnds

ModeSpec == ModeInit /\ [][ModeNext]_modeVars

-----------------------------------------------------------------------------
(* Properties.                                                              *)

ModeTypeOK ==
    /\ mode \in {"battle_royale", "boss"}
    /\ phase \in {"loading", "running", "ended"}
    /\ tick \in 0..MatchTicks
    /\ online \subseteq Seats /\ ready \subseteq Seats
    /\ selections \subseteq [round : Nat, user : Seats, id : 1..seq]
    /\ live \subseteq [round : Nat, user : Seats, id : 1..seq]
    /\ transfers \subseteq [card : UNION {SeatDeck[u] : u \in Seats}, from : Seats, to : Seats, id : 1..seq]
    /\ charges \in [Seats -> 0..GiftBudget]
    /\ seq \in 0..MaxActions
    /\ retained \subseteq 1..seq
    /\ eventSeq \in 0..MaxEvents
    /\ log \in Seq(1..eventSeq)
    /\ cursor \in 0..eventSeq
    /\ DOMAIN page = {"after", "events", "oldest"}

(* What a flood of actions does not take away: a selection accepted for the *)
(* round being played stays for as long as that round lasts, the retained   *)
(* actions are the newest ones, and a card changes hands once whichever     *)
(* seats hold a copy (evictEarliestRoundSelectionsLocked,                   *)
(* recordModeActionLocked, match.TransferredCards).                         *)
ModeStateKept ==
    /\ \A x \in live : x.round = CurrentRound => x \in selections
    /\ Cardinality(selections) <= SelectionCap
    /\ retained = {s \in 1..seq : s > seq - ActionCap}
    /\ \A s, t \in transfers : s.card = t.card => s = t

(* A client that follows the cursors misses no event without being told:    *)
(* an answer starts right after the client's cursor or oldest_cursor shows  *)
(* the gap, and within an answer the numbers follow each other (MatchEvents,*)
(* appendMatchEventLocked).                                                 *)
NoSilentGap ==
    page.events # <<>> =>
       /\ page.events[1] = page.after + 1 \/ (page.oldest > page.after + 1 /\ page.events[1] = page.oldest)
       /\ \A i \in 1..(Len(page.events) - 1) : page.events[i + 1] = page.events[i] + 1

(* Both: what a match records of its mode actions, and what a reader sees.  *)
ModeRecordHolds == ModeStateKept /\ NoSilentGap
=============================================================================
