---------------------------- MODULE BattleTickets ----------------------------
(***************************************************************************)
(* The battle tickets of one match: how lobby processes that share the     *)
(* ticket store issue, hand out again, consume, revoke and expire them     *)
(* (runtime/core/service.go, lobby_bridge.go, service_stores.go), and the  *)
(* store itself: SQLBattleTicketStore of ticket_store.go over the table of *)
(* migrations/006_battle_tickets.up.sql.                                   *)
(*                                                                         *)
(* A handler runs under the mutex of its own lobby, but every store call   *)
(* is a statement of its own, so the handlers of two lobbies interleave    *)
(* between statements and a lobby may crash between two of them.  A failed *)
(* statement may or may not have been applied.                             *)
(*                                                                         *)
(* The match is in the memory of one lobby, host; requests that change the *)
(* allocation reach that lobby while it has the match.  Ticket ids are     *)
(* minted in increasing order, which is also the order of issued_at.       *)
(***************************************************************************)
EXTENDS Integers, FiniteSets

CONSTANTS
    Lobbies, Users, NoUser, NoLobby,
    Endpoints, NoEndpoint,
    MaxTickets,    \* bound on the tickets minted
    TicketTTL,     \* BattleTicketTTLSeconds
    MaxFaults,     \* bound on failing statements
    MaxRestarts    \* bound on lobby crashes

ASSUME TicketAssumptions ==
    /\ NoUser \notin Users
    /\ NoLobby \notin Lobbies
    /\ NoEndpoint \notin Endpoints
    /\ MaxTickets \in Nat
    /\ TicketTTL \in Nat \ {0}
    /\ MaxFaults \in Nat
    /\ MaxRestarts \in Nat

Tickets == 1 .. MaxTickets

VARIABLES
    tstatus,      \* battle_tickets.status, "unused" when there is no row
    tuser,        \* battle_tickets.user_id
    tendpoint,    \* the endpoint inside the signed envelope
    tage,         \* age of issued_at; expires_at is TicketTTL later
    minted,       \* how many ids nextIDLocked has handed out
    host,         \* the lobby with the match in memory, or NoLobby
    endpoint,     \* endpoint of s.battleAllocations, per lobby
    rowEndpoint,  \* the endpoint on the durable match row
    pc,           \* where the handler under each lobby's mutex stands
    cur,          \* the ticket that handler consumes
    who,          \* the user that handler issues for
    todo,         \* the tickets that handler still has to revoke
    fresh,        \* history: consume answers with duplicate = false
    reply,        \* the last answer a property speaks of
    faults, restarts

rows == <<tstatus, tuser, tendpoint, tage, minted>>
lobby == <<host, endpoint, pc, cur, who, todo>>
vars == <<rows, lobby, rowEndpoint, fresh, reply, faults, restarts>>

Silent == "none"
NoTicket == 0

(* A write succeeds, is lost, or is applied while the caller sees an error. *)
WriteOutcomes == IF faults < MaxFaults THEN {"ok", "lost", "unknown"} ELSE {"ok"}
Applied(w) == w # "lost"
CountFault(w) == faults' = IF w = "ok" THEN faults ELSE faults + 1

Issued(t) == tstatus[t] = "issued"

(* liveBattleTicketForPlayerLocked: usable for handing out while            *)
(* ExpiresAt.After(now); ConsumeBattleTicket refuses once                   *)
(* now.After(ExpiresAt); Expire takes expires_at < now.                     *)
NotExpired(t) == tage[t] < TicketTTL
(* Mutant: the expiry instant is off by one.                                *)
PastExpiryLate(t) == tage[t] > TicketTTL + 1
PastExpiry(t) == tage[t] > TicketTTL
Live(t) == Issued(t) /\ NotExpired(t)
LiveOf(u) == {t \in Tickets : tuser[t] = u /\ Live(t)}

Idle(l) == pc[l] = "idle"

-----------------------------------------------------------------------------
(* signedBattleTicketLocked, behind BattleTicket, ReadyMatch,               *)
(* ReconnectMatch and MatchStart: list the rows; hand out the live one, or  *)
(* go on to issue.  A lobby without the match only hands out again.         *)
BattleTicket(l, u) ==
    /\ Idle(l)
    /\ \/ /\ LiveOf(u) # {}
          /\ reply' = "ticket"
          /\ UNCHANGED <<pc, who>>
       \/ /\ LiveOf(u) = {}
          /\ l = host
          /\ minted < MaxTickets
          /\ pc' = [pc EXCEPT ![l] = "issue"]
          /\ who' = [who EXCEPT ![l] = u]
          /\ reply' = Silent
    /\ UNCHANGED <<rows, host, endpoint, cur, todo, rowEndpoint, fresh, faults, restarts>>

(* The unique index of the table on (match_id, user_id) over issued rows.   *)
(* Mutant: the table has no such index.                                     *)
SeatTakenNever(u) == FALSE
SeatTaken(u) == \E t \in Tickets : Issued(t) /\ tuser[t] = u

(* Issue of the store: the row carries the endpoint of the allocation; an   *)
(* issued row of the same seat, expired or not, makes the INSERT fail.      *)
IssueTicket(l) ==
    /\ pc[l] = "issue"
    /\ minted' = minted + 1
    /\ \/ /\ ~SeatTaken(who[l])
          /\ \E w \in WriteOutcomes :
                /\ IF Applied(w)
                   THEN /\ tstatus' = [tstatus EXCEPT ![minted'] = "issued"]
                        /\ tuser' = [tuser EXCEPT ![minted'] = who[l]]
                        /\ tendpoint' = [tendpoint EXCEPT ![minted'] = endpoint[l]]
                        /\ tage' = [tage EXCEPT ![minted'] = 0]
                   ELSE UNCHANGED <<tstatus, tuser, tendpoint, tage>>
                /\ reply' = IF w = "ok" THEN "ticket" ELSE Silent
                /\ CountFault(w)
       \/ /\ SeatTaken(who[l])
          /\ reply' = "refused"
          /\ UNCHANGED <<tstatus, tuser, tendpoint, tage, faults>>
    /\ pc' = [pc EXCEPT ![l] = "idle"]
    /\ who' = [who EXCEPT ![l] = NoUser]
    /\ UNCHANGED <<host, endpoint, cur, todo, rowEndpoint, fresh, restarts>>

(* ConsumeBattleTicket, up to the load of the row.  Requests that do not    *)
(* match the signed ticket are refused before this and change nothing.      *)
ConsumeBattleTicket(l, t) ==
    /\ Idle(l)
    /\ tstatus[t] # "unused"
    /\ \/ /\ tstatus[t] = "consumed"
          /\ reply' = "duplicate"
          /\ UNCHANGED <<pc, cur>>
       \/ /\ tstatus[t] # "consumed"
          /\ ~PastExpiry(t)
          /\ pc' = [pc EXCEPT ![l] = "consume"]
          /\ cur' = [cur EXCEPT ![l] = t]
          /\ reply' = Silent
    /\ UNCHANGED <<rows, host, endpoint, who, todo, rowEndpoint, fresh, faults, restarts>>

(* Consume of the store: the UPDATE is guarded on status = 'issued'.        *)
(* Mutant: the guard of the UPDATE is missing.                              *)
ConsumableUnguarded(t) == TRUE
Consumable(t) == Issued(t)

(* ConsumeBattleTicket, from the guarded UPDATE to the answer.              *)
CommitConsume(l) ==
    /\ pc[l] = "consume"
    /\ LET t == cur[l]
       IN \/ /\ Consumable(t)
             /\ \E w \in WriteOutcomes :
                   /\ tstatus' = IF Applied(w) THEN [tstatus EXCEPT ![t] = "consumed"] ELSE tstatus
                   /\ fresh' = IF w = "ok" THEN [fresh EXCEPT ![t] = @ + 1] ELSE fresh
                   /\ reply' = IF w = "ok" THEN "fresh" ELSE Silent
                   /\ CountFault(w)
          \/ /\ ~Consumable(t)
             /\ reply' = IF tstatus[t] = "consumed" THEN "duplicate" ELSE Silent
             /\ UNCHANGED <<tstatus, fresh, faults>>
    /\ pc' = [pc EXCEPT ![l] = "idle"]
    /\ cur' = [cur EXCEPT ![l] = NoTicket]
    /\ UNCHANGED <<tuser, tendpoint, tage, minted, host, endpoint, who, todo, rowEndpoint, restarts>>

-----------------------------------------------------------------------------
(* invalidateBattleTicketsLocked: the rows listed, minus the consumed ones. *)
(* Mutant: only the tickets that would be handed out again are revoked.     *)
RevocableLive == {t \in Tickets : Live(t)}
Revocable == {t \in Tickets : tstatus[t] \notin {"unused", "consumed"}}

ServesMatch(l) == l = host \/ host = NoLobby
AllocationOf(l) == IF endpoint[l] # NoEndpoint THEN endpoint[l] ELSE rowEndpoint

(* ReportBattleAgentEndpoint: the endpoint moves in memory first, then the  *)
(* tickets that carry the old one are revoked one by one.  A repeat of the  *)
(* endpoint already known only writes the row.                              *)
ReportBattleAgentEndpoint(l, e) ==
    /\ Idle(l)
    /\ ServesMatch(l)
    /\ endpoint' = [endpoint EXCEPT ![l] = e]
    /\ todo' = [todo EXCEPT ![l] = IF AllocationOf(l) = e THEN {} ELSE Revocable]
    /\ pc' = [pc EXCEPT ![l] = "revoke"]
    /\ reply' = Silent
    /\ UNCHANGED <<rows, host, cur, who, rowEndpoint, fresh, faults, restarts>>

(* BindBattleServerAllocation: the same, without the look at the old value, *)
(* and only where the match is in memory.                                   *)
BindBattleServerAllocation(l, e) ==
    /\ Idle(l)
    /\ l = host
    /\ endpoint' = [endpoint EXCEPT ![l] = e]
    /\ todo' = [todo EXCEPT ![l] = Revocable]
    /\ pc' = [pc EXCEPT ![l] = "revoke"]
    /\ reply' = Silent
    /\ UNCHANGED <<rows, host, cur, who, rowEndpoint, fresh, faults, restarts>>

(* Revoke of the store: an UPDATE guarded on status = 'issued'.             *)
(* Mutant: the guard is missing.                                            *)
RevokedStatusUnguarded(t) == "revoked"
RevokedStatus(t) == IF Issued(t) THEN "revoked" ELSE tstatus[t]

(* One turn of the loop of invalidateBattleTicketsLocked; an error leaves   *)
(* the handler, and the rest of the tickets, behind.                        *)
RevokeNext(l) ==
    /\ pc[l] = "revoke"
    /\ \E t \in todo[l], w \in WriteOutcomes :
          /\ \A u \in todo[l] : t <= u
          /\ tstatus' = IF Applied(w) THEN [tstatus EXCEPT ![t] = RevokedStatus(t)] ELSE tstatus
          /\ todo' = [todo EXCEPT ![l] = IF w = "ok" THEN @ \ {t} ELSE {}]
          /\ pc' = IF w = "ok" THEN pc ELSE [pc EXCEPT ![l] = "idle"]
          /\ CountFault(w)
    /\ reply' = Silent
    /\ UNCHANGED <<tuser, tendpoint, tage, minted, host, endpoint, cur, who,
                   rowEndpoint, fresh, restarts>>

(* persistMatchLocked / setMatchAllocationRecordLocked, then the answer.    *)
FinishReport(l) ==
    /\ pc[l] = "revoke"
    /\ todo[l] = {}
    /\ \E w \in WriteOutcomes :
          /\ rowEndpoint' = IF Applied(w) THEN endpoint[l] ELSE rowEndpoint
          /\ reply' = IF w = "ok" THEN "reported" ELSE Silent
          /\ CountFault(w)
    /\ pc' = [pc EXCEPT ![l] = "idle"]
    /\ UNCHANGED <<rows, host, endpoint, cur, who, todo, fresh, restarts>>

(* SweepExpiredBattleTickets: one UPDATE over the issued rows.              *)
SweepExpiredBattleTickets(l) ==
    /\ Idle(l)
    /\ tstatus' = [t \in Tickets |->
          IF Issued(t) /\ PastExpiry(t) THEN "expired" ELSE tstatus[t]]
    /\ tstatus' # tstatus
    /\ reply' = Silent
    /\ UNCHANGED <<tuser, tendpoint, tage, minted, lobby, rowEndpoint, fresh, faults, restarts>>

Tick ==
    /\ tage' = [t \in Tickets |->
          IF tstatus[t] = "unused" \/ PastExpiry(t) THEN tage[t] ELSE tage[t] + 1]
    /\ reply' = Silent
    /\ UNCHANGED <<tstatus, tuser, tendpoint, minted, lobby, rowEndpoint, fresh, faults, restarts>>

(* A crash may come between any two statements of a handler.                *)
Restart(l) ==
    /\ restarts < MaxRestarts
    /\ restarts' = restarts + 1
    /\ host' = IF host = l THEN NoLobby ELSE host
    /\ endpoint' = [endpoint EXCEPT ![l] = NoEndpoint]
    /\ pc' = [pc EXCEPT ![l] = "idle"]
    /\ cur' = [cur EXCEPT ![l] = NoTicket]
    /\ who' = [who EXCEPT ![l] = NoUser]
    /\ todo' = [todo EXCEPT ![l] = {}]
    /\ reply' = Silent
    /\ UNCHANGED <<rows, rowEndpoint, fresh, faults>>

-----------------------------------------------------------------------------
(* A lobby has just created the match, allocated it and written its row.    *)
Init ==
    /\ tstatus = [t \in Tickets |-> "unused"]
    /\ tuser = [t \in Tickets |-> NoUser]
    /\ tendpoint = [t \in Tickets |-> NoEndpoint]
    /\ tage = [t \in Tickets |-> 0]
    /\ minted = 0
    /\ \E l \in Lobbies, e \in Endpoints :
          /\ host = l
          /\ endpoint = [k \in Lobbies |-> IF k = l THEN e ELSE NoEndpoint]
          /\ rowEndpoint = e
    /\ pc = [l \in Lobbies |-> "idle"]
    /\ cur = [l \in Lobbies |-> NoTicket]
    /\ who = [l \in Lobbies |-> NoUser]
    /\ todo = [l \in Lobbies |-> {}]
    /\ fresh = [t \in Tickets |-> 0]
    /\ reply = Silent
    /\ faults = 0
    /\ restarts = 0

Next ==
    \/ Tick
    \/ \E l \in Lobbies :
          \/ \E u \in Users : BattleTicket(l, u)
          \/ IssueTicket(l)
          \/ \E t \in Tickets : ConsumeBattleTicket(l, t)
          \/ CommitConsume(l)
          \/ \E e \in Endpoints : ReportBattleAgentEndpoint(l, e)
          \/ \E e \in Endpoints : BindBattleServerAllocation(l, e)
          \/ RevokeNext(l)
          \/ FinishReport(l)
          \/ SweepExpiredBattleTickets(l)
          \/ Restart(l)

Spec == Init /\ [][Next]_vars

-----------------------------------------------------------------------------
(* Properties.                                                              *)

(* The shape of the state; a ticket id is only ever used once minted.       *)
TypeOK ==
    /\ tstatus \in [Tickets -> {"unused", "issued", "consumed", "expired", "revoked"}]
    /\ tuser \in [Tickets -> Users \cup {NoUser}]
    /\ tendpoint \in [Tickets -> Endpoints \cup {NoEndpoint}]
    /\ tage \in [Tickets -> 0 .. TicketTTL + 1]
    /\ minted \in 0 .. MaxTickets
    /\ host \in Lobbies \cup {NoLobby}
    /\ endpoint \in [Lobbies -> Endpoints \cup {NoEndpoint}]
    /\ rowEndpoint \in Endpoints
    /\ pc \in [Lobbies -> {"idle", "issue", "consume", "revoke"}]
    /\ cur \in [Lobbies -> Tickets \cup {NoTicket}]
    /\ who \in [Lobbies -> Users \cup {NoUser}]
    /\ todo \in [Lobbies -> SUBSET Tickets]
    /\ fresh \in [Tickets -> Nat]
    /\ reply \in {Silent, "ticket", "refused", "duplicate", "fresh", "reported"}
    /\ faults \in Nat
    /\ restarts \in Nat

(* Two lobbies cannot both win the same ticket: at most one caller of       *)
(* ConsumeBattleTicket ever gets duplicate = false, with any interleaving   *)
(* of loads and guarded updates, lost answers, crashes and sweeps.          *)
FreshAtMostOnce == \A t \in Tickets : fresh[t] <= 1

(* A seat never has two tickets a battle server could consume, not even at  *)
(* the instant of expiry, when the old one is no longer handed out but may  *)
(* still be consumed: repeated requests, retries after an error whose write *)
(* went through, and restarts never mint a second usable ticket.            *)
OneConsumableTicketPerSeat ==
    \A t1, t2 \in Tickets :
       /\ Issued(t1) /\ ~PastExpiry(t1)
       /\ Issued(t2) /\ ~PastExpiry(t2)
       /\ tuser[t1] = tuser[t2]
       => t1 = t2

(* While no statement has failed and no lobby has crashed, a ticket that    *)
(* can still be consumed carries the endpoint of the allocation, once the   *)
(* handler that moves it has let go of the mutex.                           *)
NoStaleEndpoint ==
    faults = 0 /\ restarts = 0 /\ Idle(host) =>
       \A t \in Tickets : Issued(t) => tendpoint[t] = endpoint[host]

(* "expired ticket should be replaced with a fresh signed ticket": a player *)
(* of the match who asks for a battle ticket is never turned away because   *)
(* an earlier ticket of the seat has run out.                               *)
ExpiredTicketReplaced == reply # "refused"

(* What the rows look like to the ledger of TicketLedger.                   *)
StageOf(s) == CASE s = "unused" -> "unused"
                [] s = "issued" -> "issued"
                [] s = "consumed" -> "granted"
                [] OTHER -> "retired"

Ledger == INSTANCE TicketLedger WITH
             Tickets <- Tickets,
             stage <- [t \in Tickets |-> StageOf(tstatus[t])],
             fresh <- fresh

(* The tickets of all lobbies together implement the abstract ledger.       *)
ImplementsLedger == Ledger!Spec
==============================================================================
