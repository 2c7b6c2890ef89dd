------------------------ MODULE BattleTickets_proofs ------------------------
(***************************************************************************)
(* Proofs about BattleTickets, for any number of lobbies, players, ticket  *)
(* ids, failing statements and crashes: its type invariant, that a ticket  *)
(* is consumed afresh at most once, that a seat has at most one consumable *)
(* ticket, that no usable ticket names an endpoint that is gone, and that  *)
(* the lobbies together implement TicketLedger.                            *)
(***************************************************************************)
EXTENDS BattleTickets, TLAPS

(* What a handler between two statements may rely on: only the lobby with  *)
(* the match issues, and it had an id left; what it is about to consume is *)
(* a ticket; what it is about to write to the row is an endpoint.          *)
HandlerInv ==
    \A l \in Lobbies :
       /\ pc[l] = "issue" => l = host /\ minted < MaxTickets
       /\ pc[l] = "consume" => cur[l] \in Tickets
       /\ pc[l] = "revoke" => endpoint[l] \in Endpoints

(* An id that nextIDLocked has not handed out has no row.                  *)
UnmintedInv == \A t \in Tickets : t > minted => tstatus[t] = "unused"

(* A fresh answer was given only for a row that is consumed by now.        *)
FreshInv ==
    \A t \in Tickets : /\ fresh[t] \in {0, 1}
                       /\ fresh[t] = 1 => tstatus[t] = "consumed"

(* The unique index.                                                       *)
SeatInv ==
    \A t1, t2 \in Tickets :
       Issued(t1) /\ Issued(t2) /\ tuser[t1] = tuser[t2] => t1 = t2

IInv == TypeOK /\ HandlerInv /\ UnmintedInv /\ FreshInv /\ SeatInv

(* A statement fails in one of three ways and adds at most one fault.      *)
LEMMA WriteFacts ==
    ASSUME TypeOK
    PROVE  /\ WriteOutcomes \subseteq {"ok", "lost", "unknown"}
           /\ \A w \in WriteOutcomes : CountFault(w) => faults' \in Nat
BY DEF WriteOutcomes, CountFault, TypeOK

LEMMA InitInv == Init => IInv
<1> SUFFICES ASSUME Init PROVE IInv
  OBVIOUS
<1> USE TicketAssumptions
<1>1. TypeOK
  BY DEF Init, TypeOK, Tickets, NoTicket, Silent
<1>2. HandlerInv /\ UnmintedInv /\ FreshInv /\ SeatInv
  BY DEF Init, HandlerInv, UnmintedInv, FreshInv, SeatInv, Issued
<1> QED
  BY <1>1, <1>2 DEF IInv

(* Handing out a ticket again, or deciding to issue one.                   *)
LEMMA BattleTicketInv ==
    ASSUME IInv, NEW l \in Lobbies, NEW u \in Users, BattleTicket(l, u)
    PROVE  IInv'
<1> USE TicketAssumptions DEF IInv, BattleTicket, rows, Idle
<1>1. TypeOK'
  BY DEF TypeOK, Silent
<1>2. HandlerInv'
  BY DEF TypeOK, HandlerInv
<1>3. UnmintedInv' /\ FreshInv' /\ SeatInv'
  BY DEF UnmintedInv, FreshInv, SeatInv, Issued
<1> QED
  BY <1>1, <1>2, <1>3

LEMMA IssueTicketInv ==
    ASSUME IInv, NEW l \in Lobbies, IssueTicket(l)
    PROVE  IInv'
<1> USE TicketAssumptions DEF IInv
<1>1. /\ pc[l] = "issue" /\ l = host /\ minted < MaxTickets
      /\ minted \in Nat /\ minted' = minted + 1 /\ minted' \in Tickets
      /\ tstatus[minted'] = "unused"
  BY DEF IssueTicket, HandlerInv, TypeOK, UnmintedInv, Tickets
<1>2. \/ UNCHANGED <<tstatus, tuser, tendpoint, tage>>
      \/ /\ ~SeatTaken(who[l])
         /\ tstatus' = [tstatus EXCEPT ![minted'] = "issued"]
         /\ tuser' = [tuser EXCEPT ![minted'] = who[l]]
         /\ tendpoint' = [tendpoint EXCEPT ![minted'] = endpoint[l]]
         /\ tage' = [tage EXCEPT ![minted'] = 0]
  BY DEF IssueTicket
<1>3. faults' \in Nat
  BY WriteFacts DEF IssueTicket, TypeOK
<1>4. TypeOK'
  <2>1. /\ tstatus' \in [Tickets -> {"unused", "issued", "consumed", "expired", "revoked"}]
        /\ tuser' \in [Tickets -> Users \cup {NoUser}]
        /\ tendpoint' \in [Tickets -> Endpoints \cup {NoEndpoint}]
        /\ tage' \in [Tickets -> 0 .. TicketTTL + 1]
    BY <1>1, <1>2 DEF TypeOK
  <2>2. minted' \in 0 .. MaxTickets
    BY <1>1 DEF Tickets
  <2> QED
    BY <2>1, <2>2, <1>3 DEF TypeOK, IssueTicket, Silent
<1>5. HandlerInv'
  BY <1>1 DEF HandlerInv, IssueTicket, TypeOK
<1>6. UnmintedInv' /\ FreshInv'
  <2>1. fresh' = fresh
    BY DEF IssueTicket
  <2>2. \A t \in Tickets : t # minted' => tstatus'[t] = tstatus[t]
    BY <1>1, <1>2 DEF TypeOK
  <2>3. \A t \in Tickets : t > minted' => t > minted /\ t # minted'
    BY <1>1 DEF Tickets
  <2>4. UnmintedInv'
    BY <2>2, <2>3 DEF UnmintedInv
  <2>5. FreshInv'
    BY <1>1, <2>1, <2>2 DEF FreshInv
  <2> QED
    BY <2>4, <2>5
<1>7. SeatInv'
  BY <1>1, <1>2 DEF SeatInv, SeatTaken, Issued, TypeOK
<1> QED
  BY <1>4, <1>5, <1>6, <1>7

LEMMA ConsumeBattleTicketInv ==
    ASSUME IInv, NEW l \in Lobbies, NEW t \in Tickets, ConsumeBattleTicket(l, t)
    PROVE  IInv'
<1> USE TicketAssumptions DEF IInv, ConsumeBattleTicket, rows, Idle
<1>1. TypeOK'
  BY DEF TypeOK, Silent
<1>2. HandlerInv'
  BY DEF TypeOK, HandlerInv
<1>3. UnmintedInv' /\ FreshInv' /\ SeatInv'
  BY DEF UnmintedInv, FreshInv, SeatInv, Issued
<1> QED
  BY <1>1, <1>2, <1>3

(* The guarded UPDATE.  A row that is still issued has had no fresh answer *)
(* (FreshInv), so this one is the first.                                   *)
LEMMA CommitConsumeInv ==
    ASSUME IInv, NEW l \in Lobbies, CommitConsume(l)
    PROVE  IInv'
<1> USE TicketAssumptions DEF IInv
<1>1. pc[l] = "consume" /\ cur[l] \in Tickets
  BY DEF CommitConsume, HandlerInv
<1>2. \/ UNCHANGED <<tstatus, fresh>>
      \/ /\ tstatus[cur[l]] = "issued"
         /\ tstatus' = [tstatus EXCEPT ![cur[l]] = "consumed"]
         /\ \/ fresh' = [fresh EXCEPT ![cur[l]] = @ + 1]
            \/ fresh' = fresh
  BY <1>1 DEF CommitConsume, Consumable, Issued, Applied, WriteOutcomes
<1>3. faults' \in Nat
  BY WriteFacts DEF CommitConsume, TypeOK
<1>4. fresh[cur[l]] \in {0, 1} /\ (tstatus[cur[l]] = "issued" => fresh[cur[l]] = 0)
  BY <1>1 DEF FreshInv
<1>5. TypeOK'
  <2>1. tstatus' \in [Tickets -> {"unused", "issued", "consumed", "expired", "revoked"}]
    BY <1>1, <1>2 DEF TypeOK
  <2>2. fresh' \in [Tickets -> Nat]
    BY <1>1, <1>2 DEF TypeOK
  <2> QED
    BY <2>1, <2>2, <1>3 DEF TypeOK, CommitConsume, Silent
<1>6. HandlerInv'
  BY DEF HandlerInv, CommitConsume, TypeOK
<1>7. UnmintedInv'
  BY <1>1, <1>2 DEF UnmintedInv, CommitConsume, TypeOK
<1>8. FreshInv'
  BY <1>1, <1>2, <1>4 DEF FreshInv, TypeOK
<1>9. SeatInv'
  BY <1>1, <1>2 DEF SeatInv, Issued, CommitConsume, TypeOK
<1> QED
  BY <1>5, <1>6, <1>7, <1>8, <1>9

(* The two handlers that move the endpoint only touch memory here.         *)
LEMMA MoveEndpointInv ==
    ASSUME IInv, NEW l \in Lobbies, NEW e \in Endpoints,
           ReportBattleAgentEndpoint(l, e) \/ BindBattleServerAllocation(l, e)
    PROVE  IInv'
<1> USE TicketAssumptions DEF IInv, ReportBattleAgentEndpoint, BindBattleServerAllocation, rows, Idle
<1>1. TypeOK'
  BY DEF TypeOK, Silent, Revocable
<1>2. HandlerInv'
  BY DEF TypeOK, HandlerInv
<1>3. UnmintedInv' /\ FreshInv' /\ SeatInv'
  BY DEF UnmintedInv, FreshInv, SeatInv, Issued
<1> QED
  BY <1>1, <1>2, <1>3

LEMMA RevokeNextInv ==
    ASSUME IInv, NEW l \in Lobbies, RevokeNext(l)
    PROVE  IInv'
<1> USE TicketAssumptions DEF IInv
<1>1. PICK t \in todo[l], w \in WriteOutcomes :
         /\ tstatus' = IF Applied(w) THEN [tstatus EXCEPT ![t] = RevokedStatus(t)] ELSE tstatus
         /\ todo' = [todo EXCEPT ![l] = IF w = "ok" THEN @ \ {t} ELSE {}]
         /\ pc' = IF w = "ok" THEN pc ELSE [pc EXCEPT ![l] = "idle"]
         /\ CountFault(w)
  BY DEF RevokeNext
<1>2. t \in Tickets
  BY <1>1 DEF TypeOK
<1>3. \/ tstatus' = tstatus
      \/ tstatus[t] = "issued" /\ tstatus' = [tstatus EXCEPT ![t] = "revoked"]
  BY <1>1, <1>2 DEF RevokedStatus, Issued, TypeOK
<1>4. faults' \in Nat
  BY <1>1, WriteFacts
<1>5. TypeOK'
  <2>1. tstatus' \in [Tickets -> {"unused", "issued", "consumed", "expired", "revoked"}]
    BY <1>2, <1>3 DEF TypeOK
  <2>2. todo' \in [Lobbies -> SUBSET Tickets]
    BY <1>1 DEF TypeOK
  <2>3. pc' \in [Lobbies -> {"idle", "issue", "consume", "revoke"}]
    BY <1>1 DEF TypeOK
  <2> QED
    BY <2>1, <2>2, <2>3, <1>4 DEF TypeOK, RevokeNext, Silent
<1>6. HandlerInv'
  BY <1>1 DEF HandlerInv, RevokeNext, TypeOK
<1>7. UnmintedInv' /\ FreshInv' /\ SeatInv'
  BY <1>2, <1>3 DEF UnmintedInv, FreshInv, SeatInv, Issued, RevokeNext, TypeOK
<1> QED
  BY <1>5, <1>6, <1>7

LEMMA FinishReportInv ==
    ASSUME IInv, NEW l \in Lobbies, FinishReport(l)
    PROVE  IInv'
<1> USE TicketAssumptions DEF IInv
<1>1. rowEndpoint' \in Endpoints
  BY DEF FinishReport, HandlerInv, TypeOK
<1>2. faults' \in Nat
  BY WriteFacts DEF FinishReport, TypeOK
<1>3. TypeOK'
  BY <1>1, <1>2 DEF TypeOK, FinishReport, rows, Silent
<1>4. HandlerInv'
  BY DEF HandlerInv, FinishReport, TypeOK, rows
<1>5. UnmintedInv' /\ FreshInv' /\ SeatInv'
  BY DEF FinishReport, rows, UnmintedInv, FreshInv, SeatInv, Issued
<1> QED
  BY <1>3, <1>4, <1>5

LEMMA SweepInv ==
    ASSUME IInv, NEW l \in Lobbies, SweepExpiredBattleTickets(l)
    PROVE  IInv'
<1> USE TicketAssumptions DEF IInv, SweepExpiredBattleTickets, lobby
<1>1. \A t \in Tickets : \/ tstatus'[t] = tstatus[t]
                         \/ tstatus[t] = "issued" /\ tstatus'[t] = "expired"
  BY DEF Issued
<1>2. TypeOK'
  BY DEF TypeOK, Silent
<1>3. HandlerInv' /\ UnmintedInv' /\ FreshInv' /\ SeatInv'
  BY <1>1 DEF HandlerInv, UnmintedInv, FreshInv, SeatInv, Issued
<1> QED
  BY <1>2, <1>3

LEMMA TickInv ==
    ASSUME IInv, Tick
    PROVE  IInv'
<1> USE TicketAssumptions DEF IInv, Tick, lobby
<1>1. tage' \in [Tickets -> 0 .. TicketTTL + 1]
  BY DEF TypeOK, PastExpiry
<1>2. TypeOK'
  BY <1>1 DEF TypeOK, Silent
<1>3. HandlerInv' /\ UnmintedInv' /\ FreshInv' /\ SeatInv'
  BY DEF HandlerInv, UnmintedInv, FreshInv, SeatInv, Issued
<1> QED
  BY <1>2, <1>3

LEMMA RestartInv ==
    ASSUME IInv, NEW l \in Lobbies, Restart(l)
    PROVE  IInv'
<1> USE TicketAssumptions DEF IInv, Restart, rows
<1>1. TypeOK'
  BY DEF TypeOK, Silent, NoTicket
<1>2. HandlerInv'
  BY DEF TypeOK, HandlerInv
<1>3. UnmintedInv' /\ FreshInv' /\ SeatInv'
  BY DEF UnmintedInv, FreshInv, SeatInv, Issued
<1> QED
  BY <1>1, <1>2, <1>3

LEMMA NextInv == IInv /\ [Next]_vars => IInv'
<1> SUFFICES ASSUME IInv, [Next]_vars PROVE IInv'
  OBVIOUS
<1>1. CASE UNCHANGED vars
  BY <1>1 DEF IInv, TypeOK, HandlerInv, UnmintedInv, FreshInv, SeatInv, Issued,
              vars, rows, lobby
<1>2. CASE Next
  BY <1>2, TickInv, BattleTicketInv, IssueTicketInv, ConsumeBattleTicketInv,
     CommitConsumeInv, MoveEndpointInv, RevokeNextInv, FinishReportInv, SweepInv,
     RestartInv DEF Next
<1> QED
  BY <1>1, <1>2

(* The invariant holds between any two statements of the lobbies.          *)
THEOREM InductiveInvariant == Spec => []IInv
BY InitInv, NextInv, PTL DEF Spec

(* Every reachable state of the ticket handlers is well formed, whatever   *)
(* the numbers of lobbies, tickets, faults and crashes.                    *)
THEOREM TypeCorrect == Spec => []TypeOK
<1>1. IInv => TypeOK
  BY DEF IInv
<1> QED
  BY <1>1, InductiveInvariant, PTL

(* ConsumeBattleTicket answers duplicate = false at most once per ticket.  *)
THEOREM ConsumedOnce == Spec => []FreshAtMostOnce
<1>1. IInv => FreshAtMostOnce
  BY DEF IInv, FreshInv, FreshAtMostOnce
<1> QED
  BY <1>1, InductiveInvariant, PTL

(* A seat has at most one ticket that a battle server could consume.       *)
THEOREM OneTicketPerSeat == Spec => []OneConsumableTicketPerSeat
<1>1. IInv => OneConsumableTicketPerSeat
  BY DEF IInv, SeatInv, OneConsumableTicketPerSeat
<1> QED
  BY <1>1, InductiveInvariant, PTL
-----------------------------------------------------------------------------
(* The step simulation: what each action does to the ledger.               *)

(* A step that leaves rows and fresh answers alone is invisible.           *)
LEMMA LedgerStutter ==
    ASSUME UNCHANGED <<tstatus, fresh>>
    PROVE  UNCHANGED Ledger!vars
BY DEF Ledger!vars

LEMMA LedgerIssue ==
    ASSUME IInv, NEW l \in Lobbies, IssueTicket(l)
    PROVE  [Ledger!Next]_Ledger!vars
<1> USE TicketAssumptions
<1>1. /\ minted' \in Tickets /\ tstatus[minted'] = "unused" /\ fresh' = fresh
      /\ TypeOK
  BY DEF IInv, IssueTicket, HandlerInv, TypeOK, UnmintedInv, Tickets
<1>2. \/ tstatus' = tstatus
      \/ tstatus' = [tstatus EXCEPT ![minted'] = "issued"]
  BY DEF IssueTicket
<1>3. CASE tstatus' = tstatus
  BY <1>1, <1>3, LedgerStutter
<1>4. CASE tstatus' = [tstatus EXCEPT ![minted'] = "issued"]
  <2>1. Ledger!Issue(minted')
    BY <1>1, <1>4 DEF Ledger!Issue, StageOf, TypeOK
  <2> QED
    BY <1>1, <2>1 DEF Ledger!Next
<1> QED
  BY <1>2, <1>3, <1>4

LEMMA LedgerGrant ==
    ASSUME IInv, NEW l \in Lobbies, CommitConsume(l)
    PROVE  [Ledger!Next]_Ledger!vars
<1>1. cur[l] \in Tickets /\ TypeOK
  BY DEF IInv, CommitConsume, HandlerInv
<1>2. \/ UNCHANGED <<tstatus, fresh>>
      \/ /\ tstatus[cur[l]] = "issued"
         /\ tstatus' = [tstatus EXCEPT ![cur[l]] = "consumed"]
         /\ \/ fresh' = [fresh EXCEPT ![cur[l]] = @ + 1]
            \/ fresh' = fresh
  BY <1>1 DEF CommitConsume, Consumable, Issued, Applied, WriteOutcomes
<1>3. tstatus[cur[l]] = "issued" => fresh[cur[l]] = 0
  BY <1>1 DEF IInv, FreshInv
<1>4. CASE UNCHANGED <<tstatus, fresh>>
  BY <1>4, LedgerStutter
<1>5. CASE /\ tstatus[cur[l]] = "issued"
           /\ tstatus' = [tstatus EXCEPT ![cur[l]] = "consumed"]
           /\ \/ fresh' = [fresh EXCEPT ![cur[l]] = @ + 1]
              \/ fresh' = fresh
  <2>1. fresh' = [fresh EXCEPT ![cur[l]] = 1] \/ fresh' = fresh
    BY <1>1, <1>3, <1>5 DEF TypeOK
  <2>2. Ledger!Grant(cur[l])
    BY <1>1, <1>5, <2>1 DEF Ledger!Grant, StageOf, TypeOK
  <2> QED
    BY <1>1, <2>2 DEF Ledger!Next
<1> QED
  BY <1>2, <1>4, <1>5

LEMMA LedgerRevoke ==
    ASSUME IInv, NEW l \in Lobbies, RevokeNext(l)
    PROVE  [Ledger!Next]_Ledger!vars
<1>1. PICK t \in todo[l], w \in WriteOutcomes :
         tstatus' = IF Applied(w) THEN [tstatus EXCEPT ![t] = RevokedStatus(t)] ELSE tstatus
  BY DEF RevokeNext
<1>2. t \in Tickets /\ TypeOK /\ fresh' = fresh
  BY <1>1 DEF IInv, TypeOK, RevokeNext
<1>3. \/ tstatus' = tstatus
      \/ tstatus[t] = "issued" /\ tstatus' = [tstatus EXCEPT ![t] = "revoked"]
  BY <1>1, <1>2 DEF RevokedStatus, Issued, TypeOK
<1>4. CASE tstatus' = tstatus
  BY <1>2, <1>4, LedgerStutter
<1>5. CASE tstatus[t] = "issued" /\ tstatus' = [tstatus EXCEPT ![t] = "revoked"]
  <2>1. Ledger!Retire({t})
    BY <1>2, <1>5 DEF Ledger!Retire, StageOf, TypeOK
  <2> QED
    BY <1>2, <2>1 DEF Ledger!Next
<1> QED
  BY <1>3, <1>4, <1>5

LEMMA LedgerSweep ==
    ASSUME IInv, NEW l \in Lobbies, SweepExpiredBattleTickets(l)
    PROVE  [Ledger!Next]_Ledger!vars
<1> DEFINE ts == {t \in Tickets : Issued(t) /\ PastExpiry(t)}
<1>1. Ledger!Retire(ts)
  BY DEF SweepExpiredBattleTickets, Ledger!Retire, StageOf, Issued, IInv, TypeOK
<1> QED
  BY <1>1 DEF Ledger!Next

LEMMA LedgerStep == IInv /\ [Next]_vars => [Ledger!Next]_Ledger!vars
<1> SUFFICES ASSUME IInv, [Next]_vars PROVE [Ledger!Next]_Ledger!vars
  OBVIOUS
<1>1. CASE UNCHANGED <<tstatus, fresh>>
  BY <1>1, LedgerStutter
<1>2. CASE \E l \in Lobbies : \/ IssueTicket(l)
                              \/ CommitConsume(l)
                              \/ RevokeNext(l)
                              \/ SweepExpiredBattleTickets(l)
  BY <1>2, LedgerIssue, LedgerGrant, LedgerRevoke, LedgerSweep
<1>3. \/ UNCHANGED <<tstatus, fresh>>
      \/ \E l \in Lobbies : \/ IssueTicket(l)
                            \/ CommitConsume(l)
                            \/ RevokeNext(l)
                            \/ SweepExpiredBattleTickets(l)
  BY DEF Next, vars, rows, Tick, BattleTicket, ConsumeBattleTicket, Restart,
         ReportBattleAgentEndpoint, BindBattleServerAllocation, FinishReport
<1> QED
  BY <1>1, <1>2, <1>3

(* The handlers of all lobbies together implement the abstract ledger: a   *)
(* ticket is issued once, then granted or retired once and for good, and   *)
(* at most one consume of it is answered as the fresh one.                 *)
THEOREM LedgerRefinement == Spec => ImplementsLedger
<1>1. Init => Ledger!Init
  BY DEF Init, Ledger!Init, StageOf
<1> QED
  BY <1>1, LedgerStep, InductiveInvariant, PTL DEF Spec, ImplementsLedger, Ledger!Spec
-----------------------------------------------------------------------------
(* Until a statement fails or a lobby crashes, the host keeps the match    *)
(* and its allocation, and an issued ticket that does not carry the        *)
(* endpoint of the allocation is on the list the host is working off.      *)
EndpointInv ==
    faults = 0 /\ restarts = 0 =>
       /\ host \in Lobbies
       /\ endpoint[host] # NoEndpoint
       /\ \A t \in Tickets : Issued(t) =>
             \/ tendpoint[t] = endpoint[host]
             \/ pc[host] = "revoke" /\ t \in todo[host]

LEMMA NoFaultMeansOk ==
    ASSUME TypeOK, NEW w, CountFault(w), faults' = 0
    PROVE  w = "ok" /\ faults = 0
BY DEF CountFault, TypeOK

(* Steps that move no endpoint, issue nothing and leave the host's list.   *)
LEMMA EndpointKept ==
    ASSUME EndpointInv,
           faults' = 0 /\ restarts' = 0 => faults = 0 /\ restarts = 0,
           UNCHANGED <<host, endpoint, tendpoint>>,
           \A t \in Tickets : Issued(t)' => Issued(t),
           host \in Lobbies /\ pc[host] = "revoke" => pc'[host] = "revoke" /\ todo'[host] = todo[host]
    PROVE  EndpointInv'
BY DEF EndpointInv

LEMMA IssueKeepsEndpoint ==
    ASSUME IInv, EndpointInv, NEW l \in Lobbies, IssueTicket(l)
    PROVE  EndpointInv'
<1>1. l = host /\ pc[l] = "issue" /\ minted' \in Tickets
  BY TicketAssumptions DEF IInv, HandlerInv, TypeOK, Tickets, IssueTicket
<1>2. /\ UNCHANGED <<host, endpoint, restarts>>
      /\ \/ UNCHANGED <<tstatus, tendpoint>>
         \/ /\ tstatus' = [tstatus EXCEPT ![minted'] = "issued"]
            /\ tendpoint' = [tendpoint EXCEPT ![minted'] = endpoint[l]]
      /\ faults' = faults \/ \E w : CountFault(w)
  BY DEF IssueTicket
<1>3. faults' = 0 => faults = 0
  BY <1>2, NoFaultMeansOk DEF IInv
<1>4. tstatus \in [Tickets -> {"unused", "issued", "consumed", "expired", "revoked"}]
      /\ tendpoint \in [Tickets -> Endpoints \cup {NoEndpoint}]
  BY DEF IInv, TypeOK
<1> QED
  BY <1>1, <1>2, <1>3, <1>4 DEF EndpointInv, Issued

(* The host moves its endpoint only together with the list of everything   *)
(* that is issued; nobody else serves the match.                           *)
LEMMA MoveKeepsEndpoint ==
    ASSUME IInv, EndpointInv, NEW l \in Lobbies, NEW e \in Endpoints,
           ReportBattleAgentEndpoint(l, e) \/ BindBattleServerAllocation(l, e)
    PROVE  EndpointInv'
<1> USE TicketAssumptions
<1> SUFFICES ASSUME faults = 0, restarts = 0
             PROVE  /\ host' \in Lobbies
                    /\ endpoint'[host'] # NoEndpoint
                    /\ \A t \in Tickets : Issued(t)' =>
                          \/ tendpoint'[t] = endpoint'[host']
                          \/ pc'[host'] = "revoke" /\ t \in todo'[host']
  BY DEF EndpointInv, ReportBattleAgentEndpoint, BindBattleServerAllocation
<1>1. l = host /\ pc[l] = "idle" /\ endpoint[l] # NoEndpoint
  BY DEF EndpointInv, ReportBattleAgentEndpoint, BindBattleServerAllocation, ServesMatch, Idle
<1>2. \A t \in Tickets : Issued(t) => tendpoint[t] = endpoint[l] /\ t \in Revocable
  BY <1>1 DEF EndpointInv, Revocable, Issued
<1>3. /\ UNCHANGED <<host, tstatus, tendpoint>>
      /\ endpoint' = [endpoint EXCEPT ![l] = e]
      /\ pc' = [pc EXCEPT ![l] = "revoke"]
      /\ \/ endpoint[l] = e
         \/ todo' = [todo EXCEPT ![l] = Revocable]
  BY <1>1 DEF ReportBattleAgentEndpoint, BindBattleServerAllocation, AllocationOf, rows
<1>4. endpoint'[l] = e /\ pc'[l] = "revoke" /\ (endpoint[l] = e \/ todo'[l] = Revocable)
  BY <1>3 DEF IInv, TypeOK
<1> QED
  BY <1>1, <1>2, <1>3, <1>4 DEF Issued

(* A ticket leaves the list only when it is no longer issued.              *)
LEMMA RevokeKeepsEndpoint ==
    ASSUME IInv, EndpointInv, NEW l \in Lobbies, RevokeNext(l)
    PROVE  EndpointInv'
<1>1. PICK t \in todo[l], w \in WriteOutcomes :
         /\ tstatus' = IF Applied(w) THEN [tstatus EXCEPT ![t] = RevokedStatus(t)] ELSE tstatus
         /\ todo' = [todo EXCEPT ![l] = IF w = "ok" THEN @ \ {t} ELSE {}]
         /\ pc' = IF w = "ok" THEN pc ELSE [pc EXCEPT ![l] = "idle"]
         /\ CountFault(w)
         /\ UNCHANGED <<host, endpoint, tendpoint, restarts>>
  BY DEF RevokeNext
<1>2. t \in Tickets
  BY <1>1 DEF IInv, TypeOK
<1> SUFFICES ASSUME faults' = 0, restarts' = 0
             PROVE  /\ host' \in Lobbies
                    /\ endpoint'[host'] # NoEndpoint
                    /\ \A u \in Tickets : Issued(u)' =>
                          \/ tendpoint'[u] = endpoint'[host']
                          \/ pc'[host'] = "revoke" /\ u \in todo'[host']
  BY DEF EndpointInv
<1>3. w = "ok" /\ faults = 0 /\ restarts = 0
  BY <1>1, NoFaultMeansOk DEF IInv
<1>4. /\ \A u \in Tickets : u # t => tstatus'[u] = tstatus[u]
      /\ tstatus'[t] # "issued"
  BY <1>1, <1>2, <1>3 DEF Applied, RevokedStatus, Issued, IInv, TypeOK
<1>5. pc' = pc /\ \A k \in Lobbies : todo[k] \ {t} \subseteq todo'[k]
  BY <1>1, <1>3 DEF IInv, TypeOK
<1> QED
  BY <1>1, <1>3, <1>4, <1>5 DEF EndpointInv, Issued

LEMMA NextKeepsEndpoint == IInv /\ EndpointInv /\ [Next]_vars => EndpointInv'
<1> SUFFICES ASSUME IInv, EndpointInv, [Next]_vars PROVE EndpointInv'
  OBVIOUS
<1>1. CASE UNCHANGED vars
  BY <1>1, EndpointKept DEF vars, rows, lobby, Issued
<1>2. CASE Tick
  BY <1>2, EndpointKept DEF Tick, lobby, Issued
<1>3. ASSUME NEW l \in Lobbies, NEW u \in Users, BattleTicket(l, u) PROVE EndpointInv'
  BY <1>3, EndpointKept DEF BattleTicket, rows, Issued, Idle, IInv, TypeOK
<1>4. ASSUME NEW l \in Lobbies, NEW t \in Tickets, ConsumeBattleTicket(l, t) PROVE EndpointInv'
  BY <1>4, EndpointKept DEF ConsumeBattleTicket, rows, Issued, Idle, IInv, TypeOK
<1>5. ASSUME NEW l \in Lobbies, CommitConsume(l) PROVE EndpointInv'
  <2>1. /\ pc[l] = "consume" /\ cur[l] \in Tickets
        /\ pc' = [pc EXCEPT ![l] = "idle"]
        /\ tstatus' = tstatus \/ tstatus' = [tstatus EXCEPT ![cur[l]] = "consumed"]
        /\ faults' = faults \/ \E w : CountFault(w)
        /\ UNCHANGED <<host, endpoint, tendpoint, todo, restarts>>
    BY <1>5 DEF CommitConsume, IInv, HandlerInv
  <2>2. faults' = 0 => faults = 0
    BY <2>1, NoFaultMeansOk DEF IInv
  <2>3. \A t \in Tickets : Issued(t)' => Issued(t)
    BY <2>1 DEF Issued, IInv, TypeOK
  <2>4. \A k \in Lobbies : pc[k] = "revoke" => pc'[k] = "revoke"
    BY <2>1 DEF IInv, TypeOK
  <2> QED
    BY <2>1, <2>2, <2>3, <2>4, EndpointKept
<1>6. ASSUME NEW l \in Lobbies, FinishReport(l) PROVE EndpointInv'
  <2>1. /\ todo[l] = {}
        /\ pc' = [pc EXCEPT ![l] = "idle"]
        /\ \E w : CountFault(w)
        /\ UNCHANGED <<host, endpoint, tendpoint, tstatus, todo, restarts>>
    BY <1>6 DEF FinishReport, rows
  <2>2. faults' = 0 => faults = 0
    BY <2>1, NoFaultMeansOk DEF IInv
  <2> QED
    BY <2>1, <2>2 DEF EndpointInv, Issued, IInv, TypeOK
<1>7. ASSUME NEW l \in Lobbies, SweepExpiredBattleTickets(l) PROVE EndpointInv'
  BY <1>7, EndpointKept DEF SweepExpiredBattleTickets, lobby, Issued
<1>8. ASSUME NEW l \in Lobbies, Restart(l) PROVE EndpointInv'
  BY <1>8 DEF Restart, EndpointInv, IInv, TypeOK
<1> QED
  BY <1>1, <1>2, <1>3, <1>4, <1>5, <1>6, <1>7, <1>8, IssueKeepsEndpoint, MoveKeepsEndpoint,
     RevokeKeepsEndpoint DEF Next

(* Without failures, once the handler that moved the endpoint is done, no  *)
(* ticket that can still be consumed points at an endpoint that was left.  *)
THEOREM EndpointsAreCurrent == Spec => []NoStaleEndpoint
<1>1. Init => EndpointInv
  BY TicketAssumptions DEF Init, EndpointInv, Issued
<1>2. EndpointInv => NoStaleEndpoint
  BY DEF EndpointInv, NoStaleEndpoint, Idle
<1> QED
  BY <1>1, <1>2, NextKeepsEndpoint, InductiveInvariant, PTL DEF Spec
=============================================================================
