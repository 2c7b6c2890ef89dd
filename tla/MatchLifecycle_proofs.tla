------------------------ MODULE MatchLifecycle_proofs ------------------------
(***************************************************************************)
(* Proofs about MatchLifecycle, for any sets of matches, players and       *)
(* result hashes, any time-outs and any number of failing writes and       *)
(* restarts: its type invariant, that nobody is paid twice for a match,    *)
(* that payment only follows a durable end, and that a durable end is      *)
(* final; then, on top of that invariant, that an end without a failing    *)
(* write has its settlement, that a match has one rematch, that a paid     *)
(* match is not assigned again, and that a settlement shown stays.         *)
(***************************************************************************)
EXTENDS MatchLifecycle, FiniteSetTheorems, TLAPS

(* A match id not handed out yet has left no trace.                        *)
UnmintedInv ==
    \A m \in Matches \ minted :
       /\ status[m] = "absent"
       /\ result[m] = NoHash
       /\ alloc[m] = Unset
       /\ row[m] = NoRow
       /\ \A p \in Players : paid[m][p] = 0

(* EndedAt is only set on a match that ended.                              *)
EndedInv == \A m \in Matches : endedAt[m] => status[m] = "ended"

(* A match that paid is gone from memory or carries EndedAt, which is what *)
(* expireStaleAllocationsLocked looks at; and its row is past playing.     *)
PaidInv ==
    \A m \in Matches, p \in Players :
       /\ paid[m][p] \in {0, 1}
       /\ paid[m][p] = 1 => /\ status[m] = "absent" \/ endedAt[m]
                            /\ row[m].status \in {"none", "ended"}

(* A live match has no result yet, and an ended row is never matched by a  *)
(* live match in memory that could be written over it.                     *)
DurableInv ==
    \A m \in Matches :
       /\ status[m] \in Live => result[m] = NoHash
       /\ row[m].status = "ended" => status[m] \in {"absent", "ended"}
       /\ row[m].hash # NoHash => status[m] = "absent" \/ result[m] = row[m].hash

IInv == TypeOK /\ UnmintedInv /\ EndedInv /\ PaidInv /\ DurableInv

LEMMA OlderType ==
    ASSUME NEW limit \in Nat, NEW a \in Ages(limit)
    PROVE  Older(a, limit) \in Ages(limit)
BY DEF Older, Ages, Unset

LEMMA WriteFacts ==
    ASSUME TypeOK
    PROVE  \A w : CountFault(w) => faults' \in Nat
BY DEF CountFault, TypeOK

(* Whatever is computed as a settlement gives every player a result.       *)
LEMMA OutcomeType ==
    /\ ScoreOutcomes \subseteq [Players -> Outcomes]
    /\ \A leavers \in SUBSET Players : FleeOutcome(leavers) \in [Players -> Outcomes]
    /\ \A w \in Players : WinnerOutcome({w}) \in [Players -> Outcomes]
    /\ DrawOutcome \in [Players -> Outcomes]
BY DEF ScoreOutcomes, FleeOutcome, WinnerOutcome, DrawOutcome, Outcomes

LEMMA SettledRowType ==
    ASSUME TypeOK, NEW m \in Matches, NEW h \in Hashes \cup {NoHash}
    PROVE  SettledRow(m, h) \in RowType
<1>1. row[m] \in RowType
  BY DEF TypeOK
<1>2. CASE row[m].status = "none"
  BY <1>1, <1>2 DEF SettledRow
<1>3. CASE row[m].status # "none"
  <2>1. SettledRow(m, h) = [status |-> "ended", hash |-> h,
                            alloc |-> row[m].alloc]
    BY <1>1, <1>3 DEF SettledRow, RowType
  <2> QED
    BY <1>1, <2>1 DEF RowType
<1> QED
  BY <1>2, <1>3

LEMMA SilentType ==
    Silent \in [op : {"none", "duplicate", "assigned"},
                match : Matches \cup {NoMatch}, listed : SUBSET Matches]
BY DEF Silent

LEMMA InitInv == Init => IInv
<1> SUFFICES ASSUME Init PROVE IInv
  OBVIOUS
<1> USE MatchAssumptions
<1>1. PICK m \in Matches :
         /\ minted = {m}
         /\ status = [n \in Matches |-> IF n = m THEN "loading" ELSE "absent"]
         /\ alloc = [n \in Matches |-> IF n = m THEN 0 ELSE Unset]
         /\ row = [n \in Matches |-> IF n # m THEN NoRow ELSE
                RowOf("loading", NoHash, 0)]
         /\ age = [n \in Matches |-> IF n = m THEN 0 ELSE Unset]
  BY DEF Init
<1>2. TypeOK
  <2>1. row \in [Matches -> RowType]
    BY <1>1 DEF RowOf, NoRow, RowType, Ages, Unset
  <2>2. /\ status \in [Matches -> Live \cup {"absent", "ended"}]
        /\ alloc \in [Matches -> Ages(AllocTTL)]
        /\ age \in [Matches -> Ages(MatchTTL + 1)]
        /\ minted \in SUBSET Matches
    BY <1>1 DEF Live, Ages, Unset
  <2>3. dropAge \in [Matches -> [Players -> Ages(ReconnectWindow)]]
    BY DEF Init, Ages, Unset
  <2> QED
    BY <2>1, <2>2, <2>3, SilentType DEF TypeOK, Init, NoRematch, Outcomes
<1>3. UnmintedInv
  BY <1>1 DEF Init, UnmintedInv
<1>4. EndedInv /\ PaidInv
  BY DEF Init, EndedInv, PaidInv
<1>5. DurableInv
  BY <1>1 DEF Init, DurableInv, Live, RowOf, NoRow
<1> QED
  BY <1>2, <1>3, <1>4, <1>5 DEF IInv

-----------------------------------------------------------------------------
(* The paths that settle a match by play share one lemma: m is live, so it *)
(* has not been paid (PaidInv, EndedInv) and its row is not ended yet      *)
(* (DurableInv).                                                           *)
LEMMA SettleInv ==
    ASSUME IInv, NEW m \in Matches, NEW h \in Hashes \cup {NoHash},
           NEW outcome \in [Players -> Outcomes], NEW w,
           status[m] \in Live, SettleLocked(m, h, outcome, w), reply' = Silent,
           UNCHANGED <<ready, dropAge, alloc, bound, rematch, age, parent, minted, restarts>>
    PROVE  IInv'
<1> USE MatchAssumptions DEF IInv
<1>1. /\ m \in minted
      /\ ~endedAt[m]
      /\ row[m].status # "ended"
      /\ result[m] = NoHash
      /\ row[m].hash = NoHash
      /\ \A p \in Players : paid[m][p] = 0
  BY DEF TypeOK, UnmintedInv, EndedInv, PaidInv, DurableInv, Live
<1>2. /\ status' = [status EXCEPT ![m] = "ended"]
      /\ endedAt' = [endedAt EXCEPT ![m] = TRUE]
      /\ result' = [result EXCEPT ![m] = h]
      /\ \/ row' = row /\ paid' = paid
         \/ row' = [row EXCEPT ![m] = SettledRow(m, h)] /\ paid' = paid
         \/ /\ row' = [row EXCEPT ![m] = SettledRow(m, h)]
            /\ paid' = [paid EXCEPT ![m] = [p \in Players |-> @[p] + 1]]
  BY DEF SettleLocked, Applied
<1>3. TypeOK'
  <2>1. row' \in [Matches -> RowType]
    <3>1. SettledRow(m, h) \in RowType /\ row \in [Matches -> RowType]
      BY SettledRowType DEF TypeOK
    <3> QED
      BY <1>2, <3>1
  <2>2. paid' \in [Matches -> [Players -> Nat]]
    <3>1. paid \in [Matches -> [Players -> Nat]]
      BY DEF TypeOK
    <3>2. [p \in Players |-> paid[m][p] + 1] \in [Players -> Nat]
      BY <3>1
    <3> QED
      BY <1>2, <3>1, <3>2
  <2>3. settled' \in [Matches -> [Players -> Outcomes]]
    BY DEF SettleLocked, TypeOK
  <2>4. endedBy' \in [Matches -> {"none", "play", "flee"}]
    BY DEF SettleLocked, TypeOK
  <2>5. faults' \in Nat
    BY WriteFacts DEF SettleLocked
  <2> QED
    BY <1>2, <2>1, <2>2, <2>3, <2>4, <2>5, SilentType DEF TypeOK
<1>4. UnmintedInv'
  BY <1>1, <1>2 DEF TypeOK, UnmintedInv
<1>5. EndedInv'
  BY <1>1, <1>2 DEF TypeOK, EndedInv
<1>6. SettledRow(m, h).status \in {"none", "ended"} /\ SettledRow(m, h).hash \in {NoHash, h}
  BY <1>1 DEF TypeOK, SettledRow, RowType
<1>7. PaidInv'
  <2> SUFFICES ASSUME NEW n \in Matches, NEW p \in Players
               PROVE  /\ paid'[n][p] \in {0, 1}
                      /\ paid'[n][p] = 1 => /\ status'[n] = "absent" \/ endedAt'[n]
                                            /\ row'[n].status \in {"none", "ended"}
    BY DEF PaidInv
  <2>1. CASE n = m
    BY <2>1, <1>1, <1>2, <1>6 DEF TypeOK, PaidInv
  <2>2. CASE n # m
    BY <2>2, <1>2 DEF TypeOK, PaidInv
  <2> QED
    BY <2>1, <2>2
<1>8. DurableInv'
  BY <1>1, <1>2, <1>6 DEF TypeOK, DurableInv, Live
<1> QED
  BY <1>3, <1>4, <1>5, <1>7, <1>8

(* The flee paths: nothing is paid and EndedAt stays zero.                 *)
LEMMA FleeInv ==
    ASSUME IInv, NEW m \in Matches, NEW leavers \in SUBSET Players, NEW w,
           status[m] \in Live, SettleFleeLocked(m, leavers, w), reply' = Silent,
           dropAge' \in [Matches -> [Players -> Ages(ReconnectWindow)]],
           UNCHANGED <<endedAt, ready, result, alloc, bound, rematch, age,
                       paid, parent, minted, restarts>>
    PROVE  IInv'
<1> USE MatchAssumptions DEF IInv
<1>1. /\ m \in minted
      /\ ~endedAt[m]
      /\ result[m] = NoHash
      /\ row[m].hash = NoHash
      /\ \A p \in Players : paid[m][p] = 0
  BY DEF TypeOK, UnmintedInv, EndedInv, PaidInv, DurableInv, Live
<1>2. /\ status' = [status EXCEPT ![m] = "ended"]
      /\ \/ row' = row
         \/ row' = [row EXCEPT ![m] = SettledRow(m, result[m])]
  BY DEF SettleFleeLocked
<1>3. TypeOK'
  <2>1. row' \in [Matches -> RowType]
    <3>1. SettledRow(m, result[m]) \in RowType /\ row \in [Matches -> RowType]
      BY SettledRowType DEF TypeOK
    <3> QED
      BY <1>2, <3>1
  <2>2. settled' \in [Matches -> [Players -> Outcomes]]
    BY OutcomeType DEF SettleFleeLocked, TypeOK
  <2>3. endedBy' \in [Matches -> {"none", "play", "flee"}]
    BY DEF SettleFleeLocked, TypeOK
  <2>4. faults' \in Nat
    BY WriteFacts DEF SettleFleeLocked
  <2> QED
    BY <1>2, <2>1, <2>2, <2>3, <2>4, SilentType DEF TypeOK
<1>4. UnmintedInv'
  BY <1>1, <1>2 DEF TypeOK, UnmintedInv
<1>5. EndedInv'
  BY <1>1, <1>2 DEF TypeOK, EndedInv
<1>6. SettledRow(m, result[m]).hash = NoHash
  BY <1>1 DEF TypeOK, SettledRow, RowType
<1>7. PaidInv'
  BY <1>1, <1>2 DEF TypeOK, PaidInv
<1>8. DurableInv'
  BY <1>1, <1>2, <1>6 DEF TypeOK, DurableInv, Live
<1> QED
  BY <1>3, <1>4, <1>5, <1>7, <1>8

-----------------------------------------------------------------------------
(* A write of the row of one match changes no other row.                   *)
LEMMA PersistType ==
    ASSUME TypeOK, NEW m \in Matches, NEW rec \in RowType, NEW w,
           PersistMatch(m, rec, w)
    PROVE  /\ row' \in [Matches -> RowType]
           /\ faults' \in Nat
           /\ row' = row \/ row' = [row EXCEPT ![m] = rec]
<1>1. row' = row \/ row' = [row EXCEPT ![m] = rec]
  BY DEF PersistMatch
<1>2. row \in [Matches -> RowType]
  BY DEF TypeOK
<1> QED
  BY <1>1, <1>2, WriteFacts DEF PersistMatch

LEMMA RowOfType ==
    ASSUME NEW st \in {"loading", "running", "ended"}, NEW h \in Hashes \cup {NoHash},
           NEW al \in Ages(AllocTTL)
    PROVE  /\ RowOf(st, h, al) \in RowType
           /\ RowOf(st, h, al).status = st
           /\ RowOf(st, h, al).hash = h
BY DEF RowOf, RowType

LEMMA PlayedType ==
    ASSUME TypeOK, NEW m \in Matches, status[m] # "absent"
    PROVE  /\ status[m] \in {"loading", "running", "ended"}
           /\ result[m] \in Hashes \cup {NoHash}
           /\ endedAt[m] \in BOOLEAN
BY DEF TypeOK, Live

LEMMA ReadyMatchInv ==
    ASSUME IInv, NEW m \in Matches, NEW p \in Players, ReadyMatch(m, p)
    PROVE  IInv'
<1> USE MatchAssumptions DEF IInv
<1> DEFINE st == IF EveryoneReady(ready[m] \cup {p}) THEN "running" ELSE status[m]
           rec == RowOf(st, result[m], alloc[m])
<1>1. /\ m \in minted
      /\ status[m] \in Live
      /\ st \in Live
      /\ ~endedAt[m]
      /\ result[m] = NoHash
      /\ \A q \in Players : paid[m][q] = 0
  BY DEF TypeOK, ReadyMatch, UnmintedInv, EndedInv, PaidInv, DurableInv, Live
<1>2. PICK w \in WriteOutcomes : PersistMatch(m, rec, w)
  BY WriteFacts DEF ReadyMatch
<1>3. rec \in RowType /\ rec.status = st /\ rec.hash = NoHash
  BY <1>1, RowOfType DEF TypeOK, Live
<1>4. /\ row' \in [Matches -> RowType]
      /\ faults' \in Nat
      /\ row' = row \/ row' = [row EXCEPT ![m] = rec]
  <2> HIDE DEF rec
  <2> QED
    BY <1>2, <1>3, PersistType
<1>5. /\ status' = [status EXCEPT ![m] = st]
      /\ ready' = [ready EXCEPT ![m] = @ \cup {p}]
      /\ reply' = Silent
      /\ UNCHANGED <<endedAt, dropAge, result, settled, alloc, bound, rematch, age,
                     paid, endedBy, parent, minted, restarts>>
  BY DEF ReadyMatch, history
<1> HIDE DEF st, rec
<1>6. TypeOK'
  <2>1. status' \in [Matches -> Live \cup {"absent", "ended"}]
    BY <1>1, <1>5 DEF TypeOK
  <2>2. ready' \in [Matches -> SUBSET Players]
    BY <1>5 DEF TypeOK
  <2> QED
    BY <1>4, <1>5, <2>1, <2>2, SilentType DEF TypeOK
<1>7. UnmintedInv'
  BY <1>1, <1>4, <1>5 DEF TypeOK, UnmintedInv
<1>8. EndedInv'
  BY <1>1, <1>5 DEF TypeOK, EndedInv
<1>9. PaidInv'
  BY <1>1, <1>4, <1>5 DEF TypeOK, PaidInv
<1>10. DurableInv'
  BY <1>1, <1>3, <1>4, <1>5 DEF TypeOK, DurableInv, Live
<1> QED
  BY <1>6, <1>7, <1>8, <1>9, <1>10

(* Setting one player's drop age keeps the type.                           *)
LEMMA DropAgeType ==
    ASSUME TypeOK, NEW m \in Matches, NEW p \in Players, NEW a \in {Unset, 0},
           dropAge' = [dropAge EXCEPT ![m][p] = a]
    PROVE  dropAge' \in [Matches -> [Players -> Ages(ReconnectWindow)]]
<1>1. a \in Ages(ReconnectWindow)
  BY MatchAssumptions DEF Ages, Unset
<1>2. dropAge \in [Matches -> [Players -> Ages(ReconnectWindow)]]
  BY DEF TypeOK
<1>3. [dropAge[m] EXCEPT ![p] = a] \in [Players -> Ages(ReconnectWindow)]
  BY <1>1, <1>2
<1>4. dropAge' = [dropAge EXCEPT ![m] = [dropAge[m] EXCEPT ![p] = a]]
  OBVIOUS
<1> QED
  BY <1>2, <1>3, <1>4

(* Drops and reconnects only move dropAge.                                 *)
LEMMA DropInv ==
    ASSUME IInv, NEW m \in Matches, NEW p \in Players,
           DisconnectMatch(m, p) \/ ReconnectMatch(m, p)
    PROVE  IInv'
<1> USE MatchAssumptions DEF IInv, DisconnectMatch, ReconnectMatch, history
<1>1. dropAge' \in [Matches -> [Players -> Ages(ReconnectWindow)]]
  BY DropAgeType
<1>2. TypeOK'
  BY <1>1, SilentType DEF TypeOK
<1>3. UnmintedInv' /\ EndedInv' /\ PaidInv' /\ DurableInv'
  BY DEF UnmintedInv, EndedInv, PaidInv, DurableInv
<1> QED
  BY <1>2, <1>3

LEMMA AbandonMatchInv ==
    ASSUME IInv, NEW m \in Matches, NEW p \in Players, AbandonMatch(m, p)
    PROVE  IInv'
<1>1. dropAge' \in [Matches -> [Players -> Ages(ReconnectWindow)]]
  BY DropAgeType DEF IInv, AbandonMatch
<1>2. \E w \in WriteOutcomes : SettleFleeLocked(m, {p}, w)
  BY WriteFacts DEF AbandonMatch, IInv
<1> QED
  BY <1>1, <1>2, FleeInv DEF AbandonMatch

LEMMA SubmitBattleEventsInv ==
    ASSUME IInv, NEW m \in Matches, SubmitBattleEvents(m)
    PROVE  IInv'
<1>1. dropAge' \in [Matches -> [Players -> Ages(ReconnectWindow)]] /\ status[m] \in Live
  BY DEF IInv, SubmitBattleEvents, TypeOK, Live
<1>2. \E w \in WriteOutcomes : SettleFleeLocked(m, Players, w)
  BY WriteFacts DEF SubmitBattleEvents, IInv
<1> QED
  BY <1>1, <1>2, FleeInv DEF SubmitBattleEvents

LEMMA SettleMatchInv ==
    ASSUME IInv, NEW m \in Matches, SettleMatch(m)
    PROVE  IInv'
<1>1. PICK outcome \in [Players -> Outcomes], w \in WriteOutcomes :
         SettleLocked(m, result[m], outcome, w)
  BY WriteFacts, OutcomeType DEF SettleMatch, IInv
<1>2. result[m] \in Hashes \cup {NoHash}
  BY DEF IInv, TypeOK
<1> QED
  BY <1>1, <1>2, SettleInv DEF SettleMatch

LEMMA AcceptResultInv ==
    ASSUME IInv, NEW m \in Matches, NEW h \in Hashes,
           NEW outcomes \in SUBSET [Players -> Outcomes], AcceptResult(m, h, outcomes)
    PROVE  IInv'
<1>1. CASE status[m] = "running" /\ reply' = Silent
  <2>1. PICK outcome \in [Players -> Outcomes], w \in WriteOutcomes :
           SettleLocked(m, h, outcome, w)
    BY <1>1, WriteFacts DEF AcceptResult, IInv
  <2> QED
    BY <1>1, <2>1, SettleInv DEF AcceptResult, Live
<1>2. CASE reply' = Duplicate(m) /\ UNCHANGED <<memory, row, age, history, faults, restarts>>
  <2>1. TypeOK'
    BY <1>2 DEF IInv, TypeOK, memory, history, Duplicate
  <2> QED
    BY <1>2, <2>1 DEF IInv, UnmintedInv, EndedInv, PaidInv, DurableInv, memory, history
<1> QED
  BY <1>1, <1>2 DEF AcceptResult

LEMMA BattleResultInv ==
    ASSUME IInv, NEW m \in Matches, NEW h \in Hashes,
           SubmitBattleResult(m, h) \/ ApplyBattleResultCallback(m, h)
    PROVE  IInv'
<1>1. {DrawOutcome} \cup {WinnerOutcome({w}) : w \in Players} \in SUBSET [Players -> Outcomes]
  BY OutcomeType
<1> QED
  BY <1>1, OutcomeType, AcceptResultInv DEF SubmitBattleResult, ApplyBattleResultCallback

-----------------------------------------------------------------------------
(* A rematch creates a match under an id nobody has used, so the new match *)
(* starts unpaid and with an empty row.                                    *)
LEMMA RequestRematchInv ==
    ASSUME IInv, NEW m \in Matches, NEW p \in Players, RequestRematch(m, p)
    PROVE  IInv'
<1> USE MatchAssumptions DEF IInv
<1> DEFINE accepted == rematch[m].accepted \cup {p}
<1>1. accepted \in SUBSET Players /\ rematch[m].next \in Matches \cup {NoMatch}
  BY DEF TypeOK
<1>2. /\ reply' = Silent
      /\ UNCHANGED <<endedAt, ready, dropAge, result, settled, bound, paid, endedBy, restarts>>
  BY DEF RequestRematch
<1>3. CASE /\ rematch' = [rematch EXCEPT ![m].accepted = accepted]
           /\ UNCHANGED <<status, alloc, row, age, minted, parent, faults>>
  <2>1. rematch' \in [Matches -> [accepted : SUBSET Players, next : Matches \cup {NoMatch}]]
    <3>1. [rematch[m] EXCEPT !.accepted = accepted]
             \in [accepted : SUBSET Players, next : Matches \cup {NoMatch}]
      <4>1. rematch[m] \in [accepted : SUBSET Players, next : Matches \cup {NoMatch}]
        BY DEF TypeOK
      <4> HIDE DEF accepted
      <4> QED
        BY <1>1, <4>1
    <3> QED
      BY <1>3, <3>1 DEF TypeOK
  <2>2. TypeOK'
    BY <1>2, <1>3, <2>1, SilentType DEF TypeOK
  <2>3. UnmintedInv' /\ EndedInv' /\ PaidInv' /\ DurableInv'
    BY <1>2, <1>3 DEF UnmintedInv, EndedInv, PaidInv, DurableInv
  <2> QED
    BY <2>2, <2>3
<1>4. CASE \E n \in Matches, w \in WriteOutcomes :
              /\ CreateMatch(n, m, w)
              /\ rematch' = [rematch EXCEPT ![m] =
                    [accepted |-> accepted, next |-> IF w = "ok" THEN n ELSE NoMatch]]
  <2>1. PICK n \in Matches, w \in WriteOutcomes :
           /\ CreateMatch(n, m, w)
           /\ rematch' = [rematch EXCEPT ![m] =
                 [accepted |-> accepted, next |-> IF w = "ok" THEN n ELSE NoMatch]]
    BY <1>4, WriteFacts
  <2> DEFINE rec == RowOf("loading", NoHash, 0)
  <2>2. rec \in RowType /\ rec.status = "loading" /\ rec.hash = NoHash
    <3>1. 0 \in Ages(AllocTTL)
      BY DEF Ages, Unset
    <3> QED
      BY <3>1 DEF RowOf, RowType
  <2> HIDE DEF rec, accepted
  <2>3. /\ n \notin minted
        /\ minted' = minted \cup {n}
        /\ parent' = [parent EXCEPT ![n] = m]
        /\ status' = [status EXCEPT ![n] = "loading"]
        /\ alloc' = [alloc EXCEPT ![n] = 0]
        /\ age' = [age EXCEPT ![n] = 0]
        /\ PersistMatch(n, rec, w)
    BY <2>1 DEF CreateMatch, rec
  <2>4. /\ row' \in [Matches -> RowType]
        /\ faults' \in Nat
        /\ row' = row \/ row' = [row EXCEPT ![n] = rec]
    BY <2>2, <2>3, PersistType
  <2>5. /\ status[n] = "absent"
        /\ result[n] = NoHash
        /\ row[n] = NoRow
        /\ ~endedAt[n]
        /\ \A q \in Players : paid[n][q] = 0
    BY <2>3 DEF UnmintedInv, EndedInv, TypeOK
  <2>6. TypeOK'
    <3>1. rematch' \in [Matches -> [accepted : SUBSET Players, next : Matches \cup {NoMatch}]]
      <4>1. [accepted |-> accepted, next |-> IF w = "ok" THEN n ELSE NoMatch]
               \in [accepted : SUBSET Players, next : Matches \cup {NoMatch}]
        BY <1>1
      <4> QED
        BY <2>1, <4>1 DEF TypeOK
    <3>2. /\ status' \in [Matches -> Live \cup {"absent", "ended"}]
          /\ parent' \in [Matches -> Matches \cup {NoMatch}]
          /\ minted' \in SUBSET Matches
      BY <2>3 DEF TypeOK, Live
    <3>3. /\ alloc' \in [Matches -> Ages(AllocTTL)]
          /\ age' \in [Matches -> Ages(MatchTTL + 1)]
      BY <2>3 DEF TypeOK, Ages, Unset
    <3> QED
      BY <1>2, <2>4, <3>1, <3>2, <3>3, SilentType DEF TypeOK
  <2>7. /\ \A k \in Matches : k # n => /\ row'[k] = row[k]
                                      /\ alloc'[k] = alloc[k]
                                      /\ status'[k] = status[k]
        /\ row'[n] = row[n] \/ row'[n] = rec
        /\ status'[n] = "loading"
    BY <2>3, <2>4 DEF TypeOK
  <2>8. UnmintedInv'
    BY <1>2, <2>3, <2>7 DEF UnmintedInv
  <2>9. EndedInv'
    BY <1>2, <2>5, <2>7 DEF EndedInv
  <2>10. PaidInv'
    BY <1>2, <2>5, <2>7 DEF PaidInv
  <2>11. NoRow.status = "none" /\ NoRow.hash = NoHash
    BY DEF NoRow
  <2>12. DurableInv'
    BY <1>2, <2>2, <2>5, <2>7, <2>11 DEF DurableInv, Live
  <2> QED
    BY <2>6, <2>8, <2>9, <2>10, <2>12
<1> QED
  BY <1>3, <1>4 DEF RequestRematch

(* The endpoint report and the bind write the row from memory.  A match    *)
(* that is paid or whose row is ended is "ended" in memory too, or absent, *)
(* so neither can bring its row back to life.                              *)
LEMMA WriteBackInv ==
    ASSUME IInv, NEW m \in Matches, NEW al \in Ages(AllocTTL), NEW rec \in RowType,
           NEW w, m \in minted, PersistMatch(m, rec, w),
           \/ status[m] # "absent" /\ rec.status = status[m] /\ rec.hash = result[m]
           \/ status[m] = "absent" /\ rec.status = row[m].status /\ rec.hash = row[m].hash,
           alloc' = [alloc EXCEPT ![m] = al], reply' = Silent,
           bound' \in [Matches -> BOOLEAN],
           UNCHANGED <<status, endedAt, ready, dropAge, result, settled, rematch,
                       age, history, restarts>>
    PROVE  IInv'
<1> USE DEF IInv
<1>1. /\ row' \in [Matches -> RowType]
      /\ faults' \in Nat
      /\ row' = row \/ row' = [row EXCEPT ![m] = rec]
  BY PersistType
<1>2. /\ \A n \in Matches : n # m => row'[n] = row[n] /\ alloc'[n] = alloc[n]
      /\ row'[m] = row[m] \/ row'[m] = rec
      /\ UNCHANGED <<paid, minted>>
  BY <1>1 DEF TypeOK, history
<1>3. TypeOK'
  BY <1>1, SilentType DEF TypeOK, history
<1>4. UnmintedInv'
  BY <1>2 DEF UnmintedInv
<1>5. EndedInv'
  BY DEF EndedInv
<1>6. PaidInv'
  <2> SUFFICES ASSUME NEW n \in Matches, NEW q \in Players
               PROVE  /\ paid[n][q] \in {0, 1}
                      /\ paid[n][q] = 1 => /\ status[n] = "absent" \/ endedAt[n]
                                           /\ row'[n].status \in {"none", "ended"}
    BY <1>2 DEF PaidInv
  <2>1. CASE n = m
    BY <2>1, <1>2 DEF PaidInv, EndedInv
  <2>2. CASE n # m
    BY <2>2, <1>2 DEF PaidInv
  <2> QED
    BY <2>1, <2>2
<1>7. DurableInv'
  BY <1>2 DEF DurableInv, Live
<1> QED
  BY <1>3, <1>4, <1>5, <1>6, <1>7

LEMMA ReportInv ==
    ASSUME IInv, NEW m \in Matches, ReportBattleAgentEndpoint(m)
    PROVE  IInv'
<1> USE DEF IInv
<1> DEFINE al == IF alloc[m] # Unset THEN alloc[m] ELSE row[m].alloc
           rec == IF status[m] # "absent"
                  THEN RowOf(status[m], result[m], al)
                  ELSE IF row[m].status = "none" THEN row[m]
                  ELSE [row[m] EXCEPT !.alloc = al]
<1>1. al # Unset /\ al \in Ages(AllocTTL)
  BY DEF TypeOK, RowType, ReportBattleAgentEndpoint
<1>2. m \in minted
  BY <1>1 DEF UnmintedInv, NoRow
<1>3. PICK w \in WriteOutcomes : PersistMatch(m, rec, w)
  BY WriteFacts DEF ReportBattleAgentEndpoint
<1>4. /\ rec \in RowType
      /\ \/ status[m] # "absent" /\ rec.status = status[m] /\ rec.hash = result[m]
         \/ status[m] = "absent" /\ rec.status = row[m].status /\ rec.hash = row[m].hash
  <2>1. row[m] \in RowType
    BY DEF TypeOK
  <2> HIDE DEF al
  <2>2. CASE status[m] # "absent"
    BY <1>1, <2>2, PlayedType, RowOfType
  <2>3. CASE status[m] = "absent"
    BY <1>1, <2>1, <2>3 DEF RowType
  <2> QED
    BY <2>2, <2>3
<1>5. /\ alloc' = [alloc EXCEPT ![m] = al] /\ reply' = Silent
      /\ bound' \in [Matches -> BOOLEAN]
      /\ UNCHANGED <<status, endedAt, ready, dropAge, result, settled, rematch,
                     age, history, restarts>>
  BY DEF ReportBattleAgentEndpoint, TypeOK
<1> HIDE DEF al, rec, IInv
<1> QED
  BY <1>1, <1>2, <1>3, <1>4, <1>5, WriteBackInv

LEMMA BindInv ==
    ASSUME IInv, NEW m \in Matches, BindBattleServerAllocation(m)
    PROVE  IInv'
<1> USE DEF IInv
<1> DEFINE rec == RowOf(status[m], result[m], 0)
<1>1. m \in minted /\ status[m] # "absent" /\ 0 \in Ages(AllocTTL)
  BY MatchAssumptions DEF UnmintedInv, BindBattleServerAllocation, Ages, Unset
<1>2. PICK w \in WriteOutcomes : PersistMatch(m, rec, w)
  BY WriteFacts DEF BindBattleServerAllocation
<1>3. rec \in RowType /\ rec.status = status[m] /\ rec.hash = result[m]
  BY <1>1, PlayedType, RowOfType
<1>4. /\ alloc' = [alloc EXCEPT ![m] = 0] /\ reply' = Silent
      /\ bound' \in [Matches -> BOOLEAN]
      /\ UNCHANGED <<status, endedAt, ready, dropAge, result, settled, rematch,
                     age, history, restarts>>
  BY DEF BindBattleServerAllocation, TypeOK
<1> HIDE DEF rec, IInv
<1> QED
  BY <1>1, <1>2, <1>3, <1>4, WriteBackInv

-----------------------------------------------------------------------------
(* The poll of the agent settles what outlived its allocation: only        *)
(* matches without EndedAt, none of which has been paid.                   *)
LEMMA AssignmentsInv ==
    ASSUME IInv, BattleAgentAssignments
    PROVE  IInv'
<1> USE MatchAssumptions DEF IInv
<1>1. PICK failed \in SUBSET StaleMatches, outcomes \in [StaleMatches -> ScoreOutcomes],
           lost \in SUBSET StaleMatches :
         lost \subseteq failed /\ ExpireStaleAllocations(failed, lost, outcomes)
  BY DEF BattleAgentAssignments
<1> DEFINE hit == StaleMatches
           done == hit \ failed
<1>2. /\ hit \subseteq Matches
      /\ \A m \in hit : /\ m \in minted
                        /\ status[m] # "absent"
                        /\ ~endedAt[m]
                        /\ \A p \in Players : paid[m][p] = 0
  BY DEF StaleMatches, UnmintedInv, PaidInv
<1>3. /\ status' = [m \in Matches |-> IF m \in hit THEN "ended" ELSE status[m]]
      /\ endedAt' = [m \in Matches |-> endedAt[m] \/ m \in hit]
      /\ endedBy' = [m \in Matches |->
            IF m \in hit /\ endedBy[m] = "none" THEN "play" ELSE endedBy[m]]
      /\ row' = [m \in Matches |-> IF m \in hit \ lost THEN SettledRow(m, result[m]) ELSE row[m]]
      /\ settled' = [m \in Matches |-> IF m \in done THEN outcomes[m] ELSE settled[m]]
      /\ paid' = [m \in Matches |->
            IF m \in done THEN [p \in Players |-> paid[m][p] + 1] ELSE paid[m]]
      /\ alloc' = [m \in Matches |->
            IF StaleAlloc(m) /\ status[m] = "absent" THEN Unset ELSE alloc[m]]
      /\ faults' = faults + Cardinality(failed)
  BY <1>1 DEF ExpireStaleAllocations
<1>4. UNCHANGED <<ready, dropAge, result, bound, rematch, age, parent, minted, restarts>>
  BY DEF BattleAgentAssignments
<1>5. \A m \in Matches : /\ SettledRow(m, result[m]) \in RowType
                         /\ SettledRow(m, result[m]).status \in {"none", "ended"}
                         /\ SettledRow(m, result[m]).hash \in {row[m].hash, result[m]}
  <2> TAKE m \in Matches
  <2>1. row[m] \in RowType /\ SettledRow(m, result[m]) \in RowType
    BY SettledRowType DEF TypeOK
  <2> QED
    BY <2>1 DEF SettledRow, RowType
<1>6. faults' \in Nat
  <2>1. IsFiniteSet(failed)
    BY <1>2, FS_Subset
  <2> QED
    BY <1>3, <2>1, FS_CardinalityType DEF TypeOK
<1>7. reply' \in [op : {"none", "duplicate", "assigned"},
                  match : Matches \cup {NoMatch}, listed : SUBSET Matches]
  BY DEF BattleAgentAssignments, Assigned
<1>8. TypeOK'
  <2> HIDE DEF hit
  <2>1. status' \in [Matches -> Live \cup {"absent", "ended"}] /\ endedAt' \in [Matches -> BOOLEAN]
    BY <1>3 DEF TypeOK
  <2>2. endedBy' \in [Matches -> {"none", "play", "flee"}]
    BY <1>3 DEF TypeOK
  <2>3. row' \in [Matches -> RowType]
    BY <1>3, <1>5 DEF TypeOK
  <2>4. settled' \in [Matches -> [Players -> Outcomes]]
    BY <1>3, OutcomeType DEF TypeOK, hit
  <2>5. paid' \in [Matches -> [Players -> Nat]]
    <3>1. \A m \in Matches : /\ paid[m] \in [Players -> Nat]
                             /\ [p \in Players |-> paid[m][p] + 1] \in [Players -> Nat]
      BY DEF TypeOK
    <3> QED
      BY <1>3, <3>1
  <2>6. alloc' \in [Matches -> Ages(AllocTTL)]
    BY <1>3 DEF TypeOK, Ages, Unset
  <2> QED
    BY <1>4, <1>6, <1>7, <2>1, <2>2, <2>3, <2>4, <2>5, <2>6 DEF TypeOK
<1> HIDE DEF hit
<1>9. UnmintedInv'
  BY <1>2, <1>3, <1>4 DEF UnmintedInv
<1>10. EndedInv'
  BY <1>3 DEF EndedInv
<1>11. PaidInv'
  <2> SUFFICES ASSUME NEW n \in Matches, NEW q \in Players
               PROVE  /\ paid'[n][q] \in {0, 1}
                      /\ paid'[n][q] = 1 => /\ status'[n] = "absent" \/ endedAt'[n]
                                            /\ row'[n].status \in {"none", "ended"}
    BY DEF PaidInv
  <2>1. CASE n \in done
    <3>1. n \in hit /\ paid[n][q] = 0
      BY <2>1, <1>2
    <3>2. paid'[n][q] = 1
      BY <2>1, <3>1, <1>3
    <3>3. row'[n].status \in {"none", "ended"}
      BY <2>1, <1>1, <1>3, <1>5
    <3>4. endedAt'[n]
      BY <3>1, <1>3
    <3> QED
      BY <3>2, <3>3, <3>4
  <2>2. CASE n \notin done
    BY <2>2, <1>2, <1>3 DEF PaidInv
  <2> QED
    BY <2>1, <2>2
<1>12. DurableInv'
  <2> SUFFICES ASSUME NEW n \in Matches
               PROVE  /\ status'[n] \in Live => result[n] = NoHash
                      /\ row'[n].status = "ended" => status'[n] \in {"absent", "ended"}
                      /\ row'[n].hash # NoHash => status'[n] = "absent" \/ result[n] = row'[n].hash
    BY <1>4 DEF DurableInv
  <2>1. CASE n \in hit \ lost
    BY <2>1, <1>2, <1>3, <1>5 DEF DurableInv, Live
  <2>2. CASE n \notin hit \ lost
    BY <2>2, <1>2, <1>3 DEF DurableInv, Live
  <2> QED
    BY <2>1, <2>2
<1> QED
  BY <1>8, <1>9, <1>10, <1>11, <1>12

(* The sweep only takes rows that are loading or running.                  *)
LEMMA SweepInv ==
    ASSUME IInv, SweepExpiredMatches
    PROVE  IInv'
<1> USE DEF IInv
<1>1. PICK reaped \in SUBSET ExpiringMatches :
         /\ row' = [m \in Matches |->
               IF m \in reaped THEN [row[m] EXCEPT !.status = "expired"] ELSE row[m]]
         /\ CountFault(IF reaped = ExpiringMatches THEN "ok" ELSE "lost")
  BY DEF SweepExpiredMatches
<1>2. \A m \in Matches :
         \/ row'[m] = row[m]
         \/ /\ row[m].status \in Live
            /\ row'[m] \in RowType
            /\ row'[m].status = "expired"
            /\ row'[m].hash = row[m].hash
  <2> TAKE m \in Matches
  <2>1. row[m] \in RowType
    BY DEF TypeOK
  <2>2. CASE m \in reaped
    <3>1. row'[m] = [row[m] EXCEPT !.status = "expired"] /\ row[m].status \in Live
      BY <1>1, <2>2 DEF ExpiringMatches
    <3> QED
      BY <2>1, <3>1 DEF RowType
  <2>3. CASE m \notin reaped
    BY <1>1, <2>3
  <2> QED
    BY <2>2, <2>3
<1>3. /\ row' \in [Matches -> RowType]
      /\ faults' \in Nat
  BY <1>1, <1>2, WriteFacts DEF TypeOK
<1>4. reply' = Silent /\ UNCHANGED <<memory, age, history, restarts>>
  BY DEF SweepExpiredMatches
<1>5. TypeOK'
  BY <1>3, <1>4, SilentType DEF TypeOK, memory, history
<1>6. UnmintedInv'
  <2>1. NoRow.status \notin Live
    BY DEF NoRow, Live
  <2> QED
    BY <1>2, <1>4, <2>1 DEF UnmintedInv, memory, history
<1>7. EndedInv' /\ PaidInv'
  BY <1>2, <1>4 DEF EndedInv, PaidInv, memory, history, Live
<1>8. DurableInv'
  BY <1>2, <1>4 DEF DurableInv, memory, Live
<1> QED
  BY <1>5, <1>6, <1>7, <1>8

LEMMA TickInv ==
    ASSUME IInv, Tick
    PROVE  IInv'
<1> USE MatchAssumptions DEF IInv
<1>1. /\ alloc' = [m \in Matches |-> Older(alloc[m], AllocTTL)]
      /\ dropAge' = [m \in Matches |-> [p \in Players |-> Older(dropAge[m][p], ReconnectWindow)]]
      /\ age' = [m \in Matches |-> Older(age[m], MatchTTL + 1)]
      /\ row' = [m \in Matches |-> [row[m] EXCEPT !.alloc = Older(@, AllocTTL)]]
      /\ reply' = Silent
      /\ UNCHANGED <<status, endedAt, ready, result, settled, bound, rematch,
                     paid, endedBy, parent, minted, faults, restarts>>
  BY DEF Tick, history
<1>2. \A m \in Matches : /\ row'[m] \in RowType
                         /\ row'[m].status = row[m].status
                         /\ row'[m].hash = row[m].hash
                         /\ row[m] = NoRow => row'[m] = NoRow
  <2> TAKE m \in Matches
  <2>1. row[m] \in RowType
    BY DEF TypeOK
  <2>2. row'[m] = [row[m] EXCEPT !.alloc = Older(row[m].alloc, AllocTTL)]
    BY <1>1
  <2>3. Older(row[m].alloc, AllocTTL) \in Ages(AllocTTL)
    BY <2>1, OlderType DEF RowType
  <2>4. row[m] = NoRow => Older(row[m].alloc, AllocTTL) = row[m].alloc
    BY DEF NoRow, Older
  <2> QED
    BY <2>1, <2>2, <2>3, <2>4 DEF RowType
<1>3. TypeOK'
  <2>1. row' \in [Matches -> RowType]
    BY <1>1, <1>2
  <2>2. alloc' \in [Matches -> Ages(AllocTTL)]
    BY <1>1, OlderType DEF TypeOK
  <2>3. age' \in [Matches -> Ages(MatchTTL + 1)]
    <3>1. MatchTTL + 1 \in Nat
      OBVIOUS
    <3> QED
      BY <1>1, <3>1, OlderType DEF TypeOK
  <2>4. dropAge' \in [Matches -> [Players -> Ages(ReconnectWindow)]]
    BY <1>1, OlderType DEF TypeOK
  <2> QED
    BY <1>1, <2>1, <2>2, <2>3, <2>4, SilentType DEF TypeOK
<1>4. UnmintedInv'
  BY <1>1, <1>2 DEF UnmintedInv, Older
<1>5. EndedInv' /\ PaidInv' /\ DurableInv'
  BY <1>1, <1>2 DEF EndedInv, PaidInv, DurableInv
<1> QED
  BY <1>3, <1>4, <1>5

(* A restart empties the memory; rows and what was paid stay.              *)
LEMMA RestartInv ==
    ASSUME IInv, Restart
    PROVE  IInv'
<1> USE MatchAssumptions DEF IInv, Restart, EmptyMemory, history
<1>1. TypeOK'
  <2>1. /\ dropAge' \in [Matches -> [Players -> Ages(ReconnectWindow)]]
        /\ alloc' \in [Matches -> Ages(AllocTTL)]
    BY DEF Ages, Unset
  <2>2. rematch' \in [Matches -> [accepted : SUBSET Players, next : Matches \cup {NoMatch}]]
    BY DEF NoRematch
  <2>3. settled' \in [Matches -> [Players -> Outcomes]]
    BY DEF Outcomes
  <2>4. restarts' \in Nat
    BY DEF TypeOK
  <2> QED
    BY <2>1, <2>2, <2>3, <2>4, SilentType DEF TypeOK
<1>2. UnmintedInv'
  BY DEF UnmintedInv
<1>3. EndedInv' /\ PaidInv'
  BY DEF EndedInv, PaidInv
<1>4. DurableInv'
  BY DEF DurableInv, Live
<1> QED
  BY <1>1, <1>2, <1>3, <1>4

LEMMA NextInv == IInv /\ [Next]_vars => IInv'
<1> SUFFICES ASSUME IInv, [Next]_vars PROVE IInv'
  OBVIOUS
<1>1. CASE UNCHANGED vars
  <2>1. TypeOK'
    BY <1>1 DEF IInv, TypeOK, vars, memory, history
  <2> QED
    BY <1>1, <2>1 DEF IInv, UnmintedInv, EndedInv, PaidInv, DurableInv, vars, memory, history
<1>2. CASE PlayerStep
  BY <1>2, SettleMatchInv, ReadyMatchInv, DropInv, AbandonMatchInv, RequestRematchInv
     DEF PlayerStep
<1>3. CASE BattleStep
  BY <1>3, BattleResultInv, SubmitBattleEventsInv, ReportInv, BindInv DEF BattleStep
<1> QED
  BY <1>1, <1>2, <1>3, AssignmentsInv, SweepInv, TickInv, RestartInv DEF Next

(* The invariant about payment and the durable end holds in every state.   *)
THEOREM InductiveInvariant == Spec => []IInv
BY InitInv, NextInv, PTL DEF Spec

-----------------------------------------------------------------------------
(* Every reachable state of the match handlers is well formed.             *)
THEOREM TypeCorrect == Spec => []TypeOK
<1>1. IInv => TypeOK
  BY DEF IInv
<1> QED
  BY <1>1, InductiveInvariant, PTL

(* Whatever the number of matches, players, failing writes and restarts,   *)
(* applyRewards and applyProgress run at most once per match and player.   *)
THEOREM NobodyPaidTwice == Spec => []PaidAtMostOnce
<1>1. IInv => PaidAtMostOnce
  BY DEF IInv, PaidInv, PaidAtMostOnce
<1> QED
  BY <1>1, InductiveInvariant, PTL

(* Nobody is paid for a match whose row still says it can be played.       *)
THEOREM PaidIsDurable == Spec => []PaidOnlyOnceDurable
<1>1. IInv => PaidOnlyOnceDurable
  BY DEF IInv, PaidInv, PaidOnlyOnceDurable
<1> QED
  BY <1>1, InductiveInvariant, PTL

-----------------------------------------------------------------------------
(* The action property, row by row.                                        *)
KeepsEnd(m) ==
    row[m].status = "ended" =>
       /\ row'[m].status = "ended"
       /\ row[m].hash # NoHash => row'[m].hash = row[m].hash

(* A row that is ended belongs to no live match, so a step that writes only *)
(* the row of a live or a new match keeps every durable end.               *)
LEMMA OtherRowKeepsEnd ==
    ASSUME IInv, NEW m \in Matches, status[m] \in Live \/ m \notin minted,
           \A n \in Matches : n # m => row'[n] = row[n]
    PROVE  \A n \in Matches : KeepsEnd(n)
<1>1. row[m].status # "ended"
  BY DEF IInv, DurableInv, UnmintedInv, NoRow, Live
<1> QED
  BY <1>1 DEF KeepsEnd

LEMMA PlayerKeepsEnd ==
    ASSUME IInv, PlayerStep
    PROVE  \A n \in Matches : KeepsEnd(n)
<1>1. PICK m \in Matches :
         \/ SettleMatch(m)
         \/ \E p \in Players : \/ ReadyMatch(m, p) \/ DisconnectMatch(m, p)
                               \/ ReconnectMatch(m, p) \/ AbandonMatch(m, p)
                               \/ RequestRematch(m, p)
  BY DEF PlayerStep
<1>2. row \in [Matches -> RowType]
  BY DEF IInv, TypeOK
<1>3. CASE row' = row
  BY <1>3 DEF KeepsEnd
<1>4. CASE SettleMatch(m)
  <2>1. status[m] \in Live /\ \A n \in Matches : n # m => row'[n] = row[n]
    BY <1>2, <1>4 DEF SettleMatch, SettleLocked
  <2> QED
    BY <2>1, OtherRowKeepsEnd
<1>5. CASE \E p \in Players : ReadyMatch(m, p) \/ AbandonMatch(m, p)
  <2>1. status[m] \in Live /\ \A n \in Matches : n # m => row'[n] = row[n]
    BY <1>2, <1>5 DEF ReadyMatch, PersistMatch, AbandonMatch, SettleFleeLocked
  <2> QED
    BY <2>1, OtherRowKeepsEnd
<1>6. CASE \E n \in Matches, w \in WriteOutcomes : CreateMatch(n, m, w)
  <2>1. PICK n \in Matches : n \notin minted /\ \A k \in Matches : k # n => row'[k] = row[k]
    BY <1>2, <1>6 DEF CreateMatch, PersistMatch
  <2> QED
    BY <2>1, OtherRowKeepsEnd
<1> QED
  BY <1>1, <1>3, <1>4, <1>5, <1>6 DEF DisconnectMatch, ReconnectMatch, RequestRematch

(* What the report and the bind write for an ended match is its end again. *)
LEMMA BattleKeepsEnd ==
    ASSUME IInv, BattleStep
    PROVE  \A n \in Matches : KeepsEnd(n)
<1>1. PICK m \in Matches :
         \/ \E h \in Hashes : SubmitBattleResult(m, h) \/ ApplyBattleResultCallback(m, h)
         \/ SubmitBattleEvents(m)
         \/ ReportBattleAgentEndpoint(m)
         \/ BindBattleServerAllocation(m)
  BY DEF BattleStep
<1>2. row \in [Matches -> RowType] /\ row[m] \in RowType
  BY DEF IInv, TypeOK
<1>3. CASE row' = row
  BY <1>3 DEF KeepsEnd
<1>4. CASE \/ \E h \in Hashes : SubmitBattleResult(m, h) \/ ApplyBattleResultCallback(m, h)
           \/ SubmitBattleEvents(m)
  <2>1. \/ row' = row
        \/ status[m] \in Live /\ \A n \in Matches : n # m => row'[n] = row[n]
    BY <1>2, <1>4 DEF SubmitBattleResult, ApplyBattleResultCallback, AcceptResult,
          SettleLocked, SubmitBattleEvents, SettleFleeLocked, Live
  <2> QED
    BY <1>3, <2>1, OtherRowKeepsEnd
<1>5. CASE ReportBattleAgentEndpoint(m) \/ BindBattleServerAllocation(m)
  <2>1. PICK rec :
           /\ row' = row \/ row' = [row EXCEPT ![m] = rec]
           /\ \/ status[m] # "absent" /\ rec.status = status[m] /\ rec.hash = result[m]
              \/ status[m] = "absent" /\ rec.status = row[m].status /\ rec.hash = row[m].hash
    <3>1. CASE status[m] # "absent"
      <4>1. PICK al : \/ row' = row
                      \/ row' = [row EXCEPT ![m] = RowOf(status[m], result[m], al)]
        BY <1>5, <3>1 DEF ReportBattleAgentEndpoint, BindBattleServerAllocation, PersistMatch
      <4>2. /\ RowOf(status[m], result[m], al).status = status[m]
            /\ RowOf(status[m], result[m], al).hash = result[m]
        BY DEF RowOf
      <4> QED
        BY <3>1, <4>1, <4>2
    <3>2. CASE status[m] = "absent"
      <4>1. PICK al : row' = row \/ row' = [row EXCEPT ![m] = row[m]]
                      \/ row' = [row EXCEPT ![m] = [row[m] EXCEPT !.alloc = al]]
        BY <1>5, <3>2 DEF ReportBattleAgentEndpoint, BindBattleServerAllocation, PersistMatch
      <4>2. /\ [row[m] EXCEPT !.alloc = al].status = row[m].status
            /\ [row[m] EXCEPT !.alloc = al].hash = row[m].hash
        BY <1>2 DEF RowType
      <4> QED
        BY <3>2, <4>1, <4>2
    <3> QED
      BY <3>1, <3>2
  <2>2. \A n \in Matches : n # m => row'[n] = row[n]
    BY <1>2, <2>1
  <2>3. row'[m] = row[m] \/ row'[m] = rec
    BY <1>2, <2>1
  <2>4. KeepsEnd(m)
    BY <2>1, <2>3 DEF KeepsEnd, IInv, DurableInv
  <2> QED
    BY <2>2, <2>4 DEF KeepsEnd
<1> QED
  BY <1>1, <1>4, <1>5

LEMMA ClockKeepsEnd ==
    ASSUME IInv, BattleAgentAssignments \/ SweepExpiredMatches \/ Tick \/ Restart
    PROVE  \A n \in Matches : KeepsEnd(n)
<1> TAKE n \in Matches
<1>1. row[n] \in RowType
  BY DEF IInv, TypeOK
<1>2. CASE BattleAgentAssignments
  <2>1. \/ row'[n] = row[n]
        \/ status[n] # "absent" /\ row'[n] = SettledRow(n, result[n])
    BY <1>2 DEF BattleAgentAssignments, ExpireStaleAllocations, StaleMatches
  <2>2. row[n].status = "ended" => /\ SettledRow(n, result[n]).status = "ended"
                                   /\ SettledRow(n, result[n]).hash = result[n]
    BY <1>1 DEF SettledRow, RowType
  <2> QED
    BY <2>1, <2>2 DEF KeepsEnd, IInv, DurableInv
<1>3. CASE SweepExpiredMatches
  <2>1. row'[n] = row[n] \/ row[n].status \in Live
    BY <1>3 DEF SweepExpiredMatches, ExpiringMatches
  <2> QED
    BY <2>1 DEF KeepsEnd, Live
<1>4. CASE Tick
  BY <1>1, <1>4 DEF Tick, KeepsEnd, RowType
<1>5. CASE Restart
  BY <1>5 DEF Restart, KeepsEnd
<1> QED
  BY <1>2, <1>3, <1>4, <1>5

(* Once the row of a match says "ended", no handler, sweep or restart ever  *)
(* changes that, nor the result hash stored with it.                       *)
THEOREM DurableEnd == Spec => DurableEndIsFinal
<1>1. IInv /\ [Next]_vars =>
         [\A m \in Matches : row[m].status = "ended" =>
             /\ row'[m].status = "ended"
             /\ row[m].hash # NoHash => row'[m].hash = row[m].hash]_vars
  BY PlayerKeepsEnd, BattleKeepsEnd, ClockKeepsEnd DEF Next, KeepsEnd
<1> QED
  BY <1>1, InductiveInvariant, PTL DEF Spec, DurableEndIsFinal
-----------------------------------------------------------------------------
(* What one step may do to settlements, ends and rematches.  The second    *)
(* layer of invariants follows from this description of a step alone.      *)

(* The settlement of n is left alone, or n ends in this step (by play with *)
(* EndedAt, or by flight), or n is forgotten by a restart.                 *)
KeepsSettlement(n) ==
    \/ /\ settled'[n] = settled[n]
       /\ endedAt'[n] = endedAt[n]
       /\ endedBy'[n] = endedBy[n]
       /\ status[n] = "ended" => status'[n] = "ended"
    \/ /\ status[n] \in Live \/ ~endedAt[n]
       /\ status'[n] = "ended"
       /\ endedAt'[n] \/ endedBy'[n] = "flee"
    \/ /\ status'[n] = "absent"
       /\ \A p \in Players : settled'[n][p] = "none"

(* A step without a failing write that ends a match settles it as well.    *)
EndsSettled ==
    faults' = 0 =>
       /\ faults = 0
       /\ \A n \in Matches : status'[n] = "ended" =>
             \/ status[n] = "ended" /\ settled'[n] = settled[n]
             \/ \A p \in Players : settled'[n][p] # "none"

(* A step that mints no match revives none and keeps what came of each     *)
(* rematch; the one that mints n records it with the match it comes from.  *)
KeepsRematches ==
    \/ /\ parent' = parent
       /\ minted' = minted
       /\ \A q \in minted : \/ status'[q] = "absent"
                            \/ status[q] # "absent" /\ rematch'[q].next = rematch[q].next
    \/ \E m \in minted, n \in Matches \ minted :
          /\ status[m] = "ended"
          /\ rematch[m].next = NoMatch
          /\ parent' = [parent EXCEPT ![n] = m]
          /\ minted' = minted \cup {n}
          /\ faults' = 0 => rematch'[m].next = n
          /\ \A q \in minted : status'[q] = status[q]
          /\ \A q \in minted \ {m} : rematch'[q] = rematch[q]

Orderly ==
    /\ \A n \in Matches : KeepsSettlement(n)
    /\ EndsSettled
    /\ KeepsRematches

(* No settlement that is computed leaves a player without a result.        *)
LEMMA OutcomesGiven ==
    /\ \A o \in ScoreOutcomes, p \in Players : o[p] # "none"
    /\ \A leavers \in SUBSET Players, p \in Players : FleeOutcome(leavers)[p] # "none"
    /\ {DrawOutcome} \cup {WinnerOutcome({w}) : w \in Players} \subseteq ScoreOutcomes
BY ZenonT(40) DEF ScoreOutcomes, FleeOutcome, WinnerOutcome, DrawOutcome

LEMMA NoFaultMeansOk ==
    ASSUME TypeOK, NEW w, CountFault(w), faults' = 0
    PROVE  w = "ok" /\ faults = 0
BY DEF CountFault, TypeOK

(* A step that touches none of this, but may move a match within Live.     *)
LEMMA QuietOrderly ==
    ASSUME IInv, faults' = 0 => faults = 0,
           UNCHANGED <<settled, endedAt, endedBy, rematch, parent, minted>>,
           \A n \in Matches : \/ status'[n] = status[n]
                              \/ status[n] \in Live /\ status'[n] \in Live
    PROVE  Orderly
<1>1. \A n \in Matches : KeepsSettlement(n)
  BY DEF KeepsSettlement, Live
<1>2. EndsSettled
  BY DEF EndsSettled, Live
<1>3. KeepsRematches
  BY DEF KeepsRematches, Live, IInv, TypeOK
<1> QED
  BY <1>1, <1>2, <1>3 DEF Orderly

LEMMA PlayedOrderly ==
    ASSUME IInv, NEW m \in Matches, NEW h, NEW outcome \in ScoreOutcomes, NEW w,
           status[m] \in Live, SettleLocked(m, h, outcome, w),
           UNCHANGED <<rematch, parent, minted>>
    PROVE  Orderly
<1>1. /\ status' = [status EXCEPT ![m] = "ended"]
      /\ endedAt' = [endedAt EXCEPT ![m] = TRUE]
      /\ settled' = IF w = "ok" THEN [settled EXCEPT ![m] = outcome] ELSE settled
      /\ \A n \in Matches : n # m => endedBy'[n] = endedBy[n]
      /\ CountFault(w)
  BY DEF SettleLocked, IInv, TypeOK
<1>2. /\ status \in [Matches -> Live \cup {"absent", "ended"}]
      /\ endedAt \in [Matches -> BOOLEAN]
      /\ settled \in [Matches -> [Players -> Outcomes]]
      /\ minted \in SUBSET Matches
  BY DEF IInv, TypeOK
<1>3. \A n \in Matches : KeepsSettlement(n)
  BY <1>1, <1>2 DEF KeepsSettlement
<1>4. EndsSettled
  <2>1. faults' = 0 => w = "ok" /\ faults = 0
    BY <1>1, NoFaultMeansOk DEF IInv
  <2> QED
    BY <1>1, <1>2, <2>1, OutcomesGiven DEF EndsSettled
<1>5. KeepsRematches
  BY <1>1, <1>2 DEF KeepsRematches, Live
<1> QED
  BY <1>3, <1>4, <1>5 DEF Orderly

LEMMA FledOrderly ==
    ASSUME IInv, NEW m \in Matches, NEW leavers \in SUBSET Players, NEW w,
           status[m] \in Live, SettleFleeLocked(m, leavers, w),
           UNCHANGED <<endedAt, rematch, parent, minted>>
    PROVE  Orderly
<1>1. /\ status' = [status EXCEPT ![m] = "ended"]
      /\ endedBy' = [endedBy EXCEPT ![m] = "flee"]
      /\ settled' = IF w = "ok" THEN [settled EXCEPT ![m] = FleeOutcome(leavers)] ELSE settled
      /\ CountFault(w)
  BY DEF SettleFleeLocked
<1>2. /\ status \in [Matches -> Live \cup {"absent", "ended"}]
      /\ endedBy \in [Matches -> {"none", "play", "flee"}]
      /\ settled \in [Matches -> [Players -> Outcomes]]
      /\ minted \in SUBSET Matches
  BY DEF IInv, TypeOK
<1>3. \A n \in Matches : KeepsSettlement(n)
  BY <1>1, <1>2 DEF KeepsSettlement
<1>4. EndsSettled
  <2>1. faults' = 0 => w = "ok" /\ faults = 0
    BY <1>1, NoFaultMeansOk DEF IInv
  <2> QED
    BY <1>1, <1>2, <2>1, OutcomesGiven DEF EndsSettled
<1>5. KeepsRematches
  BY <1>1, <1>2 DEF KeepsRematches, Live
<1> QED
  BY <1>3, <1>4, <1>5 DEF Orderly

(* The minting of a rematch: m was minted itself, so it is not the new one. *)
LEMMA RematchOrderly ==
    ASSUME IInv, NEW m \in Matches, NEW p \in Players, RequestRematch(m, p)
    PROVE  Orderly
<1>1. /\ status[m] = "ended"
      /\ UNCHANGED <<settled, endedAt, endedBy>>
  BY DEF RequestRematch
<1>2. m \in minted
  BY <1>1 DEF IInv, UnmintedInv
<1>3. /\ status \in [Matches -> Live \cup {"absent", "ended"}]
      /\ rematch \in [Matches -> [accepted : SUBSET Players, next : Matches \cup {NoMatch}]]
      /\ minted \in SUBSET Matches
  BY DEF IInv, TypeOK
<1> DEFINE accepted == rematch[m].accepted \cup {p}
<1>4. CASE /\ rematch' = [rematch EXCEPT ![m].accepted = accepted]
           /\ UNCHANGED <<status, minted, parent, faults>>
  <2>1. \A q \in Matches : rematch'[q].next = rematch[q].next
    BY <1>3, <1>4
  <2>2. KeepsRematches
    BY <1>3, <1>4, <2>1 DEF KeepsRematches
  <2>3. (\A n \in Matches : KeepsSettlement(n)) /\ EndsSettled
    BY <1>1, <1>4 DEF KeepsSettlement, EndsSettled
  <2> QED
    BY <2>2, <2>3 DEF Orderly
<1>5. CASE /\ rematch[m].next = NoMatch
           /\ \E n \in Matches, w \in WriteOutcomes :
                 /\ CreateMatch(n, m, w)
                 /\ rematch' = [rematch EXCEPT ![m] =
                       [accepted |-> accepted, next |-> IF w = "ok" THEN n ELSE NoMatch]]
  <2>1. PICK n \in Matches, w \in WriteOutcomes :
           /\ CreateMatch(n, m, w)
           /\ rematch' = [rematch EXCEPT ![m] =
                 [accepted |-> accepted, next |-> IF w = "ok" THEN n ELSE NoMatch]]
    BY <1>5
  <2>2. /\ n \in Matches \ minted
        /\ minted' = minted \cup {n}
        /\ parent' = [parent EXCEPT ![n] = m]
        /\ status' = [status EXCEPT ![n] = "loading"]
        /\ CountFault(w)
    BY <2>1 DEF CreateMatch, PersistMatch
  <2>3. faults' = 0 => w = "ok" /\ faults = 0
    BY <2>2, NoFaultMeansOk DEF IInv
  <2>4. /\ faults' = 0 => rematch'[m].next = n
        /\ \A q \in minted \ {m} : rematch'[q] = rematch[q]
    BY <1>3, <2>1, <2>3
  <2>5. \A q \in minted : status'[q] = status[q]
    BY <1>3, <2>2
  <2>6. KeepsRematches
    BY <1>1, <1>2, <1>5, <2>2, <2>4, <2>5 DEF KeepsRematches
  <2>7. status[n] = "absent"
    BY <2>2 DEF IInv, UnmintedInv
  <2>8. \A k \in Matches : status'[k] = status[k] \/ (k = n /\ status'[k] = "loading")
    BY <1>3, <2>2
  <2>9. (\A k \in Matches : KeepsSettlement(k)) /\ EndsSettled
    BY <1>1, <2>3, <2>7, <2>8 DEF KeepsSettlement, EndsSettled
  <2> QED
    BY <2>6, <2>9 DEF Orderly
<1> QED
  BY <1>4, <1>5 DEF RequestRematch, RematchFound

(* The poll settles what outlived the TTL without EndedAt, a fled match    *)
(* included, and with no failing write it settles all of it.               *)
LEMMA AssignmentsOrderly ==
    ASSUME IInv, BattleAgentAssignments
    PROVE  Orderly
<1> USE MatchAssumptions
<1>1. PICK failed \in SUBSET StaleMatches, outcomes \in [StaleMatches -> ScoreOutcomes] :
         \E lost \in SUBSET failed : ExpireStaleAllocations(failed, lost, outcomes)
  BY DEF BattleAgentAssignments
<1> DEFINE hit == StaleMatches
<1>2. hit \subseteq Matches /\ \A m \in hit : status[m] # "absent" /\ ~endedAt[m]
  BY DEF StaleMatches
<1>3. /\ \A m \in Matches : status'[m] = IF m \in hit THEN "ended" ELSE status[m]
      /\ \A m \in Matches : endedAt'[m] = (endedAt[m] \/ m \in hit)
      /\ \A m \in Matches : m \notin hit => endedBy'[m] = endedBy[m]
      /\ \A m \in Matches :
            settled'[m] = IF m \in hit \ failed THEN outcomes[m] ELSE settled[m]
      /\ faults' = faults + Cardinality(failed)
  BY <1>1 DEF ExpireStaleAllocations
<1>4. UNCHANGED <<rematch, parent, minted>>
  BY DEF BattleAgentAssignments
<1>5. IsFiniteSet(failed)
  BY <1>2, FS_Subset
<1>6. faults' = 0 => faults = 0 /\ failed = {}
  <2>1. Cardinality(failed) \in Nat /\ faults \in Nat
    BY <1>5, FS_CardinalityType DEF IInv, TypeOK
  <2> QED
    BY <1>3, <1>5, <2>1, FS_EmptySet
<1>7. \A m \in hit : outcomes[m] \in ScoreOutcomes
  BY <1>1
<1>8. endedAt \in [Matches -> BOOLEAN] /\ minted \in SUBSET Matches
  BY DEF IInv, TypeOK
<1> HIDE DEF hit
<1>9. \A n \in Matches : KeepsSettlement(n)
  BY <1>2, <1>3, <1>8 DEF KeepsSettlement
<1>10. EndsSettled
  BY <1>2, <1>3, <1>6, <1>7, OutcomesGiven DEF EndsSettled
<1>11. KeepsRematches
  BY <1>2, <1>3, <1>4, <1>8 DEF KeepsRematches
<1> QED
  BY <1>9, <1>10, <1>11 DEF Orderly

LEMMA RestartOrderly ==
    ASSUME IInv, Restart
    PROVE  Orderly
<1>1. minted \in SUBSET Matches
  BY DEF IInv, TypeOK
<1>2. (\A n \in Matches : KeepsSettlement(n)) /\ EndsSettled
  BY DEF Restart, EmptyMemory, KeepsSettlement, EndsSettled
<1>3. KeepsRematches
  BY <1>1 DEF Restart, history, KeepsRematches
<1> QED
  BY <1>2, <1>3 DEF Orderly

LEMMA PlayerOrderly ==
    ASSUME IInv, PlayerStep
    PROVE  Orderly
<1>1. PICK m \in Matches :
         \/ SettleMatch(m)
         \/ \E p \in Players : \/ ReadyMatch(m, p) \/ DisconnectMatch(m, p)
                               \/ ReconnectMatch(m, p) \/ AbandonMatch(m, p)
                               \/ RequestRematch(m, p)
  BY DEF PlayerStep
<1>2. CASE SettleMatch(m)
  BY <1>2, PlayedOrderly DEF SettleMatch
<1>3. CASE \E p \in Players : ReadyMatch(m, p)
  <2>1. PICK p \in Players : ReadyMatch(m, p)
    BY <1>3
  <2>2. /\ status[m] \in Live
        /\ \E st \in Live : status' = [status EXCEPT ![m] = st]
        /\ \E w : CountFault(w)
        /\ UNCHANGED <<settled, endedAt, endedBy, rematch, parent, minted>>
    BY <2>1 DEF ReadyMatch, PersistMatch, history, Live
  <2>3. \A n \in Matches : \/ status'[n] = status[n]
                           \/ status[n] \in Live /\ status'[n] \in Live
    BY <2>2 DEF IInv, TypeOK
  <2>4. faults' = 0 => faults = 0
    BY <2>2, NoFaultMeansOk DEF IInv
  <2> QED
    BY <2>2, <2>3, <2>4, QuietOrderly
<1>4. CASE \E p \in Players : DisconnectMatch(m, p) \/ ReconnectMatch(m, p)
  BY <1>4, QuietOrderly DEF DisconnectMatch, ReconnectMatch, history
<1>5. CASE \E p \in Players : AbandonMatch(m, p)
  BY <1>5, FledOrderly DEF AbandonMatch
<1> QED
  BY <1>1, <1>2, <1>3, <1>4, <1>5, RematchOrderly

LEMMA BattleOrderly ==
    ASSUME IInv, BattleStep
    PROVE  Orderly
<1>1. PICK m \in Matches :
         \/ \E h \in Hashes : SubmitBattleResult(m, h) \/ ApplyBattleResultCallback(m, h)
         \/ SubmitBattleEvents(m)
         \/ ReportBattleAgentEndpoint(m)
         \/ BindBattleServerAllocation(m)
  BY DEF BattleStep
<1>2. CASE \E h \in Hashes : SubmitBattleResult(m, h) \/ ApplyBattleResultCallback(m, h)
  <2>1. PICK h \in Hashes, outcomes \in SUBSET ScoreOutcomes : AcceptResult(m, h, outcomes)
    BY <1>2, OutcomesGiven DEF SubmitBattleResult, ApplyBattleResultCallback
  <2>2. CASE status[m] = "running"
    <3>1. PICK outcome \in outcomes, w \in WriteOutcomes :
             /\ SettleLocked(m, h, outcome, w)
             /\ UNCHANGED <<rematch, parent, minted>>
      BY <2>1, <2>2 DEF AcceptResult
    <3> QED
      BY <2>2, <3>1, PlayedOrderly DEF Live
  <2>3. CASE status[m] # "running"
    <3>1. UNCHANGED <<memory, history, faults>>
      BY <2>1, <2>3 DEF AcceptResult
    <3> QED
      BY <3>1, QuietOrderly DEF memory, history
  <2> QED
    BY <2>2, <2>3
<1>3. CASE SubmitBattleEvents(m)
  BY <1>3, FledOrderly DEF SubmitBattleEvents, Live
<1>4. CASE ReportBattleAgentEndpoint(m) \/ BindBattleServerAllocation(m)
  <2>1. /\ \E w : CountFault(w)
        /\ UNCHANGED <<status, settled, endedAt, endedBy, rematch, parent, minted>>
    BY <1>4 DEF ReportBattleAgentEndpoint, BindBattleServerAllocation, PersistMatch, history
  <2>2. faults' = 0 => faults = 0
    BY <2>1, NoFaultMeansOk DEF IInv
  <2> QED
    BY <2>1, <2>2, QuietOrderly
<1> QED
  BY <1>1, <1>2, <1>3, <1>4

LEMMA NextOrderly ==
    ASSUME IInv, [Next]_vars
    PROVE  Orderly
<1>1. CASE UNCHANGED vars
  BY <1>1, QuietOrderly DEF vars, memory, history
<1>2. CASE SweepExpiredMatches
  <2>1. (\E w : CountFault(w)) /\ UNCHANGED <<memory, history>>
    BY <1>2 DEF SweepExpiredMatches
  <2>2. faults' = 0 => faults = 0
    BY <2>1, NoFaultMeansOk DEF IInv
  <2> QED
    BY <2>1, <2>2, QuietOrderly DEF memory, history
<1>3. CASE Tick
  BY <1>3, QuietOrderly DEF Tick, history
<1> QED
  BY <1>1, <1>2, <1>3, PlayerOrderly, BattleOrderly, AssignmentsOrderly, RestartOrderly
     DEF Next

-----------------------------------------------------------------------------
(* The second layer: a settlement belongs to an ended match, one that was  *)
(* played carries EndedAt; and a rematch is remembered by the match it     *)
(* comes from for as long as that match is in memory.                      *)
SettledInv ==
    \A m \in Matches, p \in Players : settled[m][p] # "none" =>
       /\ status[m] = "ended"
       /\ endedBy[m] = "play" => endedAt[m]

RematchInv ==
    faults = 0 => \A n \in minted : parent[n] # NoMatch =>
       /\ parent[n] \in minted
       /\ status[parent[n]] = "absent" \/ rematch[parent[n]].next = n
       /\ \A k \in minted : parent[k] = parent[n] => k = n

LayerInv == IInv /\ SettledInv /\ EndedIsSettled /\ RematchInv /\ PaidNeverAssigned

LEMMA InitLayer == Init => LayerInv
<1> SUFFICES ASSUME Init PROVE LayerInv
  OBVIOUS
<1>1. IInv
  BY InitInv
<1>2. \A m \in Matches : status[m] # "ended"
  BY DEF Init
<1>3. SettledInv /\ EndedIsSettled /\ PaidNeverAssigned
  BY <1>2 DEF Init, SettledInv, EndedIsSettled, PaidNeverAssigned, Silent
<1>4. RematchInv
  BY <1>1 DEF Init, RematchInv, IInv, TypeOK
<1> QED
  BY <1>1, <1>3, <1>4 DEF LayerInv

(* Only the poll lists matches, and what it lists is in memory and has no  *)
(* EndedAt.                                                                *)
LEMMA ListedIsOpen ==
    ASSUME [Next]_vars
    PROVE  \/ reply' = reply /\ paid' = paid
           \/ \A m \in reply'.listed : m \in Matches /\ status'[m] # "absent" /\ ~endedAt'[m]
<1>1. CASE UNCHANGED vars
  BY <1>1 DEF vars, history
<1>2. CASE reply' = Silent \/ \E m : reply' = Duplicate(m)
  BY <1>2 DEF Silent, Duplicate
<1>3. CASE BattleAgentAssignments
  BY <1>3 DEF BattleAgentAssignments, Assigned, Assignable
<1>4. PlayerStep => reply' = Silent
  BY DEF PlayerStep, SettleMatch, ReadyMatch, DisconnectMatch, ReconnectMatch, AbandonMatch,
         RequestRematch
<1>5. BattleStep => reply' = Silent \/ \E m : reply' = Duplicate(m)
  BY DEF BattleStep, SubmitBattleResult, ApplyBattleResultCallback, AcceptResult,
         SubmitBattleEvents, ReportBattleAgentEndpoint, BindBattleServerAllocation
<1>6. SweepExpiredMatches \/ Tick \/ Restart => reply' = Silent
  BY DEF SweepExpiredMatches, Tick, Restart
<1> QED
  BY <1>1, <1>2, <1>3, <1>4, <1>5, <1>6 DEF Next

LEMMA NextLayer == LayerInv /\ [Next]_vars => LayerInv'
<1> SUFFICES ASSUME LayerInv, [Next]_vars PROVE LayerInv'
  OBVIOUS
<1> USE MatchAssumptions
<1>1. IInv /\ IInv'
  BY NextInv DEF LayerInv
<1>2. Orderly
  BY <1>1, NextOrderly
<1>3. SettledInv'
  BY <1>2 DEF LayerInv, SettledInv, Orderly, KeepsSettlement
<1>4. EndedIsSettled'
  BY <1>2 DEF LayerInv, EndedIsSettled, Orderly, EndsSettled
<1>5. RematchInv'
  <2>1. /\ minted \in SUBSET Matches
        /\ parent \in [Matches -> Matches \cup {NoMatch}]
    BY <1>1 DEF IInv, TypeOK
  <2> SUFFICES ASSUME faults' = 0, NEW n \in minted', parent'[n] # NoMatch
               PROVE  /\ parent'[n] \in minted'
                      /\ status'[parent'[n]] = "absent" \/ rematch'[parent'[n]].next = n
                      /\ \A k \in minted' : parent'[k] = parent'[n] => k = n
    BY DEF RematchInv
  <2>2. \A k \in minted : parent[k] # NoMatch =>
           /\ parent[k] \in minted
           /\ status[parent[k]] = "absent" \/ rematch[parent[k]].next = k
           /\ \A j \in minted : parent[j] = parent[k] => j = k
    BY <1>2 DEF LayerInv, RematchInv, Orderly, EndsSettled
  <2>3. CASE /\ parent' = parent
             /\ minted' = minted
             /\ \A q \in minted : \/ status'[q] = "absent"
                                  \/ status[q] # "absent" /\ rematch'[q].next = rematch[q].next
    BY <2>2, <2>3
  <2>4. ASSUME NEW m \in minted, NEW b \in Matches \ minted,
               /\ status[m] = "ended"
               /\ rematch[m].next = NoMatch
               /\ parent' = [parent EXCEPT ![b] = m]
               /\ minted' = minted \cup {b}
               /\ faults' = 0 => rematch'[m].next = b
               /\ \A q \in minted : status'[q] = status[q]
               /\ \A q \in minted \ {m} : rematch'[q] = rematch[q]
        PROVE  /\ parent'[n] \in minted'
               /\ status'[parent'[n]] = "absent" \/ rematch'[parent'[n]].next = n
               /\ \A k \in minted' : parent'[k] = parent'[n] => k = n
    <3>1. \A k \in minted : parent[k] # m
      BY <2>1, <2>2, <2>4
    <3>2. parent'[b] = m /\ \A k \in minted : parent'[k] = parent[k]
      BY <2>1, <2>4
    <3>3. CASE n = b
      BY <2>1, <2>4, <3>1, <3>2, <3>3
    <3>4. CASE n \in minted
      BY <2>1, <2>2, <2>4, <3>1, <3>2, <3>4
    <3> QED
      BY <2>4, <3>3, <3>4
  <2> QED
    BY <1>2, <2>3, <2>4 DEF Orderly, KeepsRematches
<1>6. PaidNeverAssigned'
  <2>1. \A m \in Matches, p \in Players :
           paid'[m][p] = 0 \/ status'[m] = "absent" \/ endedAt'[m]
    BY <1>1 DEF IInv, PaidInv
  <2> QED
    BY <2>1, ListedIsOpen DEF LayerInv, PaidNeverAssigned
<1> QED
  BY <1>1, <1>3, <1>4, <1>5, <1>6 DEF LayerInv

(* With the invariant about settlements and rematches on top of it.        *)
THEOREM LayeredInvariant == Spec => []LayerInv
BY InitLayer, NextLayer, PTL DEF Spec

(* As long as no store write failed, every match that ended in memory has  *)
(* a settlement for each player, whichever path ended it.                  *)
THEOREM EndsAreSettled == Spec => []EndedIsSettled
<1>1. LayerInv => EndedIsSettled
  BY DEF LayerInv
<1> QED
  BY <1>1, LayeredInvariant, PTL

(* As long as no store write failed, RequestRematch makes one match out of *)
(* each match at most, however requests and restarts interleave.           *)
THEOREM RematchIsUnique == Spec => []OneRematch
<1>1. LayerInv => OneRematch
  BY DEF LayerInv, RematchInv, OneRematch
<1> QED
  BY <1>1, LayeredInvariant, PTL

(* No answer to the battle agent's poll lists a match that was paid.       *)
THEOREM PaidIsNotAssigned == Spec => []PaidNeverAssigned
<1>1. LayerInv => PaidNeverAssigned
  BY DEF LayerInv
<1> QED
  BY <1>1, LayeredInvariant, PTL

(* While the process lives, the settlement of a match that was played is   *)
(* never replaced, by the poll's expiry or by a second result.             *)
THEOREM SettlementIsFinal == Spec => SettlementStable
<1>1. LayerInv /\ [Next]_vars =>
         [\A m \in Matches, p \in Players :
             settled[m][p] # "none" /\ endedBy[m] = "play" /\ status'[m] # "absent"
                => settled'[m][p] = settled[m][p]]_vars
  <2> SUFFICES ASSUME LayerInv, [Next]_vars, NEW m \in Matches, NEW p \in Players,
                      settled[m][p] # "none", endedBy[m] = "play", status'[m] # "absent"
               PROVE  settled'[m][p] = settled[m][p]
    OBVIOUS
  <2>1. KeepsSettlement(m)
    BY NextOrderly DEF LayerInv, Orderly
  <2>2. status[m] = "ended" /\ endedAt[m]
    BY DEF LayerInv, SettledInv
  <2> QED
    BY <2>1, <2>2 DEF KeepsSettlement, Live
<1> QED
  BY <1>1, LayeredInvariant, PTL DEF Spec, SettlementStable
=============================================================================
