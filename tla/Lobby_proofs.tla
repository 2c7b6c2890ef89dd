---------------------------- MODULE Lobby_proofs ----------------------------
(***************************************************************************)
(* Proofs about the queue and the rooms, for any number of users, tickets, *)
(* rooms, matches, failed writes, crashes and restarts.                    *)
(*                                                                         *)
(* The inductive invariant has three layers.  ShapeInv holds in every      *)
(* state, whatever went wrong: the types, ids above the counters unused,   *)
(* every queued id cached, the bounds of the rooms, no seat without a row. *)
(* CalmInv says what holds as long as no handler was cut short: the cache  *)
(* agrees with the table, a user has one queued row, and the queue and the *)
(* waiting rooms hold distinct queued tickets of their own.  RosterInv     *)
(* adds the players of the matches, as long as nobody had to log in again. *)
(* Each handler is taken twice: its Shape lemma for every outcome of its   *)
(* writes, its Calm lemma for the one in which all of them go well.        *)
(***************************************************************************)
EXTENDS Lobby, SequenceTheorems, FiniteSetTheorems, WellFoundedInduction, TLAPS

(* The shape of a row of lobby_rooms, and of all variables.                *)
RoomRecords ==
    [status : {"none", "waiting", "found", "closed", "expired"}, seats : Seq(Tickets),
     host : Users \cup {NoUser}, need : Sizes \cup {0}, match : Nat]

Types ==
    /\ mem \in [Tickets -> TicketRecords]
    /\ db \in [Tickets -> TicketRecords]
    /\ missing \in SUBSET Tickets
    /\ queue \in Seq(Tickets)
    /\ online \in SUBSET Users
    /\ rooms \in [Rooms -> RoomRecords]
    /\ members \in [Rooms -> [Users -> Tickets \cup {None}]]
    /\ minted \in 0 .. MaxTickets
    /\ opened \in 0 .. MaxRooms
    /\ rosters \in Seq([users : SUBSET Users, size : Sizes])
    /\ faults \in 0 .. MaxFaults
    /\ crashes \in 0 .. MaxCrashes
    /\ restarts \in 0 .. MaxRestarts

(* Identifiers that were not handed out are not in use.                    *)
FreshInv ==
    /\ \A t \in Tickets : t > minted => mem[t] = NoTicket /\ db[t] = NoTicket
    /\ \A r \in Rooms : r > opened => rooms[r] = NoRoom

(* The queue lives in memory, and so do its tickets.                       *)
QueueInv == \A i \in DOMAIN queue : mem[queue[i]] # NoTicket

(* The seats of a room are tickets, within its bounds while it waits.      *)
RoomInv(r) ==
    /\ Elements(rooms[r].seats) \subseteq 1 .. minted
    /\ Len(rooms[r].seats) <= MaxPlayers
    /\ rooms[r].match <= Len(rosters)
    /\ rooms[r].status = "found" => rooms[r].match # None
    /\ rooms[r].status = "waiting" =>
          rooms[r].need \in Sizes /\ Len(rooms[r].seats) \in 1 .. rooms[r].need

ShapeInv == Types /\ FreshInv /\ QueueInv /\ (\A r \in Rooms : RoomInv(r)) /\ NoGhostSeat

Distinct(s) == \A i, j \in DOMAIN s : s[i] = s[j] => i = j

(* Calm: a lookup, from the cache or not, answers with the row.            *)
CacheInv == missing = {} /\ \A t \in Tickets : mem[t] \in {NoTicket, db[t]}

(* Calm: the unique index on the queued rows of a user.                    *)
OneQueued(rows) ==
    \A t, x \in Tickets :
       rows[t].status = "queued" /\ rows[x].status = "queued" /\ rows[t].user = rows[x].user => t = x

(* Calm: the queue holds distinct queued tickets that are for no room.     *)
LineInv ==
    /\ Distinct(queue)
    /\ \A i \in DOMAIN queue : db[queue[i]].status = "queued" /\ db[queue[i]].room = None

(* Calm: a waiting room has a free seat, its host sits in it, and every    *)
(* seat is a queued ticket for this room, with the room's size, that the   *)
(* seat row of its player names.                                           *)
SeatsOK(r) ==
    /\ Distinct(rooms[r].seats)
    /\ Len(rooms[r].seats) < rooms[r].need
    /\ \E t \in Elements(rooms[r].seats) : db[t].user = rooms[r].host
    /\ \A t \in Elements(rooms[r].seats) :
          /\ db[t] = Queued(db[t].user, r, rooms[r].need)
          /\ members[r][db[t].user] = t

SeatsInv == \A r \in Rooms : rooms[r].status = "waiting" => SeatsOK(r)

(* Calm: rows name matches that have begun, and queued rows name none.     *)
Decided(rows, n) ==
    \A t \in Tickets : rows[t].match <= n /\ (rows[t].status = "queued" => rows[t].match = None)

CalmBody == CacheInv /\ OneQueued(db) /\ LineInv /\ SeatsInv /\ Decided(db, Len(rosters))
CalmInv == Calm => CalmBody

(* Calm and since the first start: the players of a match are those whose  *)
(* rows name it, as many as it was to have.                                *)
RosterBody ==
    /\ online = Users
    /\ \A m \in DOMAIN rosters :
          /\ rosters[m].users = {db[t].user : t \in {x \in Tickets : db[x].match = m}}
          /\ Cardinality(rosters[m].users) = rosters[m].size
RosterInv == Calm /\ restarts = 0 => RosterBody

IInv == ShapeInv /\ CalmInv /\ RosterInv
-----------------------------------------------------------------------------
(* Lines.                                                                  *)

(* A nonempty set of naturals has a least member.                          *)
LEMMA LeastOf ==
    ASSUME NEW T \in SUBSET Nat, T # {}
    PROVE  \E x \in T : \A y \in T : x <= y
<1> DEFINE R == OpToRel(<, Nat)
<1>1. R = {p \in Nat \X Nat : p[1] < p[2]}
  BY DEF OpToRel
<1>2. IsWellFoundedOn(R, Nat)
  BY NatLessThanWellFounded
<1> HIDE DEF R
<1>3. PICK x \in T : \A y \in T : ~(<<y, x>> \in R)
  BY <1>2, WFMin
<1>4. ASSUME NEW y \in T PROVE x <= y
  <2>1. <<y, x>> \in Nat \X Nat /\ <<y, x>>[1] = y /\ <<y, x>>[2] = x
    OBVIOUS
  <2>2. ~(y < x)
    BY <1>1, <1>3, <2>1
  <2> QED
    BY <2>2
<1> QED
  BY <1>4

(* The loop of Only has a result for every line.                           *)
LEMMA OnlyExists ==
    ASSUME NEW A, NEW s \in Seq(A), NEW S
    PROVE  \E left : left = [i \in 0 .. Len(s) |->
                               IF i = 0 THEN <<>>
                               ELSE IF s[i] \in S THEN Append(left[i - 1], s[i]) ELSE left[i - 1]]
<1> DEFINE Run(n, left) == left = [i \in 0 .. n |->
                               IF i = 0 THEN <<>>
                               ELSE IF s[i] \in S THEN Append(left[i - 1], s[i]) ELSE left[i - 1]]
           T == {n \in Nat : ~\E left : Run(n, left)}
<1>1. ASSUME T # {} PROVE FALSE
  <2>1. PICK n \in T : \A y \in T : n <= y
    BY <1>1, LeastOf
  <2>2. n # 0
    <3>1. Run(0, [i \in 0 .. 0 |-> <<>>])
      OBVIOUS
    <3> QED
      BY <2>1, <3>1
  <2>3. n - 1 \in Nat /\ n - 1 \notin T
    <3>1. n \in Nat
      BY <2>1
    <3> HIDE DEF T
    <3> QED
      BY <2>1, <2>2, <3>1
  <2>4. PICK left : Run(n - 1, left)
    BY <2>3
  <2> DEFINE next == [i \in 0 .. n |->
                        IF i = n
                        THEN IF s[n] \in S THEN Append(left[n - 1], s[n]) ELSE left[n - 1]
                        ELSE left[i]]
  <2>5. \A i \in 0 .. n - 1 : next[i] = left[i]
    BY <2>1
  <2>6. \A i \in 0 .. n - 1 :
           left[i] = IF i = 0 THEN <<>>
                     ELSE IF s[i] \in S THEN Append(left[i - 1], s[i]) ELSE left[i - 1]
    BY <2>3, <2>4
  <2>7. ASSUME NEW i \in 0 .. n
        PROVE  next[i] = IF i = 0 THEN <<>>
                         ELSE IF s[i] \in S THEN Append(next[i - 1], s[i]) ELSE next[i - 1]
    <3>1. CASE i = n
      <4>1. next[n - 1] = left[n - 1]
        BY <2>2, <2>3, <2>5
      <4>2. next[n] = IF s[n] \in S THEN Append(left[n - 1], s[n]) ELSE left[n - 1]
        BY <2>1
      <4> HIDE DEF next
      <4> QED
        BY <2>2, <3>1, <4>1, <4>2
    <3>2. CASE i # n
      <4>1. i \in 0 .. n - 1 /\ (i # 0 => i - 1 \in 0 .. n - 1)
        BY <2>1, <3>2
      <4> HIDE DEF next
      <4> QED
        BY <2>5, <2>6, <4>1
    <3> QED
      BY <3>1, <3>2
  <2>8. Run(n, next)
    <3>1. next = [i \in 0 .. n |-> next[i]]
      OBVIOUS
    <3> HIDE DEF next
    <3> QED
      BY <2>7, <3>1
  <2> QED
    BY <2>1, <2>8
<1>2. Len(s) \in Nat
  OBVIOUS
<1> QED
  BY <1>1, <1>2

(* Only keeps the members of S and nothing else, keeps their number down,  *)
(* and brings in no duplicate.                                             *)
LEMMA OnlyFacts ==
    ASSUME NEW A, NEW s \in Seq(A), NEW S
    PROVE  /\ Only(s, S) \in Seq(A)
           /\ Len(Only(s, S)) <= Len(s)
           /\ Elements(Only(s, S)) = Elements(s) \cap S
           /\ Distinct(s) => Distinct(Only(s, S))
<1> DEFINE Rule(left) == left = [i \in 0 .. Len(s) |->
                               IF i = 0 THEN <<>>
                               ELSE IF s[i] \in S THEN Append(left[i - 1], s[i]) ELSE left[i - 1]]
           left == CHOOSE f : Rule(f)
<1>1. Rule(left)
  <2>1. \E f : Rule(f)
    BY OnlyExists
  <2> HIDE DEF Rule
  <2> QED
    BY <2>1
<1>2. Only(s, S) = left[Len(s)]
  BY DEF Only
<1>3. Len(s) \in Nat /\ DOMAIN s = 1 .. Len(s) /\ \A i \in 1 .. Len(s) : s[i] \in A
  BY LenProperties, ElementOfSeq
<1>4. /\ left[0] = <<>>
      /\ \A i \in 1 .. Len(s) :
            left[i] = IF s[i] \in S THEN Append(left[i - 1], s[i]) ELSE left[i - 1]
  <2> HIDE DEF left
  <2>1. 0 \in 0 .. Len(s)
    BY <1>3
  <2>2. \A i \in 1 .. Len(s) : i \in 0 .. Len(s) /\ i # 0
    BY <1>3
  <2> QED
    BY <1>1, <2>1, <2>2
<1> HIDE DEF left
<1> DEFINE Upto(i) == {s[j] : j \in 1 .. i}
           Good(i) == /\ left[i] \in Seq(A)
                      /\ Len(left[i]) <= i
                      /\ Elements(left[i]) = Upto(i) \cap S
                      /\ Distinct(s) => Distinct(left[i])
           T == {i \in 0 .. Len(s) : ~Good(i)}
<1>5. Good(0)
  BY <1>4 DEF Elements, Distinct
<1>6. ASSUME NEW i \in 1 .. Len(s), Good(i - 1) PROVE Good(i)
  <2>1. Upto(i) = Upto(i - 1) \cup {s[i]}
    <3>1. 1 .. i = (1 .. i - 1) \cup {i}
      BY <1>3
    <3> QED
      BY <3>1
  <2>2. CASE s[i] \notin S
    <3>1. left[i] = left[i - 1]
      BY <1>4, <2>2
    <3>2. Len(left[i - 1]) \in Nat
      BY <1>6, LenProperties
    <3> QED
      BY <1>6, <2>1, <2>2, <3>1, <3>2, <1>3
  <2>3. CASE s[i] \in S
    <3> DEFINE q == left[i - 1]
    <3>1. left[i] = Append(q, s[i]) /\ q \in Seq(A) /\ s[i] \in A
      BY <1>3, <1>4, <1>6, <2>3
    <3>1a. Len(q) <= i - 1 /\ Elements(q) = Upto(i - 1) \cap S /\ (Distinct(s) => Distinct(q))
      BY <1>6
    <3> HIDE DEF q, Upto
    <3>2. /\ Append(q, s[i]) \in Seq(A)
          /\ Len(Append(q, s[i])) = Len(q) + 1
          /\ \A j \in 1 .. Len(q) : Append(q, s[i])[j] = q[j]
          /\ Append(q, s[i])[Len(q) + 1] = s[i]
          /\ Len(q) \in Nat /\ DOMAIN q = 1 .. Len(q)
          /\ DOMAIN Append(q, s[i]) = 1 .. (Len(q) + 1)
      BY <3>1, AppendProperties, LenProperties
    <3>3. 1 .. (Len(q) + 1) = (1 .. Len(q)) \cup {Len(q) + 1}
      BY <3>2
    <3>4. Elements(left[i]) = Elements(q) \cup {s[i]}
      BY <3>1, <3>2, <3>3 DEF Elements
    <3>5. Elements(left[i]) = Upto(i) \cap S
      BY <2>1, <2>3, <3>1a, <3>4
    <3>6. ASSUME Distinct(s) PROVE Distinct(left[i])
      <4>1. s[i] \notin Elements(q)
        <5>1. s[i] \notin Upto(i - 1)
          BY <1>3, <3>6 DEF Upto, Distinct
        <5> QED
          BY <3>1a, <5>1
      <4>2. \A j \in 1 .. Len(q) : q[j] # s[i]
        BY <3>2, <4>1 DEF Elements
      <4> QED
        BY <3>1, <3>1a, <3>2, <3>3, <3>6, <4>2 DEF Distinct
    <3>7. Len(left[i]) <= i
      BY <3>1, <3>1a, <3>2, <1>3
    <3> QED
      BY <3>1, <3>2, <3>5, <3>6, <3>7
  <2> QED
    BY <2>2, <2>3
<1> HIDE DEF Good
<1>7. T = {}
  <2> SUFFICES ASSUME T # {} PROVE FALSE
    OBVIOUS
  <2>1. T \in SUBSET Nat
    BY <1>3
  <2>2. PICK i \in T : \A y \in T : i <= y
    BY <2>1, LeastOf
  <2>3. i # 0 /\ i \in 0 .. Len(s)
    BY <1>5, <2>2
  <2>4. i \in 1 .. Len(s) /\ i - 1 \in 0 .. Len(s)
    BY <1>3, <2>3
  <2>5. Good(i - 1)
    BY <2>1, <2>2, <2>4
  <2> QED
    BY <1>6, <2>2, <2>4, <2>5
<1>8. Good(Len(s))
  BY <1>3, <1>7
<1>9. Upto(Len(s)) = Elements(s)
  BY <1>3 DEF Elements
<1> QED
  BY <1>2, <1>8, <1>9 DEF Good

-----------------------------------------------------------------------------
(* Tickets.                                                                *)

TicketRows ==
    [user : Users, status : {"queued", "found", "cancelled"},
     room : Rooms \cup {None}, match : 0 .. MaxMatches, need : Sizes]

(* What the assumptions say of the constants, one by one.                  *)
LEMMA ConstantFacts ==
    /\ MaxPlayers \in Nat /\ MaxTickets \in Nat /\ MaxRooms \in Nat /\ MaxMatches \in Nat
    /\ MaxFaults \in Nat /\ MaxCrashes \in Nat /\ MaxRestarts \in Nat
    /\ Sizes \subseteq 1 .. MaxPlayers /\ Sizes \subseteq 2 .. MaxPlayers /\ 0 \notin Sizes /\ Sizes \subseteq Nat
    /\ NoUser \notin Users
BY LobbyAssumptions

(* A match needs two players at least.                                     *)
LEMMA SizeFacts == \A n \in Sizes : n \in Nat /\ n >= 1 /\ n > 1 /\ n <= MaxPlayers
BY ConstantFacts

(* A ticket is NoTicket or a row with a user.                              *)
LEMMA TicketFacts ==
    ASSUME NEW k \in TicketRecords
    PROVE  /\ k = NoTicket \/ k \in TicketRows
           /\ k # NoTicket <=> k \in TicketRows
           /\ k # NoTicket <=> k.user \in Users
           /\ k = NoTicket => /\ k.user = NoUser /\ k.status = "none" /\ k.room = None
                              /\ k.match = None /\ k.need = 0
           /\ k.status \in {"queued", "found", "cancelled"} => k \in TicketRows
           /\ k.match \in 0 .. MaxMatches /\ k.room \in Rooms \cup {None}
           /\ k.need \in Sizes \cup {0}
<1>1. k = NoTicket \/ k \in TicketRows
  BY DEF TicketRecords, TicketRows
<1>2. ASSUME k = NoTicket
      PROVE  /\ k.user = NoUser /\ k.status = "none" /\ k.room = None
             /\ k.match = None /\ k.need = 0
  BY <1>2 DEF NoTicket
<1>3. ASSUME k \in TicketRows
      PROVE  /\ k.user \in Users /\ k.match \in 0 .. MaxMatches
             /\ k.room \in Rooms \cup {None} /\ k.need \in Sizes
  BY <1>3 DEF TicketRows
<1>4. 0 \in 0 .. MaxMatches
  BY ConstantFacts
<1>5. CASE k = NoTicket
  <2>1. k \notin TicketRows
    BY <1>2, <1>3, <1>5, ConstantFacts
  <2> QED
    BY <1>2, <1>4, <1>5, <2>1, ConstantFacts DEF None
<1>6. CASE k \in TicketRows
  <2>1. k # NoTicket
    BY <1>2, <1>3, <1>6, ConstantFacts
  <2> QED
    BY <1>3, <1>6, <2>1
<1> QED
  BY <1>1, <1>5, <1>6

(* A new ticket is a row.                                                  *)
LEMMA QueuedFacts ==
    ASSUME NEW u \in Users, NEW r \in Rooms \cup {None}, NEW n \in Sizes
    PROVE  /\ Queued(u, r, n) \in TicketRecords
           /\ Queued(u, r, n) \in TicketRows
           /\ Queued(u, r, n) # NoTicket
           /\ Queued(u, r, n).user = u /\ Queued(u, r, n).status = "queued"
           /\ Queued(u, r, n).room = r /\ Queued(u, r, n).match = None
           /\ Queued(u, r, n).need = n
<1>1. None \in 0 .. MaxMatches
  BY ConstantFacts DEF None
<1>2. Queued(u, r, n) \in TicketRows
  BY <1>1 DEF Queued, TicketRows
<1>3. Queued(u, r, n) \in TicketRecords
  BY <1>2 DEF TicketRecords, TicketRows
<1>4. Queued(u, r, n) # NoTicket
  BY <1>2, <1>3, TicketFacts
<1> QED
  BY <1>2, <1>3, <1>4 DEF Queued

(* Stamping, cancelling and resizing a row make a row of the same user.    *)
LEMMA RewriteFacts ==
    ASSUME NEW k \in TicketRecords, k # NoTicket
    PROVE  /\ \A m \in 0 .. MaxMatches :
                 /\ Stamp(k, m) \in TicketRecords /\ Stamp(k, m) # NoTicket
                 /\ Stamp(k, m).user = k.user /\ Stamp(k, m).status = "found"
                 /\ Stamp(k, m).match = m
           /\ LET c == [k EXCEPT !.status = "cancelled"]
              IN c \in TicketRecords /\ c # NoTicket /\ c.user = k.user
                 /\ c.status = "cancelled" /\ c.match = k.match
           /\ \A n \in Sizes :
                 LET c == [k EXCEPT !.need = n]
                 IN c \in TicketRecords /\ c # NoTicket /\ c.user = k.user
                    /\ c.status = k.status /\ c.match = k.match /\ c.room = k.room /\ c.need = n
<1>1. k \in TicketRows
  BY TicketFacts
<1>2. \A c \in TicketRows : c \in TicketRecords /\ c # NoTicket
  <2>1. \A c \in TicketRows : c \in TicketRecords
    BY DEF TicketRecords, TicketRows
  <2> QED
    BY <2>1, TicketFacts
<1>3. ASSUME NEW m \in 0 .. MaxMatches
      PROVE  /\ Stamp(k, m) \in TicketRows
             /\ Stamp(k, m).user = k.user /\ Stamp(k, m).status = "found"
             /\ Stamp(k, m).match = m
  BY <1>1 DEF TicketRows, Stamp
<1>4. LET c == [k EXCEPT !.status = "cancelled"]
      IN c \in TicketRows /\ c.user = k.user /\ c.status = "cancelled" /\ c.match = k.match
  BY <1>1 DEF TicketRows
<1>5. ASSUME NEW n \in Sizes
      PROVE  LET c == [k EXCEPT !.need = n]
             IN c \in TicketRows /\ c.user = k.user
                /\ c.status = k.status /\ c.match = k.match /\ c.room = k.room /\ c.need = n
  BY <1>1 DEF TicketRows
<1> QED
  BY <1>2, <1>3, <1>4, <1>5

(* The part of it about stamping, for one match.                           *)
LEMMA StampRow ==
    ASSUME NEW k \in TicketRecords, k # NoTicket, NEW m \in 0 .. MaxMatches
    PROVE  /\ Stamp(k, m) \in TicketRecords /\ Stamp(k, m) # NoTicket
           /\ Stamp(k, m).user = k.user /\ Stamp(k, m).status = "found" /\ Stamp(k, m).match = m
BY RewriteFacts

(* A lookup answers with a ticket, from the cache when it is there.        *)
LEMMA LookFacts ==
    ASSUME Types, NEW t \in Tickets
    PROVE  /\ Look(t) \in TicketRecords
           /\ Look(t) \in {NoTicket, mem[t], db[t]}
           /\ mem[t] \in TicketRecords /\ db[t] \in TicketRecords
           /\ mem[t] # NoTicket => Look(t) = mem[t]
BY DEF Types, Look, TicketRecords

-----------------------------------------------------------------------------
(* What can go wrong in a handler.                                         *)

(* The outcomes a handler of n writes may have.                            *)
LEMMA OutcomeFacts ==
    ASSUME Types, NEW n \in Nat, NEW f \in Outcomes(n)
    PROVE  /\ f.at \in 0 .. n
           /\ f.at = 0 <=> f.how = "ok"
           /\ f.how \in {"ok", "lost", "unknown", "crash"}
           /\ f.how \in {"lost", "unknown"} => faults < MaxFaults
           /\ f.how = "crash" => crashes < MaxCrashes
           /\ f.how = "ok" => f = AllWell
<1>1. \/ f = AllWell
      \/ f \in [at : 1 .. n, how : {"lost", "unknown"}] /\ faults < MaxFaults
      \/ f \in [at : 1 .. n, how : {"crash"}] /\ crashes < MaxCrashes
  BY DEF Outcomes
<1>2. CASE f = AllWell
  BY <1>2 DEF AllWell
<1>3. CASE f \in [at : 1 .. n, how : {"lost", "unknown"}] /\ faults < MaxFaults
  BY <1>3
<1>4. CASE f \in [at : 1 .. n, how : {"crash"}] /\ crashes < MaxCrashes
  BY <1>4
<1> QED
  BY <1>1, <1>2, <1>3, <1>4

(* What a handler leaves in memory is well shaped when what it meant to    *)
(* leave is, and only a handler that all went well for leaves a calm state. *)
LEMMA FinishFacts ==
    ASSUME Types, NEW n \in Nat, NEW f \in Outcomes(n),
           NEW M \in [Tickets -> TicketRecords], NEW Q \in Seq(Tickets),
           \A i \in DOMAIN Q : M[Q[i]] # NoTicket,
           Finish(f, M, missing, Q)
    PROVE  /\ mem' \in [Tickets -> TicketRecords] /\ missing' \in SUBSET Tickets
           /\ queue' \in Seq(Tickets) /\ online' \in SUBSET Users
           /\ faults' \in 0 .. MaxFaults /\ crashes' \in 0 .. MaxCrashes
           /\ restarts' \in 0 .. MaxRestarts
           /\ QueueInv'
           /\ \A t \in Tickets : mem'[t] \in {NoTicket, M[t]}
           /\ NoFault' => NoFault /\ f.how \in {"ok", "crash"}
           /\ Calm' => /\ Calm /\ f = AllWell
                       /\ mem' = M /\ missing' = missing /\ queue' = Q
                       /\ online' = online /\ restarts' = restarts
<1>1. /\ f.how \in {"ok", "lost", "unknown", "crash"}
      /\ f.how \in {"lost", "unknown"} => faults < MaxFaults
      /\ f.how = "crash" => crashes < MaxCrashes
      /\ f.how = "ok" => f = AllWell
  BY OutcomeFacts
<1>2. /\ faults \in 0 .. MaxFaults /\ crashes \in 0 .. MaxCrashes
      /\ restarts \in 0 .. MaxRestarts /\ missing \in SUBSET Tickets /\ online \in SUBSET Users
  BY DEF Types
<1>3. EmptyCache \in [Tickets -> TicketRecords] /\ \A t \in Tickets : EmptyCache[t] = NoTicket
  BY DEF EmptyCache, TicketRecords
<1>4. /\ faults' = IF f.how \in {"lost", "unknown"} THEN faults + 1 ELSE faults
      /\ crashes' = IF f.how = "crash" THEN crashes + 1 ELSE crashes
      /\ restarts' = restarts
  BY DEF Finish
<1>5. CASE f.how = "crash"
  <2>1. mem' = EmptyCache /\ missing' = {} /\ queue' = <<>> /\ online' = {}
    BY <1>5 DEF Finish
  <2>2. queue' \in Seq(Tickets) /\ QueueInv'
    BY <2>1 DEF QueueInv
  <2>3. faults' = faults /\ crashes' = crashes + 1 /\ crashes' \in 0 .. MaxCrashes /\ crashes' # 0
    BY <1>1, <1>2, <1>4, <1>5, ConstantFacts
  <2> QED
    BY <1>2, <1>3, <1>4, <1>5, <2>1, <2>2, <2>3 DEF NoFault, Calm
<1>6. CASE f.how # "crash"
  <2>1. mem' = M /\ missing' = missing /\ queue' = Q /\ online' = online /\ crashes' = crashes
    BY <1>6 DEF Finish
  <2>2. QueueInv'
    BY <2>1 DEF QueueInv
  <2>3. faults' \in 0 .. MaxFaults /\ (faults' = 0 => f.how = "ok" /\ faults = 0)
    BY <1>1, <1>2, <1>4, <1>6, ConstantFacts
  <2> QED
    BY <1>1, <1>2, <1>4, <2>1, <2>2, <2>3 DEF NoFault, Calm
<1> QED
  BY <1>5, <1>6

-----------------------------------------------------------------------------
(* The shape of the state, whatever goes wrong.                            *)

Rosters == [users : SUBSET Users, size : Sizes]

MemoryShape ==
    /\ mem \in [Tickets -> TicketRecords] /\ missing \in SUBSET Tickets
    /\ queue \in Seq(Tickets) /\ online \in SUBSET Users
    /\ faults \in 0 .. MaxFaults /\ crashes \in 0 .. MaxCrashes
    /\ restarts \in 0 .. MaxRestarts
    /\ QueueInv

StoreShape ==
    /\ db \in [Tickets -> TicketRecords]
    /\ rooms \in [Rooms -> RoomRecords]
    /\ members \in [Rooms -> [Users -> Tickets \cup {None}]]
    /\ minted \in 0 .. MaxTickets
    /\ opened \in 0 .. MaxRooms
    /\ rosters \in Seq(Rosters)

FreshTickets == \A t \in Tickets : t > minted => mem[t] = NoTicket /\ db[t] = NoTicket

(* No handler drops a row, a roster or an id.                              *)
Keeps ==
    /\ \A t \in Tickets : db[t] # NoTicket => db'[t] # NoTicket
    /\ minted <= minted' /\ opened <= opened' /\ Len(rosters) <= Len(rosters')
    /\ NoFault' => NoFault

GoodRoom(r) ==
    /\ r <= opened
    /\ RoomInv(r)
    /\ NoFault /\ rooms[r].status = "waiting" => \A t \in Elements(rooms[r].seats) : db[t] # NoTicket

(* The shape of all variables, taken apart.                                *)
LEMMA ShapeParts ==
    ASSUME ShapeInv
    PROVE  /\ MemoryShape /\ StoreShape /\ FreshTickets
           /\ \A r \in Rooms : r <= opened => GoodRoom(r)
           /\ \A r \in Rooms : rooms[r] \in RoomRecords /\ r \in Nat
           /\ Len(rosters) \in Nat /\ minted \in Nat /\ opened \in Nat
<1>1. Types /\ FreshInv /\ QueueInv /\ (\A r \in Rooms : RoomInv(r)) /\ NoGhostSeat
  BY DEF ShapeInv
<1>2. MemoryShape /\ StoreShape /\ FreshTickets
  BY <1>1 DEF MemoryShape, StoreShape, FreshTickets, FreshInv, Types, Rosters
<1>3. \A r \in Rooms : r <= opened => GoodRoom(r)
  BY <1>1 DEF GoodRoom, NoGhostSeat, Waiting, SeatsIn
<1>4. \A r \in Rooms : rooms[r] \in RoomRecords /\ r \in Nat
  BY <1>2, ConstantFacts DEF StoreShape, Rooms
<1>5. Len(rosters) \in Nat /\ minted \in Nat /\ opened \in Nat
  BY <1>2, ConstantFacts, LenProperties DEF StoreShape
<1> QED
  BY <1>2, <1>3, <1>4, <1>5

(* A room that a step leaves alone stays as it was.                        *)
LEMMA RoomKept ==
    ASSUME ShapeInv, Keeps, minted' \in Nat, Len(rosters') \in Nat, NEW r \in Rooms,
           rooms'[r] = rooms[r]
    PROVE  /\ RoomInv(r)'
           /\ NoFault' /\ rooms'[r].status = "waiting" =>
                 \A t \in Elements(rooms'[r].seats) : db'[t] # NoTicket
<1>1. /\ RoomInv(r) /\ rooms[r] \in RoomRecords
      /\ NoFault /\ rooms[r].status = "waiting" => \A t \in Elements(rooms[r].seats) : db[t] # NoTicket
  BY ShapeParts DEF ShapeInv, NoGhostSeat, Waiting, SeatsIn
<1>2. Len(rosters) \in Nat /\ minted \in Nat /\ rooms[r].match \in Nat
  BY <1>1, ShapeParts DEF RoomRecords
<1>3. /\ Elements(rooms[r].seats) \subseteq 1 .. minted'
      /\ Elements(rooms[r].seats) \subseteq Tickets
  <2>1. Elements(rooms[r].seats) \subseteq 1 .. minted /\ minted <= minted' /\ minted \in 0 .. MaxTickets
    BY <1>1, ShapeParts DEF Keeps, RoomInv, StoreShape
  <2> QED
    BY <1>2, <2>1, ConstantFacts DEF Tickets
<1>4. RoomInv(r)'
  BY <1>1, <1>2, <1>3 DEF RoomInv, Keeps
<1> QED
  BY <1>1, <1>3, <1>4 DEF Keeps

(* A step that leaves memory and store well shaped, drops nothing and      *)
(* rewrites rooms well keeps the invariant.                                *)
LEMMA ShapeFromParts ==
    ASSUME ShapeInv, MemoryShape', StoreShape', FreshTickets', Keeps,
           \A r \in Rooms : rooms'[r] = rooms[r] \/ GoodRoom(r)'
    PROVE  ShapeInv'
<1>1. Types' /\ QueueInv'
  BY DEF MemoryShape, StoreShape, Types, Rosters
<1>2. minted' \in Nat /\ Len(rosters') \in Nat /\ opened' \in Nat /\ opened \in Nat
  BY ShapeParts, ConstantFacts, LenProperties DEF StoreShape
<1>3. \A r \in Rooms : /\ RoomInv(r)'
                       /\ NoFault' /\ rooms'[r].status = "waiting" =>
                             \A t \in Elements(rooms'[r].seats) : db'[t] # NoTicket
  BY <1>2, RoomKept DEF GoodRoom
<1>4. NoGhostSeat'
  BY <1>3 DEF NoGhostSeat, Waiting, SeatsIn
<1>5. ASSUME NEW r \in Rooms, r > opened' PROVE rooms'[r] = NoRoom
  <2>1. r > opened /\ ~(r <= opened')
    BY <1>2, <1>5, ShapeParts DEF Keeps
  <2>2. rooms[r] = NoRoom
    BY <2>1 DEF ShapeInv, FreshInv
  <2> QED
    BY <2>1, <2>2 DEF GoodRoom
<1>6. FreshInv'
  BY <1>5 DEF FreshInv, FreshTickets
<1> QED
  BY <1>1, <1>3, <1>4, <1>6 DEF ShapeInv

(* The tickets a match stamps.                                             *)
LEMMA StampFacts ==
    ASSUME NEW old \in [Tickets -> TicketRecords], NEW table \in [Tickets -> TicketRecords],
           NEW g, NEW b, NEW f, NewMatch \in 0 .. MaxMatches
    PROVE  /\ StampStore(old, table, g, b, f) \in [Tickets -> TicketRecords]
           /\ StampMemory(old, table, g, b, f) \in [Tickets -> TicketRecords]
           /\ \A t \in Tickets :
                 /\ table[t] = NoTicket =>
                       /\ StampStore(old, table, g, b, f)[t] = old[t]
                       /\ StampMemory(old, table, g, b, f)[t] = old[t]
                 /\ old[t] # NoTicket =>
                       /\ StampStore(old, table, g, b, f)[t] # NoTicket
                       /\ StampMemory(old, table, g, b, f)[t] # NoTicket
<1> DEFINE SS == StampStore(old, table, g, b, f)
           SM == StampMemory(old, table, g, b, f)
<1>1. ASSUME NEW t \in Tickets
      PROVE  /\ SS[t] \in {old[t]} \/ (table[t] # NoTicket /\ SS[t] = Stamp(table[t], NewMatch))
             /\ SM[t] \in {old[t]} \/ (table[t] # NoTicket /\ SM[t] = Stamp(table[t], NewMatch))
  BY DEF StampStore, StampMemory
<1>2. SS = [t \in Tickets |-> SS[t]] /\ SM = [t \in Tickets |-> SM[t]]
  BY DEF StampStore, StampMemory
<1> HIDE DEF SS, SM
<1>3. ASSUME NEW t \in Tickets, table[t] # NoTicket
      PROVE  Stamp(table[t], NewMatch) \in TicketRecords /\ Stamp(table[t], NewMatch) # NoTicket
  <2>1. table[t] \in TicketRecords
    OBVIOUS
  <2>2. \A m \in 0 .. MaxMatches : Stamp(table[t], m) \in TicketRecords /\ Stamp(table[t], m) # NoTicket
    BY <1>3, <2>1, RewriteFacts
  <2> QED
    BY <2>2
<1>4. ASSUME NEW t \in Tickets
      PROVE  /\ SS[t] \in TicketRecords /\ SM[t] \in TicketRecords
             /\ table[t] = NoTicket => SS[t] = old[t] /\ SM[t] = old[t]
             /\ old[t] # NoTicket => SS[t] # NoTicket /\ SM[t] # NoTicket
  BY <1>1, <1>3
<1>5. SS \in [Tickets -> TicketRecords] /\ SM \in [Tickets -> TicketRecords]
  BY <1>2, <1>4
<1> QED
  BY <1>4, <1>5 DEF SS, SM

(* A match is entered with players of this process.                        *)
LEMMA EnterFacts ==
    ASSUME ShapeInv, NEW table, NEW g, NEW size \in Sizes, Enter(table, g, size)
    PROVE  /\ rosters' \in Seq(Rosters) /\ Len(rosters') = Len(rosters) + 1
           /\ rosters'[Len(rosters) + 1] = [users |-> RosterOf(table, g), size |-> size]
           /\ \A m \in DOMAIN rosters : rosters'[m] = rosters[m]
           /\ DOMAIN rosters' = DOMAIN rosters \cup {Len(rosters) + 1}
           /\ NewMatch = Len(rosters) + 1 /\ NewMatch \in 1 .. MaxMatches
           /\ NewMatch \in 0 .. MaxMatches /\ NewMatch \in Nat /\ NewMatch >= 1
           /\ NewMatch = Len(rosters') /\ Len(rosters') \in Nat
           /\ Len(rosters) <= Len(rosters')
<1> DEFINE e == [users |-> RosterOf(table, g), size |-> size]
<1>1. rosters \in Seq(Rosters) /\ online \in SUBSET Users /\ Len(rosters) \in Nat
  BY ShapeParts DEF StoreShape, MemoryShape
<1>2. RosterOf(table, g) \in SUBSET Users
  BY <1>1 DEF RosterOf
<1>3. e \in Rosters
  BY <1>2 DEF Rosters
<1>4. rosters' = Append(rosters, e) /\ NewMatch <= MaxMatches /\ NewMatch = Len(rosters) + 1
  BY DEF Enter, NewMatch
<1>5. e = [users |-> RosterOf(table, g), size |-> size]
  OBVIOUS
<1> HIDE DEF e
<1>6. /\ rosters' \in Seq(Rosters) /\ Len(rosters') = Len(rosters) + 1
      /\ \A i \in 1 .. Len(rosters) : rosters'[i] = rosters[i]
      /\ rosters'[Len(rosters) + 1] = e
  BY <1>1, <1>3, <1>4, AppendProperties
<1>7. DOMAIN rosters = 1 .. Len(rosters) /\ DOMAIN rosters' = 1 .. (Len(rosters) + 1)
  BY <1>1, <1>6, LenProperties
<1>8. 1 .. (Len(rosters) + 1) = (1 .. Len(rosters)) \cup {Len(rosters) + 1}
  BY <1>1
<1>9. /\ NewMatch \in 1 .. MaxMatches /\ NewMatch \in 0 .. MaxMatches
      /\ NewMatch \in Nat /\ NewMatch >= 1 /\ Len(rosters) <= Len(rosters) + 1
  BY <1>1, <1>4, ConstantFacts
<1> QED
  BY <1>1, <1>4, <1>5, <1>6, <1>7, <1>8, <1>9

(* The next ticket id is unused.                                           *)
LEMMA NextTicket ==
    ASSUME ShapeInv, minted < MaxTickets
    PROVE  /\ minted + 1 \in Tickets /\ minted + 1 \in 0 .. MaxTickets
           /\ mem[minted + 1] = NoTicket /\ db[minted + 1] = NoTicket
           /\ Look(minted + 1) = NoTicket
           /\ minted <= minted + 1
           /\ \A x \in Tickets : x > minted + 1 =>
                 x # minted + 1 /\ mem[x] = NoTicket /\ db[x] = NoTicket /\ Look(x) = NoTicket
<1>1. minted \in 0 .. MaxTickets /\ minted \in Nat /\ FreshTickets
  BY ShapeParts DEF StoreShape
<1>2. minted + 1 \in Tickets /\ minted + 1 \in 0 .. MaxTickets /\ minted + 1 > minted
  BY <1>1, ConstantFacts DEF Tickets
<1>3. \A x \in Tickets : x > minted => mem[x] = NoTicket /\ db[x] = NoTicket /\ Look(x) = NoTicket
  BY <1>1 DEF FreshTickets, Look
<1>4. \A x \in Tickets : x > minted + 1 => x > minted /\ x # minted + 1
  BY <1>1, ConstantFacts DEF Tickets
<1> QED
  BY <1>1, <1>2, <1>3, <1>4

(* A new ticket written to a table of tickets.                             *)
LEMMA WithNew ==
    ASSUME ShapeInv, minted < MaxTickets, NEW k \in TicketRecords, k # NoTicket,
           NEW old \in [Tickets -> TicketRecords]
    PROVE  LET new == [old EXCEPT ![minted + 1] = k]
           IN /\ new \in [Tickets -> TicketRecords]
              /\ new[minted + 1] = k
              /\ \A x \in Tickets : x # minted + 1 => new[x] = old[x]
              /\ \A x \in Tickets : old[x] # NoTicket => new[x] # NoTicket
BY NextTicket

(* The tickets as a handler that adds one sees them.                       *)
LEMMA TableFacts ==
    ASSUME ShapeInv, minted < MaxTickets, NEW k \in TicketRecords
    PROVE  LET table == [x \in Tickets |-> IF x = minted + 1 THEN k ELSE Look(x)]
           IN /\ table \in [Tickets -> TicketRecords]
              /\ table[minted + 1] = k
              /\ \A x \in Tickets : x # minted + 1 => table[x] = Look(x)
<1>1. \A x \in Tickets : Look(x) \in TicketRecords
  BY LookFacts DEF ShapeInv
<1>2. minted + 1 \in Tickets
  BY NextTicket
<1> QED
  BY <1>1, <1>2

(* A handler that adds one ticket and leaves the rooms alone.              *)
LEMMA JoinQueueShape ==
    ASSUME ShapeInv, NEW u \in Users, NEW n \in Sizes, JoinQueue(u, n)
    PROVE  ShapeInv'
<1> DEFINE t == minted + 1
           tk == Queued(u, None, n)
           line == Append(queue, t)
           table == [x \in Tickets |-> IF x = t THEN tk ELSE Look(x)]
           need == table[line[1]].need
           group == Group(line, need)
           mem1 == [mem EXCEPT ![t] = tk]
           db1 == [db EXCEPT ![t] = tk]
<1>1. minted < MaxTickets /\ minted' = t /\ UNCHANGED <<rooms, members, opened>>
  BY DEF JoinQueue
<1>2. \/ /\ \E f \in Outcomes(1) :
               /\ db' = IF Passed(f, 1) THEN db1 ELSE db
               /\ Finish(f, IF Passed(f, 1) THEN mem1 ELSE mem,
                         missing, IF Passed(f, 1) THEN line ELSE queue)
         /\ UNCHANGED rosters
      \/ /\ Len(line) >= need
         /\ \E f \in Outcomes(need + 2) :
               IF Passed(f, 1)
               THEN /\ Enter(table, group, need)
                    /\ db' = StampStore(db1, table, group, 1, f)
                    /\ Finish(f, StampMemory(mem1, table, group, 1, f), missing,
                              SubSeq(line, need + 1, Len(line)))
               ELSE /\ Finish(f, mem, missing, queue)
                    /\ UNCHANGED <<db, rosters>>
  BY <1>1 DEF JoinQueue
<1>3. /\ tk \in TicketRecords /\ tk # NoTicket /\ tk.need = n
  BY QueuedFacts
<1>4. /\ Types /\ MemoryShape /\ StoreShape /\ FreshTickets /\ Len(rosters) \in Nat
      /\ minted \in Nat /\ opened \in Nat
  BY ShapeParts DEF ShapeInv
<1>5. /\ mem \in [Tickets -> TicketRecords] /\ db \in [Tickets -> TicketRecords]
      /\ queue \in Seq(Tickets) /\ \A i \in DOMAIN queue : mem[queue[i]] # NoTicket
  BY <1>4 DEF MemoryShape, StoreShape, QueueInv
<1>6. t \in Tickets /\ t \in 0 .. MaxTickets /\ minted <= t /\ mem[t] = NoTicket /\ db[t] = NoTicket
  BY <1>1, NextTicket
<1>6a. \A x \in Tickets : x > t => x # t /\ mem[x] = NoTicket /\ db[x] = NoTicket /\ Look(x) = NoTicket
  BY <1>1, NextTicket
<1>7. /\ mem1 \in [Tickets -> TicketRecords] /\ mem1[t] = tk
      /\ \A x \in Tickets : x # t => mem1[x] = mem[x]
      /\ \A x \in Tickets : mem[x] # NoTicket => mem1[x] # NoTicket
      /\ db1 \in [Tickets -> TicketRecords]
      /\ \A x \in Tickets : x # t => db1[x] = db[x]
      /\ \A x \in Tickets : db[x] # NoTicket => db1[x] # NoTicket
  BY <1>1, <1>3, <1>5, WithNew
<1>8. /\ table \in [Tickets -> TicketRecords] /\ table[t] = tk
      /\ \A x \in Tickets : x # t => table[x] = Look(x)
  BY <1>1, <1>3, TableFacts
<1>8a. \A x \in Tickets : mem[x] # NoTicket => Look(x) # NoTicket
  BY <1>4, LookFacts
<1> HIDE DEF t, tk, table, group, mem1, db1
<1>9. /\ line \in Seq(Tickets) /\ Len(line) = Len(queue) + 1 /\ Len(line) \in Nat
      /\ DOMAIN line = 1 .. Len(line)
      /\ \A i \in 1 .. Len(queue) : line[i] = queue[i]
      /\ line[Len(queue) + 1] = t
      /\ Len(queue) \in Nat /\ DOMAIN queue = 1 .. Len(queue)
  BY <1>5, <1>6, AppendProperties, LenProperties
<1> HIDE DEF line
<1>10. \A i \in DOMAIN line : line[i] \in Tickets /\ mem1[line[i]] # NoTicket /\ table[line[i]] # NoTicket
  <2> SUFFICES ASSUME NEW i \in 1 .. Len(line)
               PROVE  line[i] \in Tickets /\ mem1[line[i]] # NoTicket /\ table[line[i]] # NoTicket
    BY <1>9
  <2>1. line[i] \in Tickets
    BY <1>9, ElementOfSeq
  <2>2. CASE i = Len(queue) + 1
    BY <1>3, <1>7, <1>8, <1>9, <2>2, <2>1
  <2>3. CASE i # Len(queue) + 1
    <3>1. i \in 1 .. Len(queue) /\ line[i] = queue[i] /\ mem[line[i]] # NoTicket
      BY <1>5, <1>9, <2>3
    <3>2. line[i] # t
      BY <1>6, <3>1
    <3> QED
      BY <1>7, <1>8, <1>8a, <2>1, <3>1, <3>2
  <2> QED
    BY <2>2, <2>3
<1>11. need \in Sizes /\ need \in Nat /\ need >= 1
  <2>1. 1 \in DOMAIN line
    BY <1>9
  <2>2. table[line[1]] \in TicketRecords /\ table[line[1]] # NoTicket
    BY <1>8, <1>10, <2>1
  <2>3. need \in Sizes
    BY <2>2, TicketFacts DEF TicketRows
  <2> HIDE DEF need
  <2> QED
    BY <2>3, ConstantFacts
<1> HIDE DEF need
<1> SUFFICES MemoryShape' /\ StoreShape' /\ FreshTickets' /\ Keeps
  BY <1>1, ShapeFromParts
<1>12. CASE /\ \E f \in Outcomes(1) :
                  /\ db' = IF Passed(f, 1) THEN db1 ELSE db
                  /\ Finish(f, IF Passed(f, 1) THEN mem1 ELSE mem,
                            missing, IF Passed(f, 1) THEN line ELSE queue)
            /\ UNCHANGED rosters
  <2>1. PICK f \in Outcomes(1) :
            /\ db' = IF Passed(f, 1) THEN db1 ELSE db
            /\ Finish(f, IF Passed(f, 1) THEN mem1 ELSE mem,
                      missing, IF Passed(f, 1) THEN line ELSE queue)
    BY <1>12
  <2> DEFINE M == IF Passed(f, 1) THEN mem1 ELSE mem
             Q == IF Passed(f, 1) THEN line ELSE queue
  <2>2. /\ M \in [Tickets -> TicketRecords] /\ Q \in Seq(Tickets)
        /\ \A i \in DOMAIN Q : M[Q[i]] # NoTicket
        /\ Finish(f, M, missing, Q)
        /\ \A x \in Tickets : x > t => M[x] = NoTicket
    BY <1>5, <1>6a, <1>7, <1>9, <1>10, <2>1
  <2> HIDE DEF M, Q
  <2>3. MemoryShape' /\ (NoFault' => NoFault) /\ \A x \in Tickets : mem'[x] \in {NoTicket, M[x]}
    <3>1. 1 \in Nat
      OBVIOUS
    <3> QED
      BY <1>4, <2>2, <3>1, FinishFacts DEF MemoryShape
  <2>4. StoreShape'
    BY <1>1, <1>4, <1>5, <1>6, <1>7, <1>12, <2>1 DEF StoreShape
  <2>5. FreshTickets'
    BY <1>1, <1>6a, <1>7, <2>1, <2>2, <2>3 DEF FreshTickets
  <2>6. Keeps
    BY <1>1, <1>4, <1>6, <1>7, <1>12, <2>1, <2>3 DEF Keeps
  <2> QED
    BY <2>3, <2>4, <2>5, <2>6
<1>13. CASE /\ Len(line) >= need
            /\ \E f \in Outcomes(need + 2) :
                  IF Passed(f, 1)
                  THEN /\ Enter(table, group, need)
                       /\ db' = StampStore(db1, table, group, 1, f)
                       /\ Finish(f, StampMemory(mem1, table, group, 1, f), missing,
                                 SubSeq(line, need + 1, Len(line)))
                  ELSE /\ Finish(f, mem, missing, queue)
                       /\ UNCHANGED <<db, rosters>>
  <2>1. PICK f \in Outcomes(need + 2) :
                  IF Passed(f, 1)
                  THEN /\ Enter(table, group, need)
                       /\ db' = StampStore(db1, table, group, 1, f)
                       /\ Finish(f, StampMemory(mem1, table, group, 1, f), missing,
                                 SubSeq(line, need + 1, Len(line)))
                  ELSE /\ Finish(f, mem, missing, queue)
                       /\ UNCHANGED <<db, rosters>>
    BY <1>13
  <2>2. need + 2 \in Nat
    BY <1>11
  <2>3. CASE Passed(f, 1)
    <3> DEFINE M == StampMemory(mem1, table, group, 1, f)
               Q == SubSeq(line, need + 1, Len(line))
    <3>1. /\ Enter(table, group, need) /\ Finish(f, M, missing, Q)
          /\ db' = StampStore(db1, table, group, 1, f)
      BY <2>1, <2>3
    <3>2. /\ rosters' \in Seq(Rosters) /\ Len(rosters) <= Len(rosters')
          /\ NewMatch \in 0 .. MaxMatches
      BY <1>11, <3>1, EnterFacts
    <3>3. /\ M \in [Tickets -> TicketRecords] /\ db' \in [Tickets -> TicketRecords]
          /\ \A x \in Tickets : /\ table[x] = NoTicket => M[x] = mem1[x] /\ db'[x] = db1[x]
                                /\ mem1[x] # NoTicket => M[x] # NoTicket
                                /\ db1[x] # NoTicket => db'[x] # NoTicket
      BY <1>7, <1>8, <3>1, <3>2, StampFacts
    <3> HIDE DEF M
    <3>4. \A i \in (need + 1) .. Len(line) : line[i] \in Tickets
      BY <1>9, <1>10, <1>11
    <3>5. Q \in Seq(Tickets) /\ \A i \in DOMAIN Q : \E j \in DOMAIN line : Q[i] = line[j]
      <4>1. Q \in Seq(Tickets)
        BY <1>9, <1>11, <3>4, SubSeqProperties
      <4>2. CASE need + 1 > Len(line)
        <5>1. Q = <<>>
          BY <1>9, <1>11, <4>2, SubSeqEmpty
        <5> HIDE DEF Q
        <5>2. DOMAIN Q = {}
          BY <5>1
        <5> QED
          BY <4>1, <5>2
      <4>3. CASE need + 1 <= Len(line)
        <5>1. /\ Len(Q) = Len(line) - need
              /\ \A i \in 1 .. (Len(line) - need) : Q[i] = line[need + i]
          BY <1>9, <1>11, <3>4, <4>3, SubSeqProperties
        <5>2. DOMAIN Q = 1 .. (Len(line) - need)
          BY <4>1, <5>1, LenProperties
        <5>3. \A i \in 1 .. (Len(line) - need) : need + i \in DOMAIN line
          BY <1>9, <1>11
        <5> QED
          BY <4>1, <5>1, <5>2, <5>3
      <4> QED
        BY <1>9, <1>11, <4>2, <4>3
    <3> HIDE DEF Q
    <3>6. \A i \in DOMAIN Q : M[Q[i]] # NoTicket
      BY <1>10, <3>3, <3>5
    <3>7. MemoryShape' /\ (NoFault' => NoFault) /\ \A x \in Tickets : mem'[x] \in {NoTicket, M[x]}
      BY <1>4, <2>2, <3>1, <3>3, <3>5, <3>6, FinishFacts DEF MemoryShape
    <3>8. StoreShape'
      BY <1>1, <1>4, <1>6, <3>2, <3>3 DEF StoreShape
    <3>9. FreshTickets'
      <4>1. \A x \in Tickets : x > t => table[x] = NoTicket /\ mem1[x] = NoTicket /\ db1[x] = NoTicket
        BY <1>6a, <1>7, <1>8
      <4> QED
        BY <1>1, <3>3, <3>7, <4>1 DEF FreshTickets
    <3>10. Keeps
      BY <1>1, <1>4, <1>6, <1>7, <3>2, <3>3, <3>7 DEF Keeps
    <3> QED
      BY <3>7, <3>8, <3>9, <3>10
  <2>4. CASE ~Passed(f, 1)
    <3>1. Finish(f, mem, missing, queue) /\ UNCHANGED <<db, rosters>>
      BY <2>1, <2>4
    <3>2. MemoryShape' /\ (NoFault' => NoFault) /\ \A x \in Tickets : mem'[x] \in {NoTicket, mem[x]}
      BY <1>4, <1>5, <2>2, <3>1, FinishFacts DEF MemoryShape
    <3>3. StoreShape'
      BY <1>1, <1>4, <1>6, <3>1 DEF StoreShape
    <3>4. FreshTickets'
      BY <1>1, <1>6a, <3>1, <3>2 DEF FreshTickets
    <3>5. Keeps
      BY <1>1, <1>4, <1>6, <3>1, <3>2 DEF Keeps
    <3> QED
      BY <3>2, <3>3, <3>4, <3>5
  <2> QED
    BY <2>3, <2>4
<1> QED
  BY <1>2, <1>12, <1>13

(* What is left to show of a handler once its writes are known.            *)
LEMMA HandlerShape ==
    ASSUME ShapeInv, NEW n \in Nat, NEW f \in Outcomes(n),
           NEW M \in [Tickets -> TicketRecords], NEW Q \in Seq(Tickets),
           \A i \in DOMAIN Q : M[Q[i]] # NoTicket,
           Finish(f, M, missing, Q),
           StoreShape',
           \A t \in Tickets : db[t] # NoTicket => db'[t] # NoTicket,
           \A t \in Tickets : t > minted' => M[t] = NoTicket /\ db'[t] = NoTicket,
           minted <= minted', opened <= opened', Len(rosters) <= Len(rosters'),
           \A r \in Rooms : rooms'[r] = rooms[r] \/ GoodRoom(r)'
    PROVE  ShapeInv'
<1>1. Types
  BY DEF ShapeInv
<1>2. MemoryShape' /\ (NoFault' => NoFault) /\ \A x \in Tickets : mem'[x] \in {NoTicket, M[x]}
  BY <1>1, FinishFacts DEF MemoryShape
<1>3. FreshTickets'
  BY <1>2 DEF FreshTickets
<1>4. Keeps
  BY <1>2 DEF Keeps
<1> QED
  BY <1>2, <1>3, <1>4, ShapeFromParts

(* Whether a handler's writes were lost is seen from the counters.         *)
LEMMA FaultFree ==
    ASSUME Types, NEW n \in Nat, NEW f \in Outcomes(n), NEW M, NEW Q,
           Finish(f, M, missing, Q), NoFault'
    PROVE  NoFault /\ f.how \in {"ok", "crash"}
<1>1. faults \in Nat /\ faults' = IF f.how \in {"lost", "unknown"} THEN faults + 1 ELSE faults
  BY ConstantFacts DEF Finish, Types
<1>2. f.how \in {"ok", "lost", "unknown", "crash"}
  BY OutcomeFacts
<1> QED
  BY <1>1, <1>2 DEF NoFault

(* Whatever its three writes do, CreateRoom keeps the shape.               *)
LEMMA CreateRoomShape ==
    ASSUME ShapeInv, NEW u \in Users, NEW n \in Sizes, CreateRoom(u, n)
    PROVE  ShapeInv'
<1> DEFINE t == minted + 1
           r == opened + 1
           tk == Queued(u, r, n)
           mem1 == [mem EXCEPT ![t] = tk]
           db1 == [db EXCEPT ![t] = tk]
           Fresh(f) == [status |-> IF Failed(f, 3) THEN "closed" ELSE "waiting",
                        seats |-> <<t>>, host |-> u, need |-> n, match |-> None]
<1>1. minted < MaxTickets /\ opened < MaxRooms /\ minted' = t /\ opened' = r /\ rosters' = rosters
  BY DEF CreateRoom
<1>2. PICK f \in Outcomes(3) :
         /\ db' = IF Kept(f) THEN db1 ELSE db
         /\ rooms' = IF Landed(f, 2) THEN [rooms EXCEPT ![r] = Fresh(f)] ELSE rooms
         /\ members' = IF Landed(f, 3) THEN [members EXCEPT ![r][u] = SeatRow(@, t)] ELSE members
         /\ Finish(f, IF Kept(f) THEN mem1 ELSE mem, missing, queue)
  BY <1>1 DEF CreateRoom
<1>3. /\ Types /\ MemoryShape /\ StoreShape /\ FreshTickets /\ Len(rosters) \in Nat
      /\ minted \in Nat /\ opened \in Nat
  BY ShapeParts DEF ShapeInv
<1>4. /\ mem \in [Tickets -> TicketRecords] /\ db \in [Tickets -> TicketRecords]
      /\ queue \in Seq(Tickets) /\ \A i \in DOMAIN queue : mem[queue[i]] # NoTicket
      /\ rooms \in [Rooms -> RoomRecords] /\ rosters \in Seq(Rosters)
      /\ members \in [Rooms -> [Users -> Tickets \cup {None}]]
  BY <1>3 DEF MemoryShape, StoreShape, QueueInv
<1>5. r \in Rooms /\ r \in 0 .. MaxRooms /\ opened <= r /\ r \in Nat
  BY <1>1, <1>3, ConstantFacts DEF Rooms
<1>6. tk \in TicketRecords /\ tk # NoTicket
  BY <1>5, QueuedFacts
<1>7. t \in Tickets /\ t \in 0 .. MaxTickets /\ minted <= t
  BY <1>1, NextTicket
<1>8. \A x \in Tickets : x > t => x # t /\ mem[x] = NoTicket /\ db[x] = NoTicket
  BY <1>1, NextTicket
<1>9. /\ mem1 \in [Tickets -> TicketRecords]
      /\ \A x \in Tickets : x # t => mem1[x] = mem[x]
      /\ \A x \in Tickets : mem[x] # NoTicket => mem1[x] # NoTicket
      /\ db1 \in [Tickets -> TicketRecords] /\ db1[t] = tk
      /\ \A x \in Tickets : x # t => db1[x] = db[x]
      /\ \A x \in Tickets : db[x] # NoTicket => db1[x] # NoTicket
  BY <1>1, <1>4, <1>6, WithNew
<1>10. /\ Fresh(f) \in RoomRecords
       /\ Fresh(f).seats = <<t>> /\ Fresh(f).need = n /\ Fresh(f).match = 0
       /\ Fresh(f).status \in {"closed", "waiting"}
  BY <1>7 DEF RoomRecords, None
<1>11. /\ Elements(<<t>>) = {t} /\ Len(<<t>>) = 1
  BY DEF Elements
<1>12. n \in Nat /\ n >= 1 /\ MaxPlayers >= 1
  BY ConstantFacts
<1> HIDE DEF tk, mem1, db1, Fresh
<1> DEFINE M == IF Kept(f) THEN mem1 ELSE mem
<1>13. /\ M \in [Tickets -> TicketRecords] /\ \A i \in DOMAIN queue : M[queue[i]] # NoTicket
       /\ \A x \in Tickets : x > t => M[x] = NoTicket
       /\ Finish(f, M, missing, queue) /\ 3 \in Nat
  <2>1. \A i \in DOMAIN queue : queue[i] \in Tickets
    BY <1>4
  <2> QED
    BY <1>2, <1>4, <1>8, <1>9, <2>1
<1> HIDE DEF M
<1>14. members' \in [Rooms -> [Users -> Tickets \cup {None}]]
  <2>1. [members EXCEPT ![r][u] = SeatRow(@, t)] \in [Rooms -> [Users -> Tickets \cup {None}]]
    BY <1>4, <1>5, <1>7 DEF SeatRow
  <2> QED
    BY <1>2, <1>4, <2>1
<1>15. StoreShape'
  <2>1. db' \in [Tickets -> TicketRecords]
    BY <1>2, <1>4, <1>9
  <2>2. rooms' \in [Rooms -> RoomRecords]
    BY <1>2, <1>4, <1>10
  <2> QED
    BY <1>1, <1>4, <1>5, <1>7, <1>14, <2>1, <2>2 DEF StoreShape
<1>16. ASSUME NEW x \in Rooms, rooms'[x] # rooms[x] PROVE GoodRoom(x)'
  <2>1. Landed(f, 2) /\ x = r /\ rooms'[x] = Fresh(f)
    BY <1>2, <1>4, <1>5, <1>16
  <2>2. RoomInv(x)'
    <3>1. Elements(rooms'[x].seats) \subseteq 1 .. minted'
      BY <1>1, <1>3, <1>10, <1>11, <2>1
    <3>2. /\ rooms'[x].match = 0 /\ Len(rooms'[x].seats) = 1 /\ rooms'[x].need = n
          /\ rooms'[x].status # "found"
      BY <1>10, <1>11, <2>1
    <3>3. Len(rooms'[x].seats) \in 1 .. rooms'[x].need /\ Len(rooms'[x].seats) <= MaxPlayers
      BY <1>12, <3>2, ConstantFacts
    <3>4. rooms'[x].match <= Len(rosters')
      BY <1>1, <1>3, <3>2
    <3> QED
      BY <3>1, <3>2, <3>3, <3>4 DEF RoomInv
  <2>3. ASSUME NoFault' PROVE db'[t] # NoTicket
    <3>1. f.how \in {"ok", "crash"} /\ f.at \in 0 .. 3 /\ (f.at = 0 <=> f.how = "ok")
      BY <1>3, <1>13, <2>3, FaultFree, OutcomeFacts
    <3>2. Kept(f)
      BY <2>1, <3>1 DEF Landed, Passed, Kept
    <3> QED
      BY <1>2, <1>6, <1>9, <3>2
  <2> QED
    BY <1>1, <1>5, <1>10, <1>11, <2>1, <2>2, <2>3 DEF GoodRoom
<1>17. \A x \in Tickets : x > minted' => db'[x] = NoTicket
  BY <1>1, <1>2, <1>8, <1>9
<1>18. \A x \in Tickets : db[x] # NoTicket => db'[x] # NoTicket
  BY <1>2, <1>9
<1>19. Len(rosters) <= Len(rosters')
  BY <1>1, <1>3
<1> QED
  BY <1>1, <1>4, <1>5, <1>7, <1>13, <1>15, <1>16, <1>17, <1>18, <1>19, HandlerShape

(* A line with one more at its end.                                        *)
LEMMA AppendFacts ==
    ASSUME NEW A, NEW q \in Seq(A), NEW a \in A
    PROVE  /\ Append(q, a) \in Seq(A) /\ Len(Append(q, a)) = Len(q) + 1 /\ Len(q) \in Nat
           /\ DOMAIN q = 1 .. Len(q) /\ DOMAIN Append(q, a) = 1 .. (Len(q) + 1)
           /\ \A i \in 1 .. Len(q) : Append(q, a)[i] = q[i]
           /\ Append(q, a)[Len(q) + 1] = a
           /\ Elements(Append(q, a)) = Elements(q) \cup {a}
           /\ Distinct(q) /\ a \notin Elements(q) => Distinct(Append(q, a))
<1>1. /\ Append(q, a) \in Seq(A) /\ Len(Append(q, a)) = Len(q) + 1 /\ Len(q) \in Nat
      /\ DOMAIN q = 1 .. Len(q)
      /\ \A i \in 1 .. Len(q) : Append(q, a)[i] = q[i]
      /\ Append(q, a)[Len(q) + 1] = a
  BY AppendProperties, LenProperties
<1>2. DOMAIN Append(q, a) = 1 .. (Len(q) + 1)
  BY <1>1, LenProperties
<1>3. 1 .. (Len(q) + 1) = (1 .. Len(q)) \cup {Len(q) + 1}
  BY <1>1
<1> DEFINE p == Append(q, a)
<1>4. p = Append(q, a)
  OBVIOUS
<1> HIDE DEF p
<1>5. Elements(p) = Elements(q) \cup {a}
  BY <1>1, <1>2, <1>3, <1>4 DEF Elements
<1>6. ASSUME Distinct(q), a \notin Elements(q) PROVE Distinct(p)
  <2>1. \A j \in 1 .. Len(q) : q[j] # a
    BY <1>1, <1>6 DEF Elements
  <2> QED
    BY <1>1, <1>2, <1>3, <1>4, <1>6, <2>1 DEF Distinct
<1> QED
  BY <1>1, <1>2, <1>4, <1>5, <1>6

(* A rewritten room row.                                                   *)
LEMMA RoomRow ==
    ASSUME NEW row \in RoomRecords
    PROVE  /\ row.status \in {"none", "waiting", "found", "closed", "expired"}
           /\ row.seats \in Seq(Tickets) /\ row.host \in Users \cup {NoUser}
           /\ row.need \in Sizes \cup {0} /\ row.match \in Nat
           /\ \A q \in Seq(Tickets) :
                 LET new == [row EXCEPT !.seats = q]
                 IN /\ new \in RoomRecords /\ new.seats = q /\ new.status = row.status
                    /\ new.host = row.host /\ new.need = row.need /\ new.match = row.match
           /\ \A n \in Sizes :
                 LET new == [row EXCEPT !.need = n]
                 IN /\ new \in RoomRecords /\ new.seats = row.seats /\ new.status = row.status
                    /\ new.host = row.host /\ new.need = n /\ new.match = row.match
           /\ NewMatch \in Nat =>
                 /\ FoundRow(row) \in RoomRecords /\ FoundRow(row).seats = row.seats
                 /\ FoundRow(row).status = "found" /\ FoundRow(row).host = row.host
                 /\ FoundRow(row).need = row.need /\ FoundRow(row).match = NewMatch
<1>1. /\ row.status \in {"none", "waiting", "found", "closed", "expired"}
      /\ row.seats \in Seq(Tickets) /\ row.host \in Users \cup {NoUser}
      /\ row.need \in Sizes \cup {0} /\ row.match \in Nat
  BY DEF RoomRecords
<1>2. ASSUME NEW q \in Seq(Tickets)
      PROVE  LET new == [row EXCEPT !.seats = q]
             IN /\ new \in RoomRecords /\ new.seats = q /\ new.status = row.status
                /\ new.host = row.host /\ new.need = row.need /\ new.match = row.match
  BY DEF RoomRecords
<1>3. ASSUME NEW n \in Sizes
      PROVE  LET new == [row EXCEPT !.need = n]
             IN /\ new \in RoomRecords /\ new.seats = row.seats /\ new.status = row.status
                /\ new.host = row.host /\ new.need = n /\ new.match = row.match
  BY DEF RoomRecords
<1>4. ASSUME NewMatch \in Nat
      PROVE  /\ FoundRow(row) \in RoomRecords /\ FoundRow(row).seats = row.seats
             /\ FoundRow(row).status = "found" /\ FoundRow(row).host = row.host
             /\ FoundRow(row).need = row.need /\ FoundRow(row).match = NewMatch
  BY <1>4 DEF RoomRecords, FoundRow
<1> QED
  BY <1>1, <1>2, <1>3, <1>4

(* The room a player joins.                                                *)
LEMMA WaitingRoom ==
    ASSUME ShapeInv, NEW r \in Rooms, rooms[r].status = "waiting"
    PROVE  /\ r <= opened /\ RoomInv(r) /\ rooms[r] \in RoomRecords
           /\ rooms[r].need \in Sizes /\ rooms[r].need \in Nat /\ rooms[r].need >= 1
           /\ Len(rooms[r].seats) \in 1 .. rooms[r].need
           /\ Elements(rooms[r].seats) \subseteq 1 .. minted
           /\ Elements(rooms[r].seats) \subseteq Tickets
           /\ rooms[r].seats \in Seq(Tickets)
           /\ NoFault => \A t \in Elements(rooms[r].seats) : db[t] # NoTicket
<1>1. rooms[r] \in RoomRecords /\ RoomInv(r) /\ NoGhostSeat /\ FreshInv
  BY ShapeParts DEF ShapeInv
<1>2. r <= opened
  <2>1. r > opened => rooms[r] = NoRoom
    BY <1>1 DEF FreshInv
  <2>2. NoRoom.status = "none"
    BY DEF NoRoom
  <2>3. r \in Nat /\ opened \in Nat
    BY ShapeParts
  <2> QED
    BY <2>1, <2>2, <2>3
<1>3. /\ rooms[r].need \in Sizes /\ Len(rooms[r].seats) \in 1 .. rooms[r].need
      /\ Elements(rooms[r].seats) \subseteq 1 .. minted
  BY <1>1 DEF RoomInv
<1>4. rooms[r].seats \in Seq(Tickets) /\ minted \in 0 .. MaxTickets
  BY <1>1, ShapeParts, RoomRow DEF StoreShape
<1>5. 1 .. minted \subseteq Tickets
  BY <1>4, ConstantFacts DEF Tickets
<1>6. rooms[r].need \in Nat /\ rooms[r].need >= 1
  BY <1>3, SizeFacts
<1>7. NoFault => \A t \in Elements(rooms[r].seats) : db[t] # NoTicket
  BY <1>1 DEF NoGhostSeat, Waiting, SeatsIn
<1> QED
  BY <1>1, <1>2, <1>3, <1>4, <1>5, <1>6, <1>7

(* A join that leaves the room waiting keeps the shape.                    *)
LEMMA TakeSeatShape ==
    ASSUME ShapeInv, NEW u \in Users, NEW r \in Rooms,
           rooms[r].status = "waiting", minted < MaxTickets, minted' = minted + 1,
           Len(rooms[r].seats) + 1 < rooms[r].need, TakeSeat(u, r, minted'), UNCHANGED opened
    PROVE  ShapeInv'
<1> DEFINE t == minted + 1
           tk == Queued(u, r, rooms[r].need)
           mem1 == [mem EXCEPT ![t] = tk]
           db1 == [db EXCEPT ![t] = tk]
           seats == Append(rooms[r].seats, t)
           row == [rooms[r] EXCEPT !.seats = seats]
<1>1. PICK f \in Outcomes(3) :
         /\ db' = IF Kept(f) THEN db1 ELSE db
         /\ rooms' = IF Landed(f, 2) THEN [rooms EXCEPT ![r].seats = Append(@, t)] ELSE rooms
         /\ members' = IF Landed(f, 3) THEN [members EXCEPT ![r][u] = SeatRow(@, t)] ELSE members
         /\ Finish(f, IF Kept(f) THEN mem1 ELSE mem, missing, queue)
         /\ UNCHANGED rosters
  BY DEF TakeSeat
<1>2. /\ Types /\ MemoryShape /\ StoreShape /\ FreshTickets /\ Len(rosters) \in Nat
      /\ minted \in Nat /\ opened \in Nat
  BY ShapeParts DEF ShapeInv
<1>3. /\ mem \in [Tickets -> TicketRecords] /\ db \in [Tickets -> TicketRecords]
      /\ queue \in Seq(Tickets) /\ \A i \in DOMAIN queue : mem[queue[i]] # NoTicket
      /\ rooms \in [Rooms -> RoomRecords] /\ rosters \in Seq(Rosters)
      /\ members \in [Rooms -> [Users -> Tickets \cup {None}]] /\ opened \in 0 .. MaxRooms
  BY <1>2 DEF MemoryShape, StoreShape, QueueInv
<1>4. /\ r <= opened /\ RoomInv(r) /\ rooms[r] \in RoomRecords
      /\ rooms[r].need \in Sizes /\ rooms[r].need \in Nat
      /\ Len(rooms[r].seats) \in 1 .. rooms[r].need
      /\ Elements(rooms[r].seats) \subseteq 1 .. minted
      /\ Elements(rooms[r].seats) \subseteq Tickets
      /\ rooms[r].seats \in Seq(Tickets)
      /\ NoFault => \A x \in Elements(rooms[r].seats) : db[x] # NoTicket
  BY WaitingRoom
<1>5. tk \in TicketRecords /\ tk # NoTicket
  BY <1>4, QueuedFacts
<1>6. t \in Tickets /\ t \in 0 .. MaxTickets /\ minted <= t
  BY NextTicket
<1>7. \A x \in Tickets : x > t => x # t /\ mem[x] = NoTicket /\ db[x] = NoTicket
  BY NextTicket
<1>8. /\ mem1 \in [Tickets -> TicketRecords]
      /\ \A x \in Tickets : x # t => mem1[x] = mem[x]
      /\ \A x \in Tickets : mem[x] # NoTicket => mem1[x] # NoTicket
      /\ db1 \in [Tickets -> TicketRecords] /\ db1[t] = tk
      /\ \A x \in Tickets : x # t => db1[x] = db[x]
      /\ \A x \in Tickets : db[x] # NoTicket => db1[x] # NoTicket
  BY <1>3, <1>5, WithNew
<1>9. /\ seats \in Seq(Tickets) /\ Len(seats) = Len(rooms[r].seats) + 1
      /\ Elements(seats) = Elements(rooms[r].seats) \cup {t}
  BY <1>4, <1>6, AppendFacts
<1>10. /\ row \in RoomRecords /\ row.seats = seats /\ row.status = "waiting"
       /\ row.need = rooms[r].need /\ row.match = rooms[r].match
  <2> HIDE DEF seats
  <2> QED
    BY <1>4, <1>9, RoomRow
<1>11. rooms' = IF Landed(f, 2) THEN [rooms EXCEPT ![r] = row] ELSE rooms
  <2>1. [rooms EXCEPT ![r].seats = Append(@, t)] = [rooms EXCEPT ![r] = row]
    BY <1>3
  <2> HIDE DEF row
  <2> QED
    BY <1>1, <2>1
<1> HIDE DEF tk, mem1, db1, row, seats
<1> DEFINE M == IF Kept(f) THEN mem1 ELSE mem
<1>13. /\ M \in [Tickets -> TicketRecords] /\ \A i \in DOMAIN queue : M[queue[i]] # NoTicket
       /\ \A x \in Tickets : x > t => M[x] = NoTicket
       /\ Finish(f, M, missing, queue) /\ 3 \in Nat
  <2>1. \A i \in DOMAIN queue : queue[i] \in Tickets
    BY <1>3
  <2> QED
    BY <1>1, <1>3, <1>7, <1>8, <2>1
<1> HIDE DEF M
<1>14. members' \in [Rooms -> [Users -> Tickets \cup {None}]]
  <2>1. [members EXCEPT ![r][u] = SeatRow(@, t)] \in [Rooms -> [Users -> Tickets \cup {None}]]
    BY <1>3, <1>6 DEF SeatRow
  <2> QED
    BY <1>1, <1>3, <2>1
<1>15. StoreShape'
  <2>1. db' \in [Tickets -> TicketRecords]
    BY <1>1, <1>3, <1>8
  <2>2. rooms' \in [Rooms -> RoomRecords]
    BY <1>3, <1>10, <1>11
  <2> QED
    BY <1>1, <1>3, <1>6, <1>14, <2>1, <2>2 DEF StoreShape
<1>16. ASSUME NEW x \in Rooms, rooms'[x] # rooms[x] PROVE GoodRoom(x)'
  <2>1. Landed(f, 2) /\ x = r /\ rooms'[x] = row
    BY <1>3, <1>11, <1>16
  <2>2. RoomInv(x)'
    <3>1. Elements(rooms'[x].seats) \subseteq 1 .. minted'
      <4>1. 1 .. minted \subseteq 1 .. t /\ t \in 1 .. t
        BY <1>2
      <4> QED
        BY <1>4, <1>9, <1>10, <2>1, <4>1
    <3>2. /\ rooms'[x].match <= Len(rosters') /\ rooms'[x].need \in Sizes
          /\ rooms'[x].status # "found"
      BY <1>1, <1>4, <1>10, <2>1 DEF RoomInv
    <3>3. Len(rooms'[x].seats) \in 1 .. rooms'[x].need /\ Len(rooms'[x].seats) <= MaxPlayers
      <4>1. rooms[r].need <= MaxPlayers
        BY <1>4, ConstantFacts
      <4> QED
        BY <1>4, <1>9, <1>10, <2>1, <4>1, ConstantFacts
    <3> QED
      BY <3>1, <3>2, <3>3 DEF RoomInv
  <2>3. ASSUME NoFault' PROVE \A y \in Elements(seats) : db'[y] # NoTicket
    <3>1. f.how \in {"ok", "crash"} /\ f.at \in 0 .. 3 /\ (f.at = 0 <=> f.how = "ok") /\ NoFault
      BY <1>2, <1>13, <2>3, FaultFree, OutcomeFacts
    <3>2. Kept(f)
      BY <2>1, <3>1 DEF Landed, Passed, Kept
    <3>3. db'[t] # NoTicket
      BY <1>1, <1>5, <1>8, <3>2
    <3> QED
      BY <1>1, <1>4, <1>8, <1>9, <3>1, <3>2, <3>3
  <2> QED
    BY <1>4, <1>10, <2>1, <2>2, <2>3 DEF GoodRoom
<1>17. \A x \in Tickets : x > minted' => db'[x] = NoTicket
  BY <1>1, <1>7, <1>8
<1>18. \A x \in Tickets : db[x] # NoTicket => db'[x] # NoTicket
  BY <1>1, <1>8
<1>19. Len(rosters) <= Len(rosters') /\ opened <= opened'
  BY <1>1, <1>2
<1> QED
  BY <1>3, <1>6, <1>13, <1>15, <1>16, <1>17, <1>18, <1>19, HandlerShape

(* A join that fills the room keeps the shape.                             *)
LEMMA FillRoomShape ==
    ASSUME ShapeInv, NEW u \in Users, NEW r \in Rooms,
           rooms[r].status = "waiting", minted < MaxTickets, minted' = minted + 1,
           Len(rooms[r].seats) < MaxPlayers, FillRoom(u, r, minted'), UNCHANGED opened
    PROVE  ShapeInv'
<1> DEFINE t == minted + 1
           need == rooms[r].need
           tk == Queued(u, r, need)
           mem1 == [mem EXCEPT ![t] = tk]
           db1 == [db EXCEPT ![t] = tk]
           seats == Append(rooms[r].seats, t)
           group == Group(seats, need)
           table == [x \in Tickets |-> IF x = t THEN tk ELSE Look(x)]
           row0 == [rooms[r] EXCEPT !.seats = seats]
           row == FoundRow(row0)
<1>1. PICK f \in Outcomes(need + 4) :
         IF Passed(f, 1)
         THEN /\ Enter(table, group, need)
              /\ db' = StampStore(db1, table, group, 1, f)
              /\ rooms' = IF Landed(f, need + 3)
                          THEN [rooms EXCEPT ![r] = FoundRow([@ EXCEPT !.seats = seats])]
                          ELSE rooms
              /\ members' = IF Landed(f, need + 4) THEN [members EXCEPT ![r][u] = SeatRow(@, t)] ELSE members
              /\ Finish(f, StampMemory(mem1, table, group, 1, f), missing, queue)
         ELSE /\ Finish(f, mem, missing, queue)
              /\ UNCHANGED <<db, rooms, members, rosters>>
  BY DEF FillRoom
<1>2. /\ Types /\ MemoryShape /\ StoreShape /\ FreshTickets /\ Len(rosters) \in Nat
      /\ minted \in Nat /\ opened \in Nat
  BY ShapeParts DEF ShapeInv
<1>3. /\ mem \in [Tickets -> TicketRecords] /\ db \in [Tickets -> TicketRecords]
      /\ queue \in Seq(Tickets) /\ \A i \in DOMAIN queue : mem[queue[i]] # NoTicket
      /\ rooms \in [Rooms -> RoomRecords] /\ rosters \in Seq(Rosters)
      /\ members \in [Rooms -> [Users -> Tickets \cup {None}]] /\ opened \in 0 .. MaxRooms
  BY <1>2 DEF MemoryShape, StoreShape, QueueInv
<1>4. /\ r <= opened /\ RoomInv(r) /\ rooms[r] \in RoomRecords
      /\ need \in Sizes /\ need \in Nat
      /\ Elements(rooms[r].seats) \subseteq 1 .. minted
      /\ rooms[r].seats \in Seq(Tickets)
  BY WaitingRoom
<1>4a. need + 4 \in Nat
  BY <1>4
<1>5. tk \in TicketRecords /\ tk # NoTicket
  BY <1>4, QueuedFacts
<1>6. t \in Tickets /\ t \in 0 .. MaxTickets /\ minted <= t
  BY NextTicket
<1>7. \A x \in Tickets : x > t => x # t /\ mem[x] = NoTicket /\ db[x] = NoTicket /\ Look(x) = NoTicket
  BY NextTicket
<1>8. /\ mem1 \in [Tickets -> TicketRecords]
      /\ \A x \in Tickets : x # t => mem1[x] = mem[x]
      /\ \A x \in Tickets : mem[x] # NoTicket => mem1[x] # NoTicket
      /\ db1 \in [Tickets -> TicketRecords] /\ db1[t] = tk
      /\ \A x \in Tickets : x # t => db1[x] = db[x]
      /\ \A x \in Tickets : db[x] # NoTicket => db1[x] # NoTicket
  BY <1>3, <1>5, WithNew
<1>9. /\ seats \in Seq(Tickets) /\ Len(seats) = Len(rooms[r].seats) + 1
      /\ Elements(seats) = Elements(rooms[r].seats) \cup {t} /\ Len(rooms[r].seats) \in Nat
  BY <1>4, <1>6, AppendFacts
<1>10. /\ row0 \in RoomRecords /\ row0.seats = seats
  <2> HIDE DEF seats
  <2> QED
    BY <1>4, <1>9, RoomRow
<1>11. /\ table \in [Tickets -> TicketRecords] /\ table[t] = tk
       /\ \A x \in Tickets : x # t => table[x] = Look(x)
  BY <1>5, TableFacts
<1>12. \A i \in DOMAIN queue : queue[i] \in Tickets
  BY <1>3
<1> HIDE DEF tk, mem1, db1, group, table, need
<1>13. CASE Passed(f, 1)
  <2> DEFINE M == StampMemory(mem1, table, group, 1, f)
  <2>1. /\ Enter(table, group, need) /\ Finish(f, M, missing, queue)
        /\ db' = StampStore(db1, table, group, 1, f)
        /\ members' = IF Landed(f, need + 4) THEN [members EXCEPT ![r][u] = SeatRow(@, t)] ELSE members
    BY <1>1, <1>13
  <2>2. /\ rosters' \in Seq(Rosters) /\ Len(rosters) <= Len(rosters')
        /\ NewMatch \in 0 .. MaxMatches /\ NewMatch \in Nat /\ NewMatch = Len(rosters')
        /\ NewMatch >= 1 /\ Len(rosters') \in Nat
    BY <1>4, <2>1, EnterFacts
  <2>3. /\ M \in [Tickets -> TicketRecords] /\ db' \in [Tickets -> TicketRecords]
        /\ \A x \in Tickets : /\ table[x] = NoTicket => M[x] = mem1[x] /\ db'[x] = db1[x]
                              /\ mem1[x] # NoTicket => M[x] # NoTicket
                              /\ db1[x] # NoTicket => db'[x] # NoTicket
    BY <1>8, <1>11, <2>1, <2>2, StampFacts
  <2> HIDE DEF M
  <2>4. /\ row \in RoomRecords /\ row.seats = seats /\ row.status = "found" /\ row.match = NewMatch
    <3> HIDE DEF row0
    <3> QED
      BY <1>10, <2>2, RoomRow
  <2>5. rooms' = IF Landed(f, need + 3) THEN [rooms EXCEPT ![r] = row] ELSE rooms
    <3>1. [rooms EXCEPT ![r] = FoundRow([@ EXCEPT !.seats = seats])] = [rooms EXCEPT ![r] = row]
      BY <1>3
    <3> HIDE DEF row
    <3> QED
      BY <1>1, <1>13, <3>1
  <2> HIDE DEF row, row0, seats
  <2>6. members' \in [Rooms -> [Users -> Tickets \cup {None}]]
    <3>1. [members EXCEPT ![r][u] = SeatRow(@, t)] \in [Rooms -> [Users -> Tickets \cup {None}]]
      BY <1>3, <1>6 DEF SeatRow
    <3> QED
      BY <1>3, <2>1, <3>1
  <2>7. StoreShape'
    <3>1. rooms' \in [Rooms -> RoomRecords]
      BY <1>3, <2>4, <2>5
    <3> QED
      BY <1>3, <1>6, <2>2, <2>3, <2>6, <3>1 DEF StoreShape
  <2>8. ASSUME NEW x \in Rooms, rooms'[x] # rooms[x] PROVE GoodRoom(x)'
    <3>1. x = r /\ rooms'[x] = row
      BY <1>3, <2>5, <2>8
    <3>2. Elements(rooms'[x].seats) \subseteq 1 .. minted'
      <4>1. 1 .. minted \subseteq 1 .. t /\ t \in 1 .. t
        BY <1>2
      <4> QED
        BY <1>4, <1>9, <2>4, <3>1, <4>1
    <3>3. /\ rooms'[x].match <= Len(rosters') /\ rooms'[x].match # None
          /\ rooms'[x].status = "found"
      BY <2>2, <2>4, <3>1 DEF None
    <3>4. Len(rooms'[x].seats) <= MaxPlayers
      BY <1>9, <2>4, <3>1, ConstantFacts
    <3>5. RoomInv(x)'
      BY <3>2, <3>3, <3>4 DEF RoomInv
    <3> QED
      BY <1>4, <3>1, <3>3, <3>5 DEF GoodRoom
  <2>9. \A x \in Tickets : x > minted' => M[x] = NoTicket /\ db'[x] = NoTicket
    BY <1>7, <1>8, <1>11, <2>3
  <2>10. \A x \in Tickets : db[x] # NoTicket => db'[x] # NoTicket
    BY <1>8, <2>3
  <2>11. \A i \in DOMAIN queue : M[queue[i]] # NoTicket
    BY <1>3, <1>8, <1>12, <2>3
  <2>12. opened <= opened'
    BY <1>2
  <2> QED
    BY <1>3, <1>4a, <1>6, <2>1, <2>2, <2>3, <2>7, <2>8, <2>9, <2>10, <2>11, <2>12, HandlerShape
<1>14. CASE ~Passed(f, 1)
  <2>1. Finish(f, mem, missing, queue) /\ UNCHANGED <<db, rooms, members, rosters>>
    BY <1>1, <1>14
  <2>2. StoreShape'
    BY <1>3, <1>6, <2>1 DEF StoreShape
  <2>3. opened <= opened' /\ Len(rosters) <= Len(rosters')
    BY <1>2, <2>1
  <2> QED
    BY <1>3, <1>4a, <1>6, <1>7, <2>1, <2>2, <2>3, HandlerShape
<1> QED
  BY <1>13, <1>14

(* So does JoinRoom.                                                       *)
LEMMA JoinRoomShape ==
    ASSUME ShapeInv, NEW u \in Users, NEW r \in Rooms, JoinRoom(u, r)
    PROVE  ShapeInv'
<1>1. /\ rooms[r].status = "waiting" /\ Len(rooms[r].seats) < MaxPlayers
      /\ minted < MaxTickets /\ minted' = minted + 1 /\ UNCHANGED opened
      /\ \/ Len(rooms[r].seats) + 1 < rooms[r].need /\ TakeSeat(u, r, minted')
         \/ Len(rooms[r].seats) + 1 >= rooms[r].need /\ FillRoom(u, r, minted')
  BY DEF JoinRoom
<1> QED
  BY <1>1, TakeSeatShape, FillRoomShape

(* The seats that stay when t leaves, and the row without t.               *)
LEMMA DepartureFacts ==
    ASSUME ShapeInv, NEW r \in Rooms, NEW t \in Tickets
    PROVE  LET left == Remove(rooms[r].seats, t)
           IN /\ left \in Seq(Tickets) /\ Len(left) <= Len(rooms[r].seats) /\ Len(left) \in Nat
              /\ Len(rooms[r].seats) \in Nat
              /\ Elements(left) = Elements(rooms[r].seats) \ {t}
              /\ Distinct(rooms[r].seats) => Distinct(left)
              /\ Stayers(r, t) \in Seq(Tickets)
              /\ Elements(Stayers(r, t)) = {x \in Elements(left) : Look(x).status = "queued"}
              /\ Elements(left) \subseteq Tickets
<1> DEFINE left == Remove(rooms[r].seats, t)
<1>1. rooms[r].seats \in Seq(Tickets)
  BY ShapeParts, RoomRow
<1>2. Elements(rooms[r].seats) \subseteq Tickets
  BY <1>1, ElementOfSeq, LenProperties DEF Elements
<1>3. /\ left \in Seq(Tickets) /\ Len(left) <= Len(rooms[r].seats)
      /\ Elements(left) = Elements(rooms[r].seats) \cap (Tickets \ {t})
      /\ Distinct(rooms[r].seats) => Distinct(left)
  BY <1>1, OnlyFacts DEF Remove
<1> HIDE DEF left
<1>4. /\ Only(left, {x \in Tickets : Look(x).status = "queued"}) \in Seq(Tickets)
      /\ Elements(Only(left, {x \in Tickets : Look(x).status = "queued"}))
            = Elements(left) \cap {x \in Tickets : Look(x).status = "queued"}
  BY <1>3, OnlyFacts
<1>5. Stayers(r, t) = Only(left, {x \in Tickets : Look(x).status = "queued"})
  BY DEF Stayers, left
<1>6. Len(left) \in Nat /\ Len(rooms[r].seats) \in Nat
  BY <1>1, <1>3, LenProperties
<1> QED
  BY <1>2, <1>3, <1>4, <1>5, <1>6 DEF left

(* The row of a room somebody left.                                        *)
LEMMA WithoutSeatFacts ==
    ASSUME ShapeInv, NEW r \in Rooms, NEW t \in Tickets
    PROVE  LET row == WithoutSeat(r, t)
               left == Remove(rooms[r].seats, t)
           IN /\ row \in RoomRecords /\ row.seats = left /\ row.host = NextHost(r, t)
              /\ row.need = rooms[r].need /\ row.match = rooms[r].match
              /\ row.status = IF left = <<>> THEN "closed" ELSE rooms[r].status
<1> DEFINE left == Remove(rooms[r].seats, t)
           st == IF left = <<>> THEN "closed" ELSE rooms[r].status
<1>1. rooms[r] \in RoomRecords /\ left \in Seq(Tickets)
  BY ShapeParts, DepartureFacts
<1>2. Stayers(r, t) \in Seq(Tickets) /\ Elements(Stayers(r, t)) \subseteq {x \in Tickets : Look(x).status = "queued"}
  BY DepartureFacts
<1>3. NextHost(r, t) \in Users \cup {NoUser}
  <2>1. rooms[r].host \in Users \cup {NoUser}
    BY <1>1, RoomRow
  <2>2. ASSUME Stayers(r, t) # <<>> PROVE Look(Stayers(r, t)[1]).user \in Users
    <3>1. 1 \in DOMAIN Stayers(r, t)
      BY <1>2, <2>2, EmptySeq, LenProperties
    <3>2. Stayers(r, t)[1] \in Tickets /\ Look(Stayers(r, t)[1]).status = "queued"
      BY <1>2, <3>1 DEF Elements
    <3>3. Look(Stayers(r, t)[1]) \in TicketRecords
      BY <3>2, LookFacts DEF ShapeInv
    <3> QED
      BY <3>2, <3>3, TicketFacts DEF TicketRows
  <2> QED
    BY <2>1, <2>2 DEF NextHost
<1>4. WithoutSeat(r, t) = [rooms[r] EXCEPT !.seats = left, !.host = NextHost(r, t), !.status = st]
  BY <1>1 DEF WithoutSeat
<1>5. st \in {"none", "waiting", "found", "closed", "expired"}
  BY <1>1, RoomRow
<1> HIDE DEF left, st
<1>6. /\ WithoutSeat(r, t) \in RoomRecords
      /\ WithoutSeat(r, t).seats = left /\ WithoutSeat(r, t).host = NextHost(r, t)
      /\ WithoutSeat(r, t).status = st /\ WithoutSeat(r, t).need = rooms[r].need
      /\ WithoutSeat(r, t).match = rooms[r].match
  BY <1>1, <1>3, <1>4, <1>5 DEF RoomRecords
<1> QED
  BY <1>6 DEF left, st

(* A room that lives has been opened.                                      *)
LEMMA LiveRoom ==
    ASSUME ShapeInv, NEW r \in Rooms, Live(r)
    PROVE  r <= opened
<1>1. r > opened => rooms[r] = NoRoom
  BY DEF ShapeInv, FreshInv
<1>2. NoRoom.status = "none"
  BY DEF NoRoom
<1>3. r \in Nat /\ opened \in Nat
  BY ShapeParts
<1> QED
  BY <1>1, <1>2, <1>3 DEF Live

(* The room is written after finitely many tickets.                        *)
LEMMA RoomWriteFacts ==
    ASSUME ShapeInv, NEW r \in Rooms, NEW t \in Tickets
    PROVE  RoomWrite(r, t) \in Nat
BY DepartureFacts, LenProperties DEF RoomWrite

(* A queued ticket that is cancelled is a row of the same user.            *)
LEMMA CancelledFacts ==
    ASSUME ShapeInv, NEW t \in Tickets, Look(t).status = "queued"
    PROVE  /\ Look(t) \in TicketRecords /\ Look(t) # NoTicket
           /\ Cancelled(t) \in TicketRecords /\ Cancelled(t) # NoTicket
           /\ Cancelled(t).user = Look(t).user /\ Cancelled(t).status = "cancelled"
           /\ Cancelled(t).match = Look(t).match
           /\ ~(t > minted)
<1>1. Look(t) \in TicketRecords
  BY LookFacts DEF ShapeInv
<1>2. Look(t) # NoTicket
  BY <1>1, TicketFacts
<1>3. t > minted => Look(t) = NoTicket
  BY ShapeParts DEF FreshTickets, Look
<1> QED
  BY <1>1, <1>2, <1>3, RewriteFacts DEF Cancelled

(* Cancelling the ticket of a room, whoever asks for it.                   *)
LEMMA CancelRoomTicketShape ==
    ASSUME ShapeInv, NEW r \in Rooms, NEW t \in Tickets, Look(t).status = "queued",
           NEW n \in Nat, NEW f \in Outcomes(n), CancelRoomTicket(r, t, f),
           members' \in [Rooms -> [Users -> Tickets \cup {None}]],
           UNCHANGED <<minted, opened, rosters>>
    PROVE  ShapeInv'
<1> DEFINE M == [mem EXCEPT ![t] = Cancelled(t)]
           left == Remove(rooms[r].seats, t)
           Written(x) == Live(r) /\ \E i \in DOMAIN Stayers(r, t) : Stayers(r, t)[i] = x /\ Landed(f, i + 1)
<1>1. /\ db' = [x \in Tickets |-> IF x = t /\ Landed(f, 1) THEN Cancelled(t)
                                  ELSE IF Written(x) THEN Look(x) ELSE db[x]]
      /\ rooms' = IF Live(r) /\ Landed(f, RoomWrite(r, t))
                  THEN [rooms EXCEPT ![r] = WithoutSeat(r, t)] ELSE rooms
      /\ Finish(f, M, missing, queue)
  BY DEF CancelRoomTicket
<1>2. /\ Types /\ MemoryShape /\ StoreShape /\ FreshTickets /\ Len(rosters) \in Nat
      /\ minted \in Nat /\ opened \in Nat
  BY ShapeParts DEF ShapeInv
<1>3. /\ mem \in [Tickets -> TicketRecords] /\ db \in [Tickets -> TicketRecords]
      /\ queue \in Seq(Tickets) /\ \A i \in DOMAIN queue : mem[queue[i]] # NoTicket
      /\ rooms \in [Rooms -> RoomRecords] /\ rosters \in Seq(Rosters)
      /\ opened \in 0 .. MaxRooms /\ minted \in 0 .. MaxTickets
  BY <1>2 DEF MemoryShape, StoreShape, QueueInv
<1>4. Cancelled(t) \in TicketRecords /\ Cancelled(t) # NoTicket /\ ~(t > minted)
  BY CancelledFacts
<1>5. ASSUME NEW x \in Tickets, Written(x)
      PROVE  Look(x) \in TicketRecords /\ Look(x) # NoTicket /\ ~(x > minted)
  <2>1. Look(x).status = "queued"
    BY <1>5, DepartureFacts DEF Elements
  <2> QED
    BY <2>1, CancelledFacts
<1> HIDE DEF Written
<1>6. ASSUME NEW x \in Tickets
      PROVE  /\ db'[x] \in TicketRecords
             /\ db[x] # NoTicket => db'[x] # NoTicket
             /\ x > minted => db'[x] = NoTicket /\ M[x] = NoTicket
             /\ mem[x] # NoTicket => M[x] # NoTicket
  <2>1. db'[x] = IF x = t /\ Landed(f, 1) THEN Cancelled(t)
                 ELSE IF Written(x) THEN Look(x) ELSE db[x]
    BY <1>1
  <2>2. M[x] = IF x = t THEN Cancelled(t) ELSE mem[x]
    BY <1>3
  <2>3. x > minted => mem[x] = NoTicket /\ db[x] = NoTicket
    BY <1>2 DEF FreshTickets
  <2> HIDE DEF M
  <2> QED
    BY <1>3, <1>4, <1>5, <2>1, <2>2, <2>3
<1>7. db' \in [Tickets -> TicketRecords] /\ M \in [Tickets -> TicketRecords]
  <2>1. db' = [x \in Tickets |-> db'[x]]
    BY <1>1
  <2> QED
    BY <1>3, <1>4, <1>6, <2>1
<1> HIDE DEF M
<1>8. /\ WithoutSeat(r, t) \in RoomRecords /\ WithoutSeat(r, t).seats = left
      /\ WithoutSeat(r, t).need = rooms[r].need /\ WithoutSeat(r, t).match = rooms[r].match
      /\ WithoutSeat(r, t).status = IF left = <<>> THEN "closed" ELSE rooms[r].status
  BY WithoutSeatFacts
<1>9. /\ left \in Seq(Tickets) /\ Len(left) <= Len(rooms[r].seats) /\ Len(left) \in Nat
      /\ Elements(left) \subseteq Elements(rooms[r].seats) /\ Len(rooms[r].seats) \in Nat
  <2>1. Elements(left) = Elements(rooms[r].seats) \ {t}
    BY DepartureFacts
  <2> QED
    BY <2>1, DepartureFacts
<1>10. StoreShape'
  <2>1. rooms' \in [Rooms -> RoomRecords]
    BY <1>1, <1>3, <1>8
  <2> QED
    BY <1>3, <1>7, <2>1 DEF StoreShape
<1>11. ASSUME NEW x \in Rooms, rooms'[x] # rooms[x] PROVE GoodRoom(x)'
  <2>1. Live(r) /\ x = r /\ rooms'[x] = WithoutSeat(r, t)
    BY <1>1, <1>3, <1>11
  <2>2. r <= opened /\ GoodRoom(r) /\ RoomInv(r)
    BY <2>1, LiveRoom, ShapeParts DEF GoodRoom
  <2> DEFINE row == rooms'[x]
  <2>3. /\ row.seats = left /\ row.need = rooms[r].need /\ row.match = rooms[r].match
        /\ row.status = IF left = <<>> THEN "closed" ELSE rooms[r].status
    BY <1>8, <2>1
  <2> HIDE DEF row, left
  <2>4. /\ Elements(row.seats) \subseteq 1 .. minted /\ row.match <= Len(rosters)
        /\ (row.status = "found" => row.match # None)
    BY <1>9, <2>2, <2>3 DEF RoomInv
  <2>5. Len(row.seats) <= MaxPlayers
    <3>1. Len(rooms[r].seats) <= MaxPlayers
      BY <2>2 DEF RoomInv
    <3> QED
      BY <1>9, <2>3, <3>1, ConstantFacts
  <2>6. ASSUME row.status = "waiting"
        PROVE  row.need \in Sizes /\ Len(row.seats) \in 1 .. row.need
    <3>1. rooms[r].status = "waiting" /\ left # <<>>
      BY <2>3, <2>6
    <3>2. rooms[r].need \in Sizes /\ Len(rooms[r].seats) \in 1 .. rooms[r].need
      BY <2>2, <3>1 DEF RoomInv
    <3>3. Len(left) # 0
      BY <1>9, <3>1, EmptySeq
    <3>4. rooms[r].need \in Nat
      BY <3>2, SizeFacts
    <3> QED
      BY <1>9, <2>3, <3>2, <3>3, <3>4
  <2>7. RoomInv(x)'
    BY <2>4, <2>5, <2>6 DEF RoomInv, row
  <2>8. ASSUME NoFault', row.status = "waiting" PROVE \A y \in Elements(row.seats) : db'[y] # NoTicket
    <3>1. NoFault /\ rooms[r].status = "waiting"
      BY <1>1, <1>2, <2>3, <2>8, FaultFree
    <3>2. \A y \in Elements(rooms[r].seats) : y \in Tickets /\ db[y] # NoTicket
      BY <2>2, <3>1, WaitingRoom
    <3> QED
      BY <1>6, <1>9, <2>3, <3>2
  <2> QED
    BY <2>1, <2>2, <2>7, <2>8 DEF GoodRoom, row
<1>12. minted <= minted' /\ opened <= opened' /\ Len(rosters) <= Len(rosters')
  BY <1>2
<1>13. \A i \in DOMAIN queue : M[queue[i]] # NoTicket
  BY <1>3, <1>6
<1> QED
  BY <1>1, <1>3, <1>6, <1>7, <1>10, <1>11, <1>12, <1>13, HandlerShape

(* LeaveRoom keeps the shape.                                              *)
LEMMA LeaveRoomShape ==
    ASSUME ShapeInv, NEW u \in Users, NEW r \in Rooms, LeaveRoom(u, r)
    PROVE  ShapeInv'
<1>1. PICK t \in SeatOf(r, u) :
         /\ Look(t).status = "queued"
         /\ \E f \in Outcomes(RoomWrite(r, t) + 1) :
               /\ CancelRoomTicket(r, t, f)
               /\ members' = IF Landed(f, RoomWrite(r, t) + 1)
                             THEN [members EXCEPT ![r][u] = None] ELSE members
  BY DEF LeaveRoom
<1>2. t \in Tickets
  <2>1. rooms[r].seats \in Seq(Tickets)
    BY ShapeParts, RoomRow
  <2> QED
    BY <2>1, ElementOfSeq, LenProperties DEF SeatOf, Elements
<1>3. PICK f \in Outcomes(RoomWrite(r, t) + 1) :
         /\ CancelRoomTicket(r, t, f)
         /\ members' = IF Landed(f, RoomWrite(r, t) + 1)
                       THEN [members EXCEPT ![r][u] = None] ELSE members
  BY <1>1
<1>4. RoomWrite(r, t) + 1 \in Nat
  BY <1>2, RoomWriteFacts
<1>5. members' \in [Rooms -> [Users -> Tickets \cup {None}]]
  <2>1. members \in [Rooms -> [Users -> Tickets \cup {None}]]
    BY ShapeParts DEF StoreShape
  <2>2. [members EXCEPT ![r][u] = None] \in [Rooms -> [Users -> Tickets \cup {None}]]
    BY <2>1
  <2> QED
    BY <1>3, <2>1, <2>2
<1>6. UNCHANGED <<minted, opened, rosters>>
  BY DEF LeaveRoom
<1> QED
  BY <1>1, <1>2, <1>3, <1>4, <1>5, <1>6, CancelRoomTicketShape

(* A handler that writes at most one ticket, of a user, and no room.       *)
LEMMA OneTicketShape ==
    ASSUME ShapeInv, NEW f \in Outcomes(1), NEW t \in Tickets,
           NEW k \in TicketRecords, k # NoTicket, ~(t > minted),
           db' = IF Landed(f, 1) THEN [db EXCEPT ![t] = k] ELSE db,
           NEW M \in {mem, [mem EXCEPT ![t] = k]}, NEW Q \in Seq(Tickets),
           Elements(Q) \subseteq Elements(queue), Finish(f, M, missing, Q),
           UNCHANGED <<rooms, members, minted, opened, rosters>>
    PROVE  ShapeInv'
<1>1. /\ Types /\ MemoryShape /\ StoreShape /\ FreshTickets /\ Len(rosters) \in Nat
      /\ minted \in Nat /\ opened \in Nat
  BY ShapeParts DEF ShapeInv
<1>2. /\ mem \in [Tickets -> TicketRecords] /\ db \in [Tickets -> TicketRecords]
      /\ queue \in Seq(Tickets) /\ \A i \in DOMAIN queue : mem[queue[i]] # NoTicket
  BY <1>1 DEF MemoryShape, StoreShape, QueueInv
<1>3. /\ [mem EXCEPT ![t] = k] \in [Tickets -> TicketRecords]
      /\ [db EXCEPT ![t] = k] \in [Tickets -> TicketRecords]
  BY <1>2
<1>4. M \in [Tickets -> TicketRecords] /\ db' \in [Tickets -> TicketRecords]
  BY <1>2, <1>3
<1>5. ASSUME NEW x \in Tickets
      PROVE  /\ db[x] # NoTicket => db'[x] # NoTicket
             /\ x > minted => db'[x] = NoTicket /\ M[x] = NoTicket
             /\ mem[x] # NoTicket => M[x] # NoTicket
  <2>1. x > minted => mem[x] = NoTicket /\ db[x] = NoTicket
    BY <1>1 DEF FreshTickets
  <2> QED
    BY <1>2, <2>1
<1>6. StoreShape'
  BY <1>1, <1>4 DEF StoreShape
<1>7. \A i \in DOMAIN Q : M[Q[i]] # NoTicket
  <2>1. \A x \in Elements(queue) : x \in Tickets /\ mem[x] # NoTicket
    BY <1>2 DEF Elements
  <2>2. \A i \in DOMAIN Q : Q[i] \in Elements(queue)
    BY DEF Elements
  <2> QED
    BY <1>5, <2>1, <2>2
<1>8. minted <= minted' /\ opened <= opened' /\ Len(rosters) <= Len(rosters') /\ 1 \in Nat
  BY <1>1
<1> QED
  BY <1>4, <1>5, <1>6, <1>7, <1>8, HandlerShape

(* CancelTicket keeps the shape, in the queue and in a room.               *)
LEMMA CancelTicketShape ==
    ASSUME ShapeInv, NEW u \in Users, NEW t \in Tickets, CancelTicket(u, t)
    PROVE  ShapeInv'
<1> DEFINE r == Look(t).room
<1>1. /\ Look(t).status = "queued"
      /\ UNCHANGED <<members, minted, opened, rosters>>
      /\ \/ /\ r # None
            /\ \E f \in Outcomes(IF Live(r) THEN RoomWrite(r, t) ELSE 1) : CancelRoomTicket(r, t, f)
         \/ /\ r = None
            /\ \E f \in Outcomes(1) :
                  /\ db' = IF Landed(f, 1) THEN [db EXCEPT ![t] = Cancelled(t)] ELSE db
                  /\ Finish(f, [mem EXCEPT ![t] = Cancelled(t)], missing, Remove(queue, t))
            /\ UNCHANGED rooms
  BY DEF CancelTicket
<1>2. /\ Look(t) \in TicketRecords /\ Cancelled(t) \in TicketRecords /\ Cancelled(t) # NoTicket
      /\ ~(t > minted)
  BY <1>1, CancelledFacts
<1>3. r \in Rooms \cup {None}
  BY <1>2, TicketFacts
<1> HIDE DEF r
<1>4. CASE r # None
  <2>1. r \in Rooms
    BY <1>3, <1>4
  <2>2. (IF Live(r) THEN RoomWrite(r, t) ELSE 1) \in Nat
    BY <2>1, RoomWriteFacts
  <2>3. PICK f \in Outcomes(IF Live(r) THEN RoomWrite(r, t) ELSE 1) : CancelRoomTicket(r, t, f)
    BY <1>1, <1>4
  <2>4. members' \in [Rooms -> [Users -> Tickets \cup {None}]]
    BY <1>1, ShapeParts DEF StoreShape
  <2> QED
    BY <1>1, <2>1, <2>2, <2>3, <2>4, CancelRoomTicketShape
<1>5. CASE r = None
  <2>1. PICK f \in Outcomes(1) :
           /\ db' = IF Landed(f, 1) THEN [db EXCEPT ![t] = Cancelled(t)] ELSE db
           /\ Finish(f, [mem EXCEPT ![t] = Cancelled(t)], missing, Remove(queue, t))
    BY <1>1, <1>5
  <2>2. Remove(queue, t) \in Seq(Tickets) /\ Elements(Remove(queue, t)) \subseteq Elements(queue)
    <3>1. queue \in Seq(Tickets)
      BY ShapeParts DEF MemoryShape
    <3>2. /\ Only(queue, Tickets \ {t}) \in Seq(Tickets)
          /\ Elements(Only(queue, Tickets \ {t})) = Elements(queue) \cap (Tickets \ {t})
      BY <3>1, OnlyFacts
    <3> QED
      BY <3>2 DEF Remove
  <2>3. UNCHANGED <<rooms, members, minted, opened, rosters>>
    BY <1>1, <1>5
  <2> QED
    BY <1>2, <2>1, <2>2, <2>3, OneTicketShape
<1> QED
  BY <1>4, <1>5

(* Heartbeat keeps the shape.                                              *)
LEMMA HeartbeatShape ==
    ASSUME ShapeInv, NEW u \in Users, NEW t \in Tickets, Heartbeat(u, t)
    PROVE  ShapeInv'
<1>1. PICK f \in Outcomes(1) :
         /\ db' = IF Landed(f, 1) THEN [db EXCEPT ![t] = Look(t)] ELSE db
         /\ Finish(f, mem, missing, queue)
  BY DEF Heartbeat
<1>2. Look(t) \in TicketRecords /\ Look(t).user = u
  BY LookFacts DEF ShapeInv, Heartbeat
<1>3. Look(t) # NoTicket
  BY <1>2, TicketFacts
<1>4. t > minted => Look(t) = NoTicket
  BY ShapeParts DEF FreshTickets, Look
<1>5. queue \in Seq(Tickets) /\ UNCHANGED <<rooms, members, minted, opened, rosters>>
  BY ShapeParts DEF MemoryShape, Heartbeat
<1> QED
  BY <1>1, <1>2, <1>3, <1>4, <1>5, OneTicketShape

(* Tickets of another size are still rows of the tickets there were.       *)
LEMMA ResizedFacts ==
    ASSUME ShapeInv, NEW old \in [Tickets -> TicketRecords], NEW q, NEW n \in Sizes, NEW reached
    PROVE  /\ Resized(old, q, n, reached) \in [Tickets -> TicketRecords]
           /\ \A t \in Tickets :
                 /\ Look(t) = NoTicket => Resized(old, q, n, reached)[t] = old[t]
                 /\ old[t] # NoTicket => Resized(old, q, n, reached)[t] # NoTicket
<1> DEFINE new == Resized(old, q, n, reached)
<1>1. new = [t \in Tickets |-> new[t]]
  BY DEF Resized
<1>2. ASSUME NEW t \in Tickets
      PROVE  \/ Look(t) # NoTicket /\ new[t] = [Look(t) EXCEPT !.need = n]
             \/ new[t] = old[t]
  BY DEF Resized
<1> HIDE DEF new
<1>3. ASSUME NEW t \in Tickets, Look(t) # NoTicket
      PROVE  [Look(t) EXCEPT !.need = n] \in TicketRecords /\ [Look(t) EXCEPT !.need = n] # NoTicket
  <2>1. Look(t) \in TicketRecords
    BY LookFacts DEF ShapeInv
  <2> QED
    BY <1>3, <2>1, RewriteFacts
<1>4. \A t \in Tickets : /\ new[t] \in TicketRecords
                         /\ Look(t) = NoTicket => new[t] = old[t]
                         /\ old[t] # NoTicket => new[t] # NoTicket
  BY <1>2, <1>3
<1>5. new \in [Tickets -> TicketRecords]
  BY <1>1, <1>4
<1> QED
  BY <1>4, <1>5 DEF new

(* UpdateRoomOptions keeps the shape, whether or not the match starts.     *)
LEMMA UpdateShape ==
    ASSUME ShapeInv, NEW u \in Users, NEW r \in Rooms, NEW n \in Sizes, UpdateRoomOptions(u, r, n)
    PROVE  ShapeInv'
<1> DEFINE seats == rooms[r].seats
           k == Len(seats)
           group == Group(seats, n)
           row == [rooms[r] EXCEPT !.need = n]
           table == Resized(EmptyCache, seats, n, DOMAIN seats)
           Mem1(f) == Resized(mem, seats, n, {i \in DOMAIN seats : Passed(f, i - 1)})
           Db1(f) == Resized(db, seats, n, {i \in DOMAIN seats : Landed(f, i)})
           Starts(f) == Fills(r, n) /\ Passed(f, k + 1)
           bound == IF Fills(r, n) THEN k + n + 3 ELSE k + 1
<1>1. /\ rooms[r].status = "waiting" /\ (n # rooms[r].need => Len(rooms[r].seats) <= n)
      /\ UNCHANGED <<members, minted, opened>>
  BY DEF UpdateRoomOptions
<1>2. PICK f \in Outcomes(bound) :
         \/ /\ Starts(f)
            /\ Enter(table, group, n)
            /\ db' = StampStore(Db1(f), table, group, k + 1, f)
            /\ rooms' = [rooms EXCEPT ![r] = IF Landed(f, k + n + 3) THEN FoundRow(row) ELSE row]
            /\ Finish(f, StampMemory(Mem1(f), table, group, k + 1, f), missing, queue)
         \/ /\ ~Starts(f)
            /\ db' = Db1(f)
            /\ rooms' = IF Landed(f, k + 1) THEN [rooms EXCEPT ![r] = row] ELSE rooms
            /\ Finish(f, Mem1(f), missing, queue)
            /\ UNCHANGED rosters
  BY DEF UpdateRoomOptions
<1>3. /\ Types /\ MemoryShape /\ StoreShape /\ FreshTickets /\ Len(rosters) \in Nat
      /\ minted \in Nat /\ opened \in Nat
  BY ShapeParts DEF ShapeInv
<1>4. /\ mem \in [Tickets -> TicketRecords] /\ db \in [Tickets -> TicketRecords]
      /\ queue \in Seq(Tickets) /\ \A i \in DOMAIN queue : mem[queue[i]] # NoTicket
      /\ rooms \in [Rooms -> RoomRecords] /\ rosters \in Seq(Rosters)
      /\ opened \in 0 .. MaxRooms /\ minted \in 0 .. MaxTickets
  BY <1>3 DEF MemoryShape, StoreShape, QueueInv
<1>5. /\ r <= opened /\ RoomInv(r) /\ rooms[r] \in RoomRecords
      /\ rooms[r].need \in Nat
      /\ Len(rooms[r].seats) \in 1 .. rooms[r].need
      /\ Elements(rooms[r].seats) \subseteq 1 .. minted
      /\ Elements(rooms[r].seats) \subseteq Tickets
      /\ NoFault => \A x \in Elements(rooms[r].seats) : db[x] # NoTicket
  BY <1>1, WaitingRoom
<1>6. n \in Nat /\ n >= 1 /\ k \in Nat /\ k \in 1 .. n /\ bound \in Nat
  <2>1. n \in Nat /\ n >= 1
    BY SizeFacts
  <2>2. k \in Nat /\ k \in 1 .. n
    BY <1>1, <1>5, <2>1
  <2> HIDE DEF k
  <2> QED
    BY <2>1, <2>2
<1>7. /\ row \in RoomRecords /\ row.seats = seats /\ row.status = "waiting"
      /\ row.need = n /\ row.match = rooms[r].match
  BY <1>1, <1>5, RoomRow
<1>8. /\ Mem1(f) \in [Tickets -> TicketRecords] /\ Db1(f) \in [Tickets -> TicketRecords]
      /\ \A x \in Tickets : /\ Look(x) = NoTicket => Mem1(f)[x] = mem[x] /\ Db1(f)[x] = db[x]
                            /\ mem[x] # NoTicket => Mem1(f)[x] # NoTicket
                            /\ db[x] # NoTicket => Db1(f)[x] # NoTicket
  <2> DEFINE passed == {i \in DOMAIN seats : Passed(f, i - 1)}
             landed == {i \in DOMAIN seats : Landed(f, i)}
  <2>1. Mem1(f) = Resized(mem, seats, n, passed) /\ Db1(f) = Resized(db, seats, n, landed)
    OBVIOUS
  <2> HIDE DEF Mem1, Db1, passed, landed, seats
  <2>2. /\ Mem1(f) \in [Tickets -> TicketRecords]
        /\ \A x \in Tickets : /\ Look(x) = NoTicket => Mem1(f)[x] = mem[x]
                              /\ mem[x] # NoTicket => Mem1(f)[x] # NoTicket
    BY <1>4, <2>1, ResizedFacts
  <2>3. /\ Db1(f) \in [Tickets -> TicketRecords]
        /\ \A x \in Tickets : /\ Look(x) = NoTicket => Db1(f)[x] = db[x]
                              /\ db[x] # NoTicket => Db1(f)[x] # NoTicket
    <3>1. db \in [Tickets -> TicketRecords]
      BY <1>4
    <3>2. /\ Resized(db, seats, n, landed) \in [Tickets -> TicketRecords]
          /\ \A x \in Tickets : /\ Look(x) = NoTicket => Resized(db, seats, n, landed)[x] = db[x]
                                /\ db[x] # NoTicket => Resized(db, seats, n, landed)[x] # NoTicket
      BY <3>1, ResizedFacts
    <3> QED
      BY <2>1, <3>2
  <2> QED
    BY <2>2, <2>3
<1>9. /\ table \in [Tickets -> TicketRecords]
      /\ \A x \in Tickets : Look(x) = NoTicket => table[x] = NoTicket
  <2>1. EmptyCache \in [Tickets -> TicketRecords] /\ \A x \in Tickets : EmptyCache[x] = NoTicket
    BY DEF EmptyCache, TicketRecords
  <2> QED
    BY <2>1, ResizedFacts
<1>10. \A x \in Tickets : x > minted => Look(x) = NoTicket /\ mem[x] = NoTicket /\ db[x] = NoTicket
  BY <1>3 DEF FreshTickets, Look
<1>11. \A i \in DOMAIN queue : queue[i] \in Tickets
  BY <1>4
<1> DEFINE mem1 == Mem1(f)
           db1 == Db1(f)
<1> HIDE DEF group, table, Mem1, Db1, k, bound, Starts, seats, row
(* The row of a room that still waits, and of one that has found a match.  *)
<1>12. ASSUME NEW x \in Rooms, x = r, rooms'[x] = row, Len(rosters) <= Len(rosters'), Len(rosters') \in Nat,
              NoFault' => NoFault, \A y \in Tickets : db[y] # NoTicket => db'[y] # NoTicket
       PROVE  GoodRoom(x)'
  <2>1. /\ Elements(rooms'[x].seats) \subseteq 1 .. minted' /\ rooms'[x].need \in Sizes
        /\ rooms'[x].status # "found"
    BY <1>1, <1>5, <1>7, <1>12 DEF seats
  <2>2. rooms'[x].match <= Len(rosters')
    <3>1. rooms[r].match <= Len(rosters) /\ rooms[r].match \in Nat
      BY <1>5, RoomRow DEF RoomInv
    <3> QED
      BY <1>3, <1>7, <1>12, <3>1
  <2>3. Len(rooms'[x].seats) \in 1 .. rooms'[x].need /\ Len(rooms'[x].seats) <= MaxPlayers
    BY <1>6, <1>7, <1>12, SizeFacts, ConstantFacts DEF k
  <2>4. RoomInv(x)'
    BY <2>1, <2>2, <2>3 DEF RoomInv
  <2>5. ASSUME NoFault' PROVE \A y \in Elements(rooms'[x].seats) : db'[y] # NoTicket
    BY <1>5, <1>7, <1>12, <2>5 DEF seats
  <2> QED
    BY <1>1, <1>5, <1>12, <2>4, <2>5 DEF GoodRoom
<1>13. CASE /\ Starts(f)
            /\ Enter(table, group, n)
            /\ db' = StampStore(db1, table, group, k + 1, f)
            /\ rooms' = [rooms EXCEPT ![r] = IF Landed(f, k + n + 3) THEN FoundRow(row) ELSE row]
            /\ Finish(f, StampMemory(mem1, table, group, k + 1, f), missing, queue)
  <2> DEFINE M == StampMemory(mem1, table, group, k + 1, f)
  <2>2. /\ rosters' \in Seq(Rosters) /\ Len(rosters) <= Len(rosters')
        /\ NewMatch \in 0 .. MaxMatches /\ NewMatch \in Nat /\ NewMatch = Len(rosters')
        /\ NewMatch >= 1 /\ Len(rosters') \in Nat
    BY <1>13, EnterFacts
  <2>3. /\ M \in [Tickets -> TicketRecords] /\ db' \in [Tickets -> TicketRecords]
        /\ \A x \in Tickets : /\ table[x] = NoTicket => M[x] = mem1[x] /\ db'[x] = db1[x]
                              /\ mem1[x] # NoTicket => M[x] # NoTicket
                              /\ db1[x] # NoTicket => db'[x] # NoTicket
    BY <1>8, <1>9, <1>13, <2>2, StampFacts
  <2> HIDE DEF M, mem1, db1
  <2>3a. \A x \in Tickets : /\ Look(x) = NoTicket => mem1[x] = mem[x] /\ db1[x] = db[x]
                            /\ mem[x] # NoTicket => mem1[x] # NoTicket
                            /\ db[x] # NoTicket => db1[x] # NoTicket
    BY <1>8 DEF mem1, db1
  <2>4. /\ FoundRow(row) \in RoomRecords /\ FoundRow(row).seats = seats
        /\ FoundRow(row).status = "found" /\ FoundRow(row).match = NewMatch
    BY <1>7, <2>2, RoomRow
  <2>5. StoreShape'
    <3>1. rooms' \in [Rooms -> RoomRecords]
      BY <1>4, <1>7, <1>13, <2>4
    <3> QED
      BY <1>1, <1>3, <2>2, <2>3, <3>1 DEF StoreShape
  <2>6. \A x \in Tickets : db[x] # NoTicket => db'[x] # NoTicket
    BY <2>3, <2>3a
  <2>7. Finish(f, M, missing, queue)
    BY <1>13 DEF M
  <2>7a. NoFault' => NoFault
    BY <1>3, <1>6, <2>7, FaultFree
  <2>8. ASSUME NEW x \in Rooms, rooms'[x] # rooms[x] PROVE GoodRoom(x)'
    <3>1. x = r /\ (rooms'[x] = row \/ rooms'[x] = FoundRow(row))
      BY <1>4, <1>13, <2>8
    <3>2. CASE rooms'[x] = row
      BY <1>12, <2>2, <2>6, <2>7a, <3>1, <3>2
    <3>3. CASE rooms'[x] = FoundRow(row)
      <4>1. /\ rooms'[x].match <= Len(rosters') /\ rooms'[x].match # None
            /\ rooms'[x].status = "found"
        BY <2>2, <2>4, <3>3 DEF None
      <4>2. Elements(rooms'[x].seats) \subseteq 1 .. minted' /\ Len(rooms'[x].seats) <= MaxPlayers
        BY <1>1, <1>5, <2>4, <3>3 DEF RoomInv, seats
      <4>3. RoomInv(x)'
        BY <4>1, <4>2 DEF RoomInv
      <4> QED
        BY <1>1, <1>5, <3>1, <4>1, <4>3 DEF GoodRoom
    <3> QED
      BY <3>1, <3>2, <3>3
  <2>9. \A x \in Tickets : x > minted' => M[x] = NoTicket /\ db'[x] = NoTicket
    BY <1>1, <1>9, <1>10, <2>3, <2>3a
  <2>11. \A i \in DOMAIN queue : M[queue[i]] # NoTicket
    BY <1>4, <1>11, <2>3, <2>3a
  <2>12. opened <= opened' /\ minted <= minted'
    BY <1>1, <1>3
  <2> QED
    BY <1>4, <1>6, <2>2, <2>3, <2>5, <2>6, <2>7, <2>8, <2>9, <2>11, <2>12, HandlerShape
<1>14. CASE /\ ~Starts(f)
            /\ db' = db1
            /\ rooms' = IF Landed(f, k + 1) THEN [rooms EXCEPT ![r] = row] ELSE rooms
            /\ Finish(f, mem1, missing, queue)
            /\ UNCHANGED rosters
  <2>1. /\ mem1 \in [Tickets -> TicketRecords] /\ db1 \in [Tickets -> TicketRecords]
        /\ \A x \in Tickets : /\ Look(x) = NoTicket => mem1[x] = mem[x] /\ db1[x] = db[x]
                              /\ mem[x] # NoTicket => mem1[x] # NoTicket
                              /\ db[x] # NoTicket => db1[x] # NoTicket
    BY <1>8
  <2> HIDE DEF mem1, db1
  <2>2. StoreShape'
    <3>1. rooms' \in [Rooms -> RoomRecords]
      BY <1>4, <1>7, <1>14
    <3> QED
      BY <1>1, <1>3, <1>14, <2>1, <3>1 DEF StoreShape
  <2>3. Len(rosters) <= Len(rosters') /\ Len(rosters') \in Nat /\ opened <= opened' /\ minted <= minted'
    BY <1>1, <1>3, <1>14
  <2>4. \A x \in Tickets : db[x] # NoTicket => db'[x] # NoTicket
    BY <1>14, <2>1
  <2>5. NoFault' => NoFault
    BY <1>3, <1>6, <1>14, FaultFree
  <2>6. ASSUME NEW x \in Rooms, rooms'[x] # rooms[x] PROVE GoodRoom(x)'
    <3>1. x = r /\ rooms'[x] = row
      BY <1>4, <1>14, <2>6
    <3> QED
      BY <1>12, <2>3, <2>4, <2>5, <3>1
  <2>7. \A x \in Tickets : x > minted' => mem1[x] = NoTicket /\ db'[x] = NoTicket
    BY <1>1, <1>10, <1>14, <2>1
  <2>8. \A i \in DOMAIN queue : mem1[queue[i]] # NoTicket
    BY <1>4, <1>11, <2>1
  <2> QED
    BY <1>4, <1>6, <1>14, <2>1, <2>2, <2>3, <2>4, <2>6, <2>7, <2>8, HandlerShape
<1> QED
  BY <1>2, <1>13, <1>14

(* The steps that write no ticket.                                         *)
LEMMA QuietShape ==
    ASSUME ShapeInv,
           \/ \E u \in Users : Login(u)
           \/ \E t \in Tickets : LookupFails(t)
           \/ \E rs \in SUBSET Rooms : SweepExpiredRooms(rs)
           \/ Restart
    PROVE  ShapeInv'
<1>1. /\ Types /\ MemoryShape /\ StoreShape /\ FreshTickets /\ Len(rosters) \in Nat
      /\ minted \in Nat /\ opened \in Nat /\ faults \in Nat /\ restarts \in Nat
  BY ShapeParts, ConstantFacts DEF ShapeInv, MemoryShape
<1>2. UNCHANGED <<db, members, minted, opened, rosters>>
  BY DEF Login, LookupFails, SweepExpiredRooms, Restart, store
<1>3. MemoryShape' /\ FreshTickets' /\ (NoFault' => NoFault)
  <2>1. CASE \E u \in Users : Login(u)
    BY <1>1, <2>1 DEF Login, MemoryShape, FreshTickets, QueueInv, NoFault, counts, store
  <2>2. CASE \E t \in Tickets : LookupFails(t)
    <3>1. faults + 1 \in 0 .. MaxFaults /\ faults + 1 # 0
      BY <1>1, <2>2, ConstantFacts DEF LookupFails
    <3> QED
      BY <1>1, <2>2, <3>1 DEF LookupFails, MemoryShape, FreshTickets, QueueInv, NoFault, store
  <2>3. CASE \E rs \in SUBSET Rooms : SweepExpiredRooms(rs)
    BY <1>1, <2>3 DEF SweepExpiredRooms, MemoryShape, FreshTickets, QueueInv, NoFault, counts, memory
  <2>4. CASE Restart
    <3>1. restarts + 1 \in 0 .. MaxRestarts
      BY <1>1, <2>4, ConstantFacts DEF Restart
    <3>2. EmptyCache \in [Tickets -> TicketRecords] /\ \A x \in Tickets : EmptyCache[x] = NoTicket
      BY DEF EmptyCache, TicketRecords
    <3>3. /\ mem' = EmptyCache /\ missing' = {} /\ queue' = <<>> /\ online' = {} /\ restarts' = restarts + 1
          /\ faults' = faults /\ crashes' = crashes /\ db' = db /\ minted' = minted
      BY <2>4 DEF Restart, store
    <3>4. QueueInv' /\ queue' \in Seq(Tickets)
      BY <3>3 DEF QueueInv
    <3> QED
      BY <1>1, <3>1, <3>2, <3>3, <3>4 DEF MemoryShape, FreshTickets, NoFault
  <2> QED
    BY <2>1, <2>2, <2>3, <2>4
<1>4. Keeps
  BY <1>1, <1>2, <1>3 DEF Keeps
<1>5. CASE \E rs \in SUBSET Rooms : SweepExpiredRooms(rs)
  <2>1. PICK rs \in SUBSET Rooms : SweepExpiredRooms(rs)
    BY <1>5
  <2>2. ASSUME NEW r \in Rooms
        PROVE  rooms'[r] \in RoomRecords /\ (rooms'[r] = rooms[r] \/ GoodRoom(r)')
    <3>1. rooms[r] \in RoomRecords
      BY ShapeParts
    <3>2. CASE r \notin rs
      BY <2>1, <3>1, <3>2 DEF SweepExpiredRooms
    <3>3. CASE r \in rs
      <4> DEFINE row == [rooms[r] EXCEPT !.status = "expired"]
      <4>1. rooms'[r] = row /\ Live(r)
        BY <2>1, <3>3 DEF SweepExpiredRooms
      <4>2. /\ row \in RoomRecords /\ row.seats = rooms[r].seats /\ row.match = rooms[r].match
            /\ row.status = "expired"
        BY <3>1 DEF RoomRecords
      <4> HIDE DEF row
      <4>3. r <= opened /\ RoomInv(r)
        BY <4>1, LiveRoom DEF ShapeInv
      <4>4. RoomInv(r)'
        BY <1>2, <4>1, <4>2, <4>3 DEF RoomInv
      <4> QED
        BY <1>2, <4>1, <4>2, <4>3, <4>4 DEF GoodRoom
    <3> QED
      BY <3>2, <3>3
  <2>3. rooms' \in [Rooms -> RoomRecords]
    <3>1. rooms' = [r \in Rooms |-> rooms'[r]]
      BY <2>1 DEF SweepExpiredRooms
    <3> QED
      BY <2>2, <3>1
  <2>4. StoreShape'
    BY <1>1, <1>2, <2>3 DEF StoreShape
  <2> QED
    BY <1>3, <1>4, <2>2, <2>4, ShapeFromParts
<1>6. CASE ~\E rs \in SUBSET Rooms : SweepExpiredRooms(rs)
  <2>1. rooms' = rooms
    BY <1>6 DEF Login, LookupFails, Restart, store
  <2>2. StoreShape'
    BY <1>1, <1>2, <2>1 DEF StoreShape
  <2> QED
    BY <1>3, <1>4, <2>1, <2>2, ShapeFromParts
<1> QED
  BY <1>5, <1>6

-----------------------------------------------------------------------------
(* Calm states: nothing has gone wrong inside a handler so far.            *)

(* All writes of a handler that all goes well for land.                    *)
LEMMA AllWellFacts ==
    /\ \A k : Passed(AllWell, k) /\ Landed(AllWell, k)
    /\ Kept(AllWell) /\ ~Failed(AllWell, 3)
BY DEF AllWell, Passed, Landed, Kept, Failed

(* In a calm state a lookup answers with the row.                          *)
LEMMA CalmLook ==
    ASSUME ShapeInv, CacheInv
    PROVE  \A t \in Tickets : Look(t) = db[t]
BY DEF CacheInv, Look

(* What the tables rows and db agree on: the matches, and what is decided. *)
SameMatches(rows) ==
    \A t \in Tickets : /\ rows[t].match = db[t].match
                       /\ db[t].match # None => rows[t].user = db[t].user
Final(rows) ==
    \A t \in Tickets : db[t].status \in {"found", "cancelled"} =>
       rows[t].status = db[t].status /\ rows[t].match = db[t].match

(* A row for a user who has none queued.                                   *)
LEMMA AddQueued ==
    ASSUME ShapeInv, OneQueued(db), Decided(db, Len(rosters)), minted < MaxTickets,
           NEW u \in Users, ~HoldsQueued(u), NEW r \in Rooms \cup {None}, NEW n \in Sizes
    PROVE  LET rows == [db EXCEPT ![minted + 1] = Queued(u, r, n)]
           IN /\ OneQueued(rows) /\ Decided(rows, Len(rosters))
              /\ SameMatches(rows) /\ Final(rows)
<1> DEFINE t == minted + 1
           k == Queued(u, r, n)
           rows == [db EXCEPT ![t] = k]
<1>1. db \in [Tickets -> TicketRecords] /\ t \in Tickets /\ db[t] = NoTicket /\ Len(rosters) \in Nat
  BY NextTicket, ShapeParts DEF StoreShape
<1>2. k.user = u /\ k.status = "queued" /\ k.match = None
  BY QueuedFacts
<1>3. rows[t] = k /\ \A x \in Tickets : x # t => rows[x] = db[x]
  BY <1>1
<1>4. \A x \in Tickets : ~(db[x].user = u /\ db[x].status = "queued")
  BY DEF HoldsQueued
<1>5. db[t].status = "none" /\ db[t].match = None
  BY <1>1 DEF NoTicket
<1> HIDE DEF rows, k, t
<1>6. OneQueued(rows)
  BY <1>2, <1>3, <1>4 DEF OneQueued
<1>7. Decided(rows, Len(rosters))
  BY <1>1, <1>2, <1>3 DEF Decided, None
<1>8. SameMatches(rows)
  BY <1>2, <1>3, <1>5 DEF SameMatches
<1>9. Final(rows)
  BY <1>3, <1>5 DEF Final
<1> QED
  BY <1>6, <1>7, <1>8, <1>9 DEF rows, k, t

(* The rows of a match that starts.                                        *)
Stamped(rows, G) ==
    [x \in Tickets |-> IF x \in G THEN Stamp(rows[x], NewMatch) ELSE rows[x]]

(* A match that starts decides its own tickets and no others.              *)
LEMMA StampedFacts ==
    ASSUME NEW rows \in [Tickets -> TicketRecords], OneQueued(rows), Decided(rows, Len(rosters)),
           SameMatches(rows), Final(rows), NEW G \in SUBSET Tickets,
           \A x \in G : rows[x].status = "queued",
           NewMatch \in 0 .. MaxMatches, NewMatch = Len(rosters) + 1, Len(rosters) \in Nat
    PROVE  LET new == Stamped(rows, G)
           IN /\ new \in [Tickets -> TicketRecords]
              /\ \A x \in Tickets : x \notin G => new[x] = rows[x]
              /\ \A x \in Tickets : new[x].user = rows[x].user
              /\ \A x \in G : new[x].status = "found" /\ new[x].match = NewMatch
              /\ OneQueued(new) /\ Decided(new, Len(rosters) + 1) /\ Final(new)
              /\ \A x \in Tickets : new[x].match = NewMatch <=> x \in G
              /\ \A x \in Tickets, m \in 1 .. Len(rosters) : new[x].match = m <=> db[x].match = m
<1> DEFINE new == Stamped(rows, G)
<1>1. \A x \in Tickets : new[x] = IF x \in G THEN Stamp(rows[x], NewMatch) ELSE rows[x]
  BY DEF Stamped
<1>2. new = [x \in Tickets |-> new[x]]
  BY DEF Stamped
<1> HIDE DEF new
<1>3. ASSUME NEW x \in G
      PROVE  /\ new[x] \in TicketRecords /\ new[x].user = rows[x].user
             /\ new[x].status = "found" /\ new[x].match = NewMatch
             /\ rows[x].match = None
  <2>1. rows[x] \in TicketRecords /\ rows[x].status = "queued" /\ new[x] = Stamp(rows[x], NewMatch)
    BY <1>1
  <2>2. rows[x] # NoTicket
    BY <2>1, TicketFacts
  <2>3. /\ Stamp(rows[x], NewMatch) \in TicketRecords
        /\ Stamp(rows[x], NewMatch).user = rows[x].user
        /\ Stamp(rows[x], NewMatch).status = "found" /\ Stamp(rows[x], NewMatch).match = NewMatch
    BY <2>1, <2>2, StampRow
  <2>4. rows[x].match = None
    BY <2>1 DEF Decided
  <2> QED
    BY <2>1, <2>3, <2>4
<1>4. \A x \in Tickets : x \notin G => new[x] = rows[x]
  BY <1>1
<1>5. new \in [Tickets -> TicketRecords]
  BY <1>2, <1>3, <1>4
<1>6. \A x \in Tickets : new[x].user = rows[x].user
  BY <1>3, <1>4
<1>7. OneQueued(new)
  BY <1>3, <1>4 DEF OneQueued
<1>8. \A x \in Tickets : rows[x].match \in Nat
  BY TicketFacts, ConstantFacts
<1>9. Decided(new, Len(rosters) + 1)
  BY <1>3, <1>4, <1>8 DEF Decided
<1>10. Final(new)
  BY <1>3, <1>4 DEF Final
<1>11. \A x \in Tickets : new[x].match = NewMatch <=> x \in G
  BY <1>3, <1>4, <1>8 DEF Decided
<1>12. \A x \in Tickets, m \in 1 .. Len(rosters) : new[x].match = m <=> db[x].match = m
  BY <1>3, <1>4 DEF SameMatches, None
<1> QED
  BY <1>3, <1>4, <1>5, <1>6, <1>7, <1>9, <1>10, <1>11, <1>12 DEF new

(* With everything well, exactly the tickets of the group are stamped.     *)
LEMMA CalmStamp ==
    ASSUME NEW rows \in [Tickets -> TicketRecords], NEW cache \in [Tickets -> TicketRecords],
           \A x \in Tickets : cache[x] \in {NoTicket, rows[x]},
           NEW table, NEW g, NEW b,
           \A x \in Elements(g) : table[x] = rows[x] /\ rows[x] # NoTicket
    PROVE  /\ StampStore(rows, table, g, b, AllWell) = Stamped(rows, Elements(g))
           /\ \A x \in Tickets : StampMemory(cache, table, g, b, AllWell)[x] \in
                 {NoTicket, Stamped(rows, Elements(g))[x]}
           /\ \A x \in Tickets : cache[x] # NoTicket =>
                 StampMemory(cache, table, g, b, AllWell)[x] = Stamped(rows, Elements(g))[x]
<1> DEFINE SS == StampStore(rows, table, g, b, AllWell)
           SM == StampMemory(cache, table, g, b, AllWell)
           new == Stamped(rows, Elements(g))
<1>1. \A x : x \in Elements(g) <=> \E i \in DOMAIN g : g[i] = x
  BY DEF Elements
<1>2. ASSUME NEW x \in Tickets
      PROVE  /\ SS[x] = IF table[x] # NoTicket /\ x \in Elements(g) THEN Stamp(table[x], NewMatch) ELSE rows[x]
             /\ SM[x] = IF table[x] # NoTicket /\ x \in Elements(g) THEN Stamp(table[x], NewMatch) ELSE cache[x]
             /\ new[x] = IF x \in Elements(g) THEN Stamp(rows[x], NewMatch) ELSE rows[x]
  BY <1>1, AllWellFacts DEF StampStore, StampMemory, Stamped
<1>3. SS = [x \in Tickets |-> SS[x]] /\ new = [x \in Tickets |-> new[x]]
  BY DEF StampStore, Stamped
<1> HIDE DEF SS, SM, new
<1>4. \A x \in Tickets : /\ SS[x] = new[x] /\ SM[x] \in {NoTicket, new[x]}
                         /\ cache[x] # NoTicket => SM[x] = new[x]
  BY <1>2
<1>5. SS = new
  BY <1>3, <1>4
<1> QED
  BY <1>4, <1>5 DEF SS, SM, new

(* The players of a group of queued tickets are as many as the tickets.    *)
LEMMA GroupSize ==
    ASSUME NEW rows \in [Tickets -> TicketRecords], OneQueued(rows),
           NEW g \in Seq(Tickets), Distinct(g), \A x \in Elements(g) : rows[x].status = "queued"
    PROVE  Cardinality({rows[x].user : x \in Elements(g)}) = Len(g)
<1> DEFINE S == {rows[x].user : x \in Elements(g)}
           h == [i \in 1 .. Len(g) |-> rows[g[i]].user]
<1>1. Len(g) \in Nat /\ DOMAIN g = 1 .. Len(g) /\ \A i \in 1 .. Len(g) : g[i] \in Tickets
  BY LenProperties, ElementOfSeq
<1>2. \A i \in 1 .. Len(g) : g[i] \in Elements(g) /\ rows[g[i]].status = "queued"
  BY <1>1 DEF Elements
<1>3. h \in [1 .. Len(g) -> S]
  BY <1>2
<1>4. \A i, j \in 1 .. Len(g) : h[i] = h[j] => i = j
  <2> SUFFICES ASSUME NEW i \in 1 .. Len(g), NEW j \in 1 .. Len(g), h[i] = h[j] PROVE i = j
    OBVIOUS
  <2>1. rows[g[i]].user = rows[g[j]].user
    OBVIOUS
  <2>2. g[i] = g[j]
    BY <1>1, <1>2, <2>1 DEF OneQueued
  <2> QED
    BY <1>1, <2>2 DEF Distinct
<1>5. \A v \in S : \E i \in 1 .. Len(g) : h[i] = v
  BY <1>1 DEF Elements
<1> HIDE DEF h, S
<1>6. h \in Bijection(1 .. Len(g), S)
  BY <1>3, <1>4, <1>5 DEF Bijection, Injection, Surjection, IsInjective
<1>7. ExistsBijection(1 .. Len(g), S)
  BY <1>6 DEF ExistsBijection
<1>8. Cardinality(S) = Len(g)
  BY <1>1, <1>7, FS_CountingElements
<1> QED
  BY <1>8 DEF S

(* A step that starts no match keeps the players of the matches.           *)
LEMMA RosterKept ==
    ASSUME RosterBody, SameMatches(db'), rosters' = rosters, online' = online, Len(rosters) \in Nat,
           DOMAIN rosters = 1 .. Len(rosters)
    PROVE  RosterBody'
<1>1. ASSUME NEW m \in DOMAIN rosters
      PROVE  /\ rosters'[m].users = {db'[t].user : t \in {x \in Tickets : db'[x].match = m}}
             /\ Cardinality(rosters'[m].users) = rosters'[m].size
  <2>1. /\ rosters[m].users = {db[t].user : t \in {x \in Tickets : db[x].match = m}}
        /\ Cardinality(rosters[m].users) = rosters[m].size
    BY DEF RosterBody
  <2>2. m # None
    BY DEF None
  <2>3. {db'[t].user : t \in {x \in Tickets : db'[x].match = m}}
           = {db[t].user : t \in {x \in Tickets : db[x].match = m}}
    BY <2>2 DEF SameMatches
  <2> QED
    BY <2>1, <2>3
<1> QED
  BY <1>1 DEF RosterBody

(* A match that starts with the distinct queued tickets g has their users. *)
LEMMA RosterStart ==
    ASSUME ShapeInv, RosterBody, online' = online,
           NEW rows \in [Tickets -> TicketRecords], OneQueued(rows), Decided(rows, Len(rosters)),
           SameMatches(rows), Final(rows),
           NEW g \in Seq(Tickets), Distinct(g), \A x \in Elements(g) : rows[x].status = "queued",
           NEW size \in Sizes, Len(g) = size,
           NEW table, \A x \in Elements(g) : table[x] = rows[x],
           Enter(table, g, size), db' = Stamped(rows, Elements(g))
    PROVE  RosterBody'
<1> DEFINE G == Elements(g)
<1>1. /\ rosters' \in Seq(Rosters)
      /\ rosters'[Len(rosters) + 1] = [users |-> RosterOf(table, g), size |-> size]
      /\ \A m \in DOMAIN rosters : rosters'[m] = rosters[m]
      /\ DOMAIN rosters' = DOMAIN rosters \cup {Len(rosters) + 1}
      /\ NewMatch = Len(rosters) + 1 /\ NewMatch \in 0 .. MaxMatches
  BY EnterFacts
<1>2. rosters \in Seq(Rosters) /\ Len(rosters) \in Nat /\ DOMAIN rosters = 1 .. Len(rosters)
  BY ShapeParts, LenProperties DEF StoreShape
<1>3. G \in SUBSET Tickets /\ \A x \in G : rows[x].status = "queued"
  BY ElementOfSeq, LenProperties DEF Elements
<1>4. /\ \A x \in Tickets : db'[x].user = rows[x].user
      /\ \A x \in Tickets : db'[x].match = NewMatch <=> x \in G
      /\ \A x \in Tickets, m \in 1 .. Len(rosters) : db'[x].match = m <=> db[x].match = m
  BY <1>1, <1>2, <1>3, StampedFacts
<1>5. \A x \in G : rows[x].user \in Users
  <2> SUFFICES ASSUME NEW x \in G PROVE rows[x].user \in Users
    OBVIOUS
  <2>1. rows[x] \in TicketRecords /\ rows[x].status = "queued"
    BY <1>3
  <2> QED
    BY <2>1, TicketFacts DEF TicketRows
<1>6. RosterOf(table, g) = {rows[x].user : x \in G}
  <2>1. {table[g[i]].user : i \in DOMAIN g} = {table[x].user : x \in G}
    BY DEF Elements
  <2>2. {table[x].user : x \in G} = {rows[x].user : x \in G}
    OBVIOUS
  <2>3. online = Users
    BY DEF RosterBody
  <2> HIDE DEF G
  <2> QED
    BY <1>5, <2>1, <2>2, <2>3 DEF RosterOf
<1> HIDE DEF G
<1>7. ASSUME NEW m \in DOMAIN rosters
      PROVE  /\ rosters'[m].users = {db'[t].user : t \in {x \in Tickets : db'[x].match = m}}
             /\ Cardinality(rosters'[m].users) = rosters'[m].size
  <2>1. /\ rosters'[m] = rosters[m]
        /\ rosters[m].users = {db[t].user : t \in {x \in Tickets : db[x].match = m}}
        /\ Cardinality(rosters[m].users) = rosters[m].size
    BY <1>1 DEF RosterBody
  <2>2. m \in 1 .. Len(rosters)
    BY <1>2
  <2>3. ASSUME NEW x \in Tickets, db[x].match = m PROVE db'[x].user = db[x].user
    BY <1>4, <2>2, <2>3 DEF SameMatches, None
  <2>4. {db'[t].user : t \in {x \in Tickets : db'[x].match = m}}
           = {db[t].user : t \in {x \in Tickets : db[x].match = m}}
    BY <1>4, <2>2, <2>3
  <2> QED
    BY <2>1, <2>4
<1>8. {db'[t].user : t \in {x \in Tickets : db'[x].match = NewMatch}} = {rows[x].user : x \in G}
  <2>1. {x \in Tickets : db'[x].match = NewMatch} = G
    BY <1>3, <1>4
  <2> QED
    BY <1>3, <1>4, <2>1
<1>9. Cardinality({rows[x].user : x \in G}) = size
  BY GroupSize DEF G
<1>10. /\ rosters'[NewMatch].users = {db'[t].user : t \in {x \in Tickets : db'[x].match = NewMatch}}
       /\ Cardinality(rosters'[NewMatch].users) = rosters'[NewMatch].size
  <2> DEFINE S == {rows[x].user : x \in G}
  <2>1. rosters'[NewMatch] = [users |-> S, size |-> size]
    BY <1>1, <1>6
  <2> HIDE DEF S
  <2>2. rosters'[NewMatch].users = S /\ rosters'[NewMatch].size = size
    BY <2>1
  <2> QED
    BY <1>8, <1>9, <2>2 DEF S
<1>11. \A m \in DOMAIN rosters' : m \in DOMAIN rosters \/ m = NewMatch
  BY <1>1
<1> QED
  BY <1>7, <1>10, <1>11 DEF RosterBody

(* A waiting room whose seats, members and tickets a step leaves alone.    *)
LEMMA SeatsKept ==
    ASSUME NEW r \in Rooms, SeatsOK(r), rooms'[r] = rooms[r], members'[r] = members[r],
           \A x \in Elements(rooms[r].seats) : db'[x] = db[x]
    PROVE  SeatsOK(r)'
BY DEF SeatsOK

(* The first n of a line and the rest.                                     *)
LEMMA SplitFacts ==
    ASSUME NEW A, NEW q \in Seq(A), NEW n \in Nat, n <= Len(q)
    PROVE  LET g == SubSeq(q, 1, n)
               p == SubSeq(q, n + 1, Len(q))
           IN /\ g \in Seq(A) /\ Len(g) = n /\ p \in Seq(A)
              /\ Elements(g) \subseteq Elements(q) /\ Elements(p) \subseteq Elements(q)
              /\ n = Len(q) => Elements(g) = Elements(q)
              /\ Distinct(q) => /\ Distinct(g) /\ Distinct(p)
                                /\ \A x \in Elements(p) : x \notin Elements(g)
<1> DEFINE g == SubSeq(q, 1, n)
           p == SubSeq(q, n + 1, Len(q))
           m == Len(q)
<1>1. m \in Nat /\ DOMAIN q = 1 .. m /\ \A i \in 1 .. m : q[i] \in A
  BY LenProperties, ElementOfSeq
<1>2. g \in Seq(A) /\ DOMAIN g = 1 .. n /\ Len(g) = n /\ \A i \in 1 .. n : g[i] = q[i]
  <2>1. \A i \in 1 .. n : q[i] \in A
    BY <1>1
  <2>2. /\ g \in Seq(A) /\ Len(g) = IF 1 <= n THEN n - 1 + 1 ELSE 0
        /\ \A i \in 1 .. n - 1 + 1 : g[i] = q[1 + i - 1]
    BY <2>1, SubSeqProperties
  <2>3. Len(g) = n
    BY <2>2
  <2>4. DOMAIN g = 1 .. n
    BY <2>2, <2>3, LenProperties
  <2> HIDE DEF g
  <2> QED
    BY <2>2, <2>3, <2>4
<1>3. /\ p \in Seq(A) /\ DOMAIN p = 1 .. (m - n)
      /\ \A i \in 1 .. (m - n) : p[i] = q[n + i]
  <2>1. \A i \in (n + 1) .. m : q[i] \in A
    BY <1>1
  <2>2. n + 1 \in Int /\ m \in Int
    BY <1>1
  <2>3. /\ p \in Seq(A) /\ Len(p) = IF n + 1 <= m THEN m - (n + 1) + 1 ELSE 0
        /\ \A i \in 1 .. m - (n + 1) + 1 : p[i] = q[n + 1 + i - 1]
    BY <2>1, <2>2, SubSeqProperties
  <2>3a. m \in Nat /\ n <= m
    BY <1>1
  <2> HIDE DEF m, p
  <2>4. Len(p) = m - n
    BY <2>3, <2>3a
  <2>5. DOMAIN p = 1 .. (m - n)
    BY <2>3, <2>4, LenProperties
  <2>6. \A i \in 1 .. (m - n) : p[i] = q[n + i]
    <3> SUFFICES ASSUME NEW i \in 1 .. (m - n) PROVE p[i] = q[n + i]
      OBVIOUS
    <3>1. i \in 1 .. m - (n + 1) + 1 /\ n + 1 + i - 1 = n + i
      BY <1>1
    <3> QED
      BY <2>3, <3>1
  <2> QED
    BY <2>3, <2>5, <2>6
<1> HIDE DEF g, p, m
<1>4. n <= m
  BY DEF m
<1>5. \A i \in 1 .. n : i \in 1 .. m
  BY <1>1, <1>4
<1>6. \A i \in 1 .. (m - n) : n + i \in 1 .. m /\ ~(n + i \in 1 .. n)
  BY <1>1, <1>4
<1>7. Elements(g) \subseteq Elements(q) /\ Elements(p) \subseteq Elements(q)
  BY <1>1, <1>2, <1>3, <1>5, <1>6 DEF Elements
<1>8. n = m => Elements(g) = Elements(q)
  BY <1>1, <1>2 DEF Elements
<1>9. ASSUME Distinct(q)
      PROVE  Distinct(g) /\ Distinct(p) /\ \A x \in Elements(p) : x \notin Elements(g)
  <2>1. Distinct(g)
    BY <1>1, <1>2, <1>5, <1>9 DEF Distinct
  <2>2. Distinct(p)
    <3> SUFFICES ASSUME NEW i \in 1 .. (m - n), NEW j \in 1 .. (m - n), p[i] = p[j] PROVE i = j
      BY <1>3 DEF Distinct
    <3>1. q[n + i] = q[n + j] /\ n + i \in 1 .. m /\ n + j \in 1 .. m
      BY <1>3, <1>6
    <3>2. n + i = n + j
      BY <1>1, <1>9, <3>1 DEF Distinct
    <3> QED
      BY <1>1, <3>2
  <2>3. ASSUME NEW i \in 1 .. (m - n), NEW j \in 1 .. n PROVE p[i] # g[j]
    <3>1. p[i] = q[n + i] /\ g[j] = q[j] /\ n + i \in 1 .. m /\ j \in 1 .. m
      BY <1>2, <1>3, <1>5, <1>6
    <3>2. n + i # j
      BY <1>6
    <3> QED
      BY <1>1, <1>9, <3>1, <3>2 DEF Distinct
  <2> QED
    BY <1>2, <1>3, <2>1, <2>2, <2>3 DEF Elements
<1> QED
  BY <1>2, <1>3, <1>7, <1>8, <1>9 DEF g, p, m

(* What a step to a calm state comes from and keeps.                       *)
CalmStep ==
    Calm' => /\ Calm /\ CalmBody' /\ Final(db')
             /\ restarts' = 0 => restarts = 0 /\ RosterBody'

(* A calm state comes from a calm one, by a handler that all went well     *)
(* for.                                                                    *)
LEMMA FinishCalm ==
    ASSUME Types, NEW n \in Nat, NEW f \in Outcomes(n), NEW M, NEW Q,
           Finish(f, M, missing, Q), Calm'
    PROVE  /\ Calm /\ f = AllWell /\ mem' = M /\ missing' = missing /\ queue' = Q
           /\ online' = online /\ restarts' = restarts
<1>1. faults \in Nat /\ crashes \in Nat
  BY ConstantFacts DEF Types
<1>2. /\ f.how \in {"ok", "lost", "unknown", "crash"} /\ (f.how = "ok" => f = AllWell)
  BY OutcomeFacts
<1>3. /\ faults' = IF f.how \in {"lost", "unknown"} THEN faults + 1 ELSE faults
      /\ crashes' = IF f.how = "crash" THEN crashes + 1 ELSE crashes
  BY DEF Finish
<1>4. f.how = "ok"
  BY <1>1, <1>2, <1>3 DEF Calm, NoFault
<1> QED
  BY <1>2, <1>3, <1>4 DEF Finish, Calm, NoFault

(* The seats of a waiting room name rows of that room, not the next id.    *)
LEMMA SeatRows ==
    ASSUME ShapeInv, SeatsInv, NEW r \in Rooms, rooms[r].status = "waiting",
           NEW x \in Elements(rooms[r].seats)
    PROVE  /\ SeatsOK(r) /\ x \in Tickets /\ x # minted + 1
           /\ db[x].user \in Users /\ db[x].room = r /\ db[x].status = "queued" /\ r # None
           /\ db[x].need = rooms[r].need /\ db[x] # NoTicket
<1>1. /\ SeatsOK(r) /\ x \in 1 .. minted /\ x \in Tickets /\ minted \in Nat
  BY WaitingRoom, ShapeParts DEF SeatsInv
<1>2. db[x] = Queued(db[x].user, r, rooms[r].need)
  BY <1>1 DEF SeatsOK
<1>3. db[x].room = r /\ db[x].status = "queued" /\ db[x].need = rooms[r].need
  BY <1>2 DEF Queued
<1>4. db[x] \in TicketRecords
  BY <1>1, ShapeParts DEF StoreShape
<1>5. db[x] # NoTicket /\ db[x].user \in Users
  BY <1>3, <1>4, TicketFacts DEF TicketRows
<1> QED
  BY <1>1, <1>3, <1>5, ConstantFacts DEF Rooms, None

(* The waiting rooms are not touched when only tickets without a room are. *)
LEMMA RoomsUntouched ==
    ASSUME ShapeInv, SeatsInv, UNCHANGED <<rooms, members>>,
           \A x \in Tickets : x # minted + 1 /\ db[x].room # None => db'[x] = db[x]
    PROVE  SeatsInv'
<1> SUFFICES ASSUME NEW r \in Rooms, rooms[r].status = "waiting" PROVE SeatsOK(r)'
  BY DEF SeatsInv
<1>1. \A x \in Elements(rooms[r].seats) : db'[x] = db[x]
  BY SeatRows
<1>2. SeatsOK(r)
  BY DEF SeatsInv
<1> QED
  BY <1>1, <1>2, SeatsKept

(* JoinQueue between calm states.                                          *)
LEMMA JoinQueueCalm ==
    ASSUME ShapeInv, CalmInv, RosterInv, NEW u \in Users, NEW n \in Sizes, JoinQueue(u, n)
    PROVE  CalmStep
<1> SUFFICES ASSUME Calm'
             PROVE  Calm /\ CalmBody' /\ Final(db') /\ (restarts' = 0 => restarts = 0 /\ RosterBody')
  BY DEF CalmStep
<1> DEFINE t == minted + 1
           tk == Queued(u, None, n)
           line == Append(queue, t)
           table == [x \in Tickets |-> IF x = t THEN tk ELSE Look(x)]
           need == table[line[1]].need
           group == Group(line, need)
           mem1 == [mem EXCEPT ![t] = tk]
           db1 == [db EXCEPT ![t] = tk]
<1>1. minted < MaxTickets /\ minted' = t /\ UNCHANGED <<rooms, members, opened>> /\ ~HoldsQueued(u)
  BY DEF JoinQueue
<1>2. \/ /\ \E f \in Outcomes(1) :
               /\ db' = IF Passed(f, 1) THEN db1 ELSE db
               /\ Finish(f, IF Passed(f, 1) THEN mem1 ELSE mem,
                         missing, IF Passed(f, 1) THEN line ELSE queue)
         /\ UNCHANGED rosters
      \/ /\ Len(line) >= need
         /\ \E f \in Outcomes(need + 2) :
               IF Passed(f, 1)
               THEN /\ Enter(table, group, need)
                    /\ db' = StampStore(db1, table, group, 1, f)
                    /\ Finish(f, StampMemory(mem1, table, group, 1, f), missing,
                              SubSeq(line, need + 1, Len(line)))
               ELSE /\ Finish(f, mem, missing, queue)
                    /\ UNCHANGED <<db, rosters>>
  BY <1>1 DEF JoinQueue
<1>3. /\ tk \in TicketRecords /\ tk # NoTicket /\ tk.need = n /\ tk.user = u
      /\ tk.status = "queued" /\ tk.room = None
  BY QueuedFacts DEF None
<1>4. /\ Types /\ MemoryShape /\ StoreShape /\ Len(rosters) \in Nat
  BY ShapeParts DEF ShapeInv
<1>5. /\ mem \in [Tickets -> TicketRecords] /\ db \in [Tickets -> TicketRecords]
      /\ queue \in Seq(Tickets) /\ \A i \in DOMAIN queue : mem[queue[i]] # NoTicket
      /\ rosters \in Seq(Rosters)
  BY <1>4 DEF MemoryShape, StoreShape, QueueInv
<1>6. t \in Tickets /\ mem[t] = NoTicket /\ db[t] = NoTicket
  BY <1>1, NextTicket
<1>7. /\ mem1 \in [Tickets -> TicketRecords] /\ mem1[t] = tk
      /\ \A x \in Tickets : x # t => mem1[x] = mem[x]
      /\ db1 \in [Tickets -> TicketRecords] /\ db1[t] = tk
      /\ \A x \in Tickets : x # t => db1[x] = db[x]
  BY <1>1, <1>3, <1>5, WithNew
<1>8. /\ table \in [Tickets -> TicketRecords] /\ table[t] = tk
      /\ \A x \in Tickets : x # t => table[x] = Look(x)
  BY <1>1, <1>3, TableFacts
<1>8a. NoTicket.status = "none"
  BY DEF NoTicket
<1> HIDE DEF tk, table, group, mem1
<1>9. ASSUME Calm
      PROVE  /\ CacheInv /\ LineInv /\ SeatsInv
             /\ OneQueued(db1) /\ Decided(db1, Len(rosters)) /\ SameMatches(db1) /\ Final(db1)
             /\ \A x \in Tickets : Look(x) = db[x] /\ table[x] = db1[x] /\ mem1[x] \in {NoTicket, db1[x]}
  <2>1. CalmBody
    BY <1>9 DEF CalmInv
  <2>2. OneQueued(db1) /\ Decided(db1, Len(rosters)) /\ SameMatches(db1) /\ Final(db1)
    BY <1>1, <2>1, AddQueued DEF CalmBody, tk
  <2>3. CacheInv /\ LineInv /\ SeatsInv
    BY <2>1 DEF CalmBody
  <2>4. \A x \in Tickets : Look(x) = db[x]
    BY <2>3, CalmLook
  <2> HIDE DEF t, db1
  <2> QED
    BY <1>7, <1>8, <2>2, <2>3, <2>4 DEF CacheInv
<1> HIDE DEF db1
<1>10. /\ line \in Seq(Tickets) /\ Len(line) = Len(queue) + 1 /\ Len(queue) \in Nat
       /\ DOMAIN queue = 1 .. Len(queue) /\ DOMAIN line = 1 .. (Len(queue) + 1)
       /\ \A i \in 1 .. Len(queue) : line[i] = queue[i]
       /\ line[Len(queue) + 1] = t
       /\ Elements(line) = Elements(queue) \cup {t}
       /\ Distinct(queue) /\ t \notin Elements(queue) => Distinct(line)
  BY <1>5, <1>6, AppendFacts
<1>11. Elements(queue) \subseteq Tickets /\ Elements(line) \subseteq Tickets
  <2>1. Elements(queue) \subseteq Tickets
    BY <1>5, <1>10, ElementOfSeq DEF Elements
  <2> HIDE DEF line
  <2> QED
    BY <1>6, <1>10, <2>1
<1> HIDE DEF line
<1>12. ASSUME Calm
       PROVE  /\ Distinct(line)
              /\ \A x \in Elements(line) : db1[x].status = "queued" /\ db1[x].room = None
  <2>1. \A x \in Elements(queue) : x \in Tickets /\ db[x].status = "queued" /\ db[x].room = None
    BY <1>9, <1>11, <1>12 DEF LineInv, Elements
  <2>2. t \notin Elements(queue)
    BY <1>6, <1>8a, <2>1
  <2>3. Distinct(queue)
    BY <1>9, <1>12 DEF LineInv
  <2> HIDE DEF t
  <2> QED
    BY <1>3, <1>7, <1>10, <2>1, <2>2, <2>3
<1>13. need \in Sizes /\ need \in Nat /\ need >= 1
  <2>1. 1 \in DOMAIN line
    BY <1>10
  <2>2. line[1] \in Elements(line)
    BY <2>1 DEF Elements
  <2>3. line[1] \in Tickets
    BY <1>11, <2>2
  <2>4. table[line[1]] # NoTicket
    <3>1. CASE line[1] = t
      BY <1>3, <1>8, <3>1
    <3>2. CASE line[1] # t
      <4>1. line[1] \in Elements(queue)
        BY <1>10, <2>2, <3>2
      <4>2. mem[line[1]] # NoTicket
        BY <1>5, <4>1 DEF Elements
      <4> QED
        BY <1>4, <1>8, <2>3, <3>2, <4>2, LookFacts
    <3> QED
      BY <3>1, <3>2
  <2>5. table[line[1]] \in TicketRecords
    BY <1>8, <2>3
  <2>6. need \in Sizes
    BY <2>4, <2>5, TicketFacts DEF TicketRows
  <2> HIDE DEF need
  <2> QED
    BY <2>6, SizeFacts
<1> HIDE DEF need
<1>14. CASE /\ \E f \in Outcomes(1) :
                  /\ db' = IF Passed(f, 1) THEN db1 ELSE db
                  /\ Finish(f, IF Passed(f, 1) THEN mem1 ELSE mem,
                            missing, IF Passed(f, 1) THEN line ELSE queue)
            /\ UNCHANGED rosters
  <2>1. PICK f \in Outcomes(1) :
            /\ db' = IF Passed(f, 1) THEN db1 ELSE db
            /\ Finish(f, IF Passed(f, 1) THEN mem1 ELSE mem,
                      missing, IF Passed(f, 1) THEN line ELSE queue)
    BY <1>14
  <2>2. /\ Calm /\ f = AllWell /\ missing' = missing /\ online' = online /\ restarts' = restarts
        /\ mem' = (IF Passed(f, 1) THEN mem1 ELSE mem)
        /\ queue' = (IF Passed(f, 1) THEN line ELSE queue)
    <3>1. 1 \in Nat
      OBVIOUS
    <3> QED
      BY <1>4, <2>1, <3>1, FinishCalm
  <2>3. mem' = mem1 /\ queue' = line /\ db' = db1 /\ rosters' = rosters
    BY <1>14, <2>1, <2>2, AllWellFacts
  <2>4. CacheInv'
    BY <1>9, <2>2, <2>3 DEF CacheInv
  <2>5. LineInv'
    BY <1>12, <2>2, <2>3 DEF LineInv, Elements
  <2>6. SeatsInv'
    BY <1>1, <1>7, <1>9, <2>2, <2>3, RoomsUntouched
  <2>7. ASSUME restarts' = 0 PROVE restarts = 0 /\ RosterBody'
    <3>1. RosterBody /\ DOMAIN rosters = 1 .. Len(rosters)
      BY <1>5, <2>2, <2>7, LenProperties DEF RosterInv
    <3> QED
      BY <1>4, <1>9, <2>2, <2>3, <2>7, <3>1, RosterKept
  <2> QED
    BY <1>9, <2>2, <2>3, <2>4, <2>5, <2>6, <2>7 DEF CalmBody
<1>15. CASE /\ Len(line) >= need
            /\ \E f \in Outcomes(need + 2) :
                  IF Passed(f, 1)
                  THEN /\ Enter(table, group, need)
                       /\ db' = StampStore(db1, table, group, 1, f)
                       /\ Finish(f, StampMemory(mem1, table, group, 1, f), missing,
                                 SubSeq(line, need + 1, Len(line)))
                  ELSE /\ Finish(f, mem, missing, queue)
                       /\ UNCHANGED <<db, rosters>>
  <2>1. PICK f \in Outcomes(need + 2) :
                  IF Passed(f, 1)
                  THEN /\ Enter(table, group, need)
                       /\ db' = StampStore(db1, table, group, 1, f)
                       /\ Finish(f, StampMemory(mem1, table, group, 1, f), missing,
                                 SubSeq(line, need + 1, Len(line)))
                  ELSE /\ Finish(f, mem, missing, queue)
                       /\ UNCHANGED <<db, rosters>>
    BY <1>15
  <2> DEFINE M == StampMemory(mem1, table, group, 1, f)
             Q == SubSeq(line, need + 1, Len(line))
             G == Elements(group)
  <2>2. need + 2 \in Nat
    BY <1>13
  <2>3. \E M1, Q1 : Finish(f, M1, missing, Q1)
    BY <2>1
  <2>4. f = AllWell /\ Calm
    BY <1>4, <2>2, <2>3, FinishCalm
  <2>5. /\ Enter(table, group, need) /\ Finish(f, M, missing, Q)
        /\ db' = StampStore(db1, table, group, 1, f)
    BY <2>1, <2>4, AllWellFacts
  <2>6. /\ missing' = missing /\ online' = online /\ restarts' = restarts /\ mem' = M /\ queue' = Q
    BY <1>4, <2>2, <2>5, FinishCalm
  <2>7. /\ group \in Seq(Tickets) /\ Len(group) = need /\ Q \in Seq(Tickets)
        /\ G \subseteq Elements(line) /\ Elements(Q) \subseteq Elements(line)
        /\ Distinct(group) /\ Distinct(Q) /\ \A x \in Elements(Q) : x \notin G
    BY <1>10, <1>12, <1>13, <1>15, <2>4, SplitFacts DEF group, Group
  <2> HIDE DEF M, Q
  <2>8. G \in SUBSET Tickets /\ \A x \in G : /\ db1[x].status = "queued" /\ db1[x].room = None
                                             /\ table[x] = db1[x] /\ db1[x] # NoTicket
    BY <1>8a, <1>9, <1>11, <1>12, <2>4, <2>7
  <2>9. /\ db' = Stamped(db1, G)
        /\ \A x \in Tickets : mem'[x] \in {NoTicket, db'[x]}
    BY <1>7, <1>9, <2>4, <2>5, <2>6, <2>8, CalmStamp DEF M
  <2>10. /\ NewMatch = Len(rosters) + 1 /\ NewMatch \in 0 .. MaxMatches
         /\ Len(rosters') = Len(rosters) + 1
    BY <1>13, <2>5, EnterFacts
  <2>11. /\ \A x \in Tickets : x \notin G => db'[x] = db1[x]
         /\ OneQueued(db') /\ Decided(db', Len(rosters) + 1) /\ Final(db')
    BY <1>4, <1>7, <1>9, <2>4, <2>8, <2>9, <2>10, StampedFacts
  <2> HIDE DEF G
  <2>12. CacheInv'
    BY <1>9, <2>4, <2>6, <2>9 DEF CacheInv
  <2>13. LineInv'
    <3>1. \A x \in Elements(Q) : x \in Tickets /\ db'[x] = db1[x] /\ db1[x].status = "queued" /\ db1[x].room = None
      BY <1>11, <1>12, <2>4, <2>7, <2>11
    <3> QED
      BY <2>6, <2>7, <3>1 DEF LineInv, Elements
  <2>14. SeatsInv'
    <3>1. ASSUME NEW x \in Tickets, x # t, db[x].room # None PROVE db'[x] = db[x]
      BY <1>7, <2>8, <2>11, <3>1
    <3> QED
      BY <1>1, <1>9, <2>4, <3>1, RoomsUntouched
  <2>15. ASSUME restarts' = 0 PROVE restarts = 0 /\ RosterBody'
    <3>1. RosterBody /\ restarts = 0
      BY <2>4, <2>6, <2>15 DEF RosterInv
    <3>2. db' = Stamped(db1, Elements(group)) /\ \A x \in Elements(group) : table[x] = db1[x] /\ db1[x].status = "queued"
      BY <2>8, <2>9 DEF G
    <3> QED
      BY <1>7, <1>9, <1>13, <2>4, <2>5, <2>6, <2>7, <3>1, <3>2, RosterStart
  <2> QED
    BY <1>9, <2>4, <2>10, <2>11, <2>12, <2>13, <2>14, <2>15 DEF CalmBody
<1> QED
  BY <1>2, <1>14, <1>15

(* A ticket for a room r joins no line and sits in no other room.          *)
LEMMA CreateRoomCalm ==
    ASSUME ShapeInv, CalmInv, RosterInv, NEW u \in Users, NEW n \in Sizes, CreateRoom(u, n)
    PROVE  CalmStep
<1> SUFFICES ASSUME Calm'
             PROVE  Calm /\ CalmBody' /\ Final(db') /\ (restarts' = 0 => restarts = 0 /\ RosterBody')
  BY DEF CalmStep
<1> DEFINE t == minted + 1
           r == opened + 1
           tk == Queued(u, r, n)
           mem1 == [mem EXCEPT ![t] = tk]
           db1 == [db EXCEPT ![t] = tk]
           Fresh(f) == [status |-> IF Failed(f, 3) THEN "closed" ELSE "waiting",
                        seats |-> <<t>>, host |-> u, need |-> n, match |-> None]
<1>1. /\ minted < MaxTickets /\ opened < MaxRooms /\ minted' = t /\ opened' = r /\ rosters' = rosters
      /\ ~HoldsQueued(u)
  BY DEF CreateRoom
<1>2. PICK f \in Outcomes(3) :
         /\ db' = IF Kept(f) THEN db1 ELSE db
         /\ rooms' = IF Landed(f, 2) THEN [rooms EXCEPT ![r] = Fresh(f)] ELSE rooms
         /\ members' = IF Landed(f, 3) THEN [members EXCEPT ![r][u] = SeatRow(@, t)] ELSE members
         /\ Finish(f, IF Kept(f) THEN mem1 ELSE mem, missing, queue)
  BY <1>1 DEF CreateRoom
<1>3. /\ Types /\ MemoryShape /\ StoreShape /\ Len(rosters) \in Nat /\ opened \in Nat
  BY ShapeParts DEF ShapeInv
<1>4. /\ mem \in [Tickets -> TicketRecords] /\ db \in [Tickets -> TicketRecords]
      /\ queue \in Seq(Tickets) /\ rooms \in [Rooms -> RoomRecords] /\ rosters \in Seq(Rosters)
      /\ members \in [Rooms -> [Users -> Tickets \cup {None}]]
  BY <1>3 DEF MemoryShape, StoreShape
<1>5. r \in Rooms
  BY <1>1, <1>3, ConstantFacts DEF Rooms
<1>6. tk \in TicketRecords /\ tk # NoTicket /\ tk.user = u
  BY <1>5, QueuedFacts
<1>7. t \in Tickets /\ mem[t] = NoTicket /\ db[t] = NoTicket
  BY <1>1, NextTicket
<1>8. /\ mem1 \in [Tickets -> TicketRecords] /\ mem1[t] = tk
      /\ \A x \in Tickets : x # t => mem1[x] = mem[x]
      /\ db1 \in [Tickets -> TicketRecords] /\ db1[t] = tk
      /\ \A x \in Tickets : x # t => db1[x] = db[x]
  BY <1>1, <1>4, <1>6, WithNew
<1>9. /\ Calm /\ f = AllWell /\ missing' = missing /\ online' = online /\ restarts' = restarts
      /\ mem' = (IF Kept(f) THEN mem1 ELSE mem) /\ queue' = queue
  <2>1. 3 \in Nat
    OBVIOUS
  <2> QED
    BY <1>2, <1>3, <2>1, FinishCalm
<1>10. /\ mem' = mem1 /\ db' = db1 /\ rooms' = [rooms EXCEPT ![r] = Fresh(f)]
       /\ members' = [members EXCEPT ![r][u] = t]
  BY <1>2, <1>4, <1>9, AllWellFacts DEF SeatRow
<1>11. Fresh(f) = [status |-> "waiting", seats |-> <<t>>, host |-> u, need |-> n, match |-> None]
  BY <1>9, AllWellFacts
<1>12. CalmBody
  BY <1>9 DEF CalmInv
<1>13. OneQueued(db1) /\ Decided(db1, Len(rosters)) /\ SameMatches(db1) /\ Final(db1)
  BY <1>1, <1>5, <1>12, AddQueued DEF CalmBody
<1>14. /\ rooms'[r].seats = <<t>> /\ rooms'[r].host = u /\ rooms'[r].need = n
       /\ \A x \in Rooms : x # r => rooms'[x] = rooms[x] /\ members'[x] = members[x]
       /\ members'[r][u] = t
  BY <1>4, <1>5, <1>10, <1>11
<1>15. tk = Queued(u, r, n)
  OBVIOUS
<1> HIDE DEF tk, mem1, db1, Fresh, t, r
<1>16. CacheInv'
  BY <1>8, <1>9, <1>10, <1>12 DEF CalmBody, CacheInv
<1>17. LineInv'
  <2>1. ASSUME NEW i \in DOMAIN queue PROVE db'[queue[i]] = db[queue[i]]
    <3>1. queue[i] \in Tickets /\ db[queue[i]].status = "queued"
      BY <1>4, <1>12 DEF CalmBody, LineInv
    <3>2. queue[i] # t
      BY <1>7, <3>1 DEF NoTicket
    <3> QED
      BY <1>8, <1>10, <3>1, <3>2
  <2> QED
    BY <1>9, <1>12, <2>1 DEF CalmBody, LineInv
<1>18. SeatsInv'
  <2> SUFFICES ASSUME NEW x \in Rooms, rooms'[x].status = "waiting" PROVE SeatsOK(x)'
    BY DEF SeatsInv
  <2>1. CASE x = r
    <3>1. Elements(<<t>>) = {t} /\ Len(<<t>>) = 1 /\ Distinct(<<t>>)
      BY DEF Elements, Distinct
    <3>2. n > 1
      BY SizeFacts
    <3>3. db'[t] = Queued(u, r, n) /\ db'[t].user = u
      BY <1>6, <1>8, <1>10, <1>15
    <3>4. \A y \in {t} : db'[y] = Queued(db'[y].user, r, n) /\ members'[r][db'[y].user] = y
      BY <1>14, <3>3
    <3>5. \E y \in {t} : db'[y].user = u
      BY <3>3
    <3> QED
      BY <1>14, <2>1, <3>1, <3>2, <3>4, <3>5 DEF SeatsOK
  <2>2. CASE x # r
    <3>1. SeatsOK(x) /\ rooms'[x] = rooms[x] /\ members'[x] = members[x]
      BY <1>12, <1>14, <2>2 DEF CalmBody, SeatsInv
    <3>2. \A y \in Elements(rooms[x].seats) : y \in Tickets /\ y # t
      BY <1>12, <3>1, SeatRows DEF CalmBody, t
    <3> QED
      BY <1>8, <1>10, <3>1, <3>2, SeatsKept
  <2> QED
    BY <2>1, <2>2
<1>19. ASSUME restarts' = 0 PROVE restarts = 0 /\ RosterBody'
  <2>1. RosterBody /\ DOMAIN rosters = 1 .. Len(rosters)
    BY <1>4, <1>9, <1>19, LenProperties DEF RosterInv
  <2> QED
    BY <1>1, <1>3, <1>9, <1>10, <1>13, <1>19, <2>1, RosterKept
<1> QED
  BY <1>1, <1>9, <1>10, <1>13, <1>16, <1>17, <1>18, <1>19 DEF CalmBody

(* A join that leaves the room waiting, between calm states.               *)
LEMMA TakeSeatCalm ==
    ASSUME ShapeInv, CalmInv, RosterInv, NEW u \in Users, NEW r \in Rooms,
           rooms[r].status = "waiting", minted < MaxTickets, ~HoldsQueued(u), minted' = minted + 1,
           Len(rooms[r].seats) + 1 < rooms[r].need, TakeSeat(u, r, minted')
    PROVE  CalmStep
<1> SUFFICES ASSUME Calm'
             PROVE  Calm /\ CalmBody' /\ Final(db') /\ (restarts' = 0 => restarts = 0 /\ RosterBody')
  BY DEF CalmStep
<1> DEFINE t == minted + 1
           n == rooms[r].need
           tk == Queued(u, r, n)
           mem1 == [mem EXCEPT ![t] = tk]
           db1 == [db EXCEPT ![t] = tk]
           seats == Append(rooms[r].seats, t)
           row == [rooms[r] EXCEPT !.seats = seats]
<1>1. PICK f \in Outcomes(3) :
         /\ db' = IF Kept(f) THEN db1 ELSE db
         /\ rooms' = IF Landed(f, 2) THEN [rooms EXCEPT ![r].seats = Append(@, t)] ELSE rooms
         /\ members' = IF Landed(f, 3) THEN [members EXCEPT ![r][u] = SeatRow(@, t)] ELSE members
         /\ Finish(f, IF Kept(f) THEN mem1 ELSE mem, missing, queue)
         /\ UNCHANGED rosters
  BY DEF TakeSeat
<1>3. /\ Types /\ MemoryShape /\ StoreShape /\ Len(rosters) \in Nat
  BY ShapeParts DEF ShapeInv
<1>4. /\ mem \in [Tickets -> TicketRecords] /\ db \in [Tickets -> TicketRecords]
      /\ queue \in Seq(Tickets) /\ rooms \in [Rooms -> RoomRecords] /\ rosters \in Seq(Rosters)
      /\ members \in [Rooms -> [Users -> Tickets \cup {None}]]
  BY <1>3 DEF MemoryShape, StoreShape
<1>5. n \in Sizes /\ n \in Nat /\ rooms[r] \in RoomRecords /\ rooms[r].seats \in Seq(Tickets)
  BY WaitingRoom
<1>6. tk \in TicketRecords /\ tk # NoTicket /\ tk.user = u
  BY <1>5, QueuedFacts
<1>7. t \in Tickets /\ mem[t] = NoTicket /\ db[t] = NoTicket
  BY NextTicket
<1>8. /\ mem1 \in [Tickets -> TicketRecords] /\ mem1[t] = tk
      /\ \A x \in Tickets : x # t => mem1[x] = mem[x]
      /\ db1 \in [Tickets -> TicketRecords] /\ db1[t] = tk
      /\ \A x \in Tickets : x # t => db1[x] = db[x]
  BY <1>4, <1>6, WithNew
<1>9. /\ Calm /\ f = AllWell /\ missing' = missing /\ online' = online /\ restarts' = restarts
      /\ mem' = (IF Kept(f) THEN mem1 ELSE mem) /\ queue' = queue
  <2>1. 3 \in Nat
    OBVIOUS
  <2> QED
    BY <1>1, <1>3, <2>1, FinishCalm
<1>10. /\ mem' = mem1 /\ db' = db1 /\ rooms' = [rooms EXCEPT ![r].seats = Append(@, t)]
       /\ members' = [members EXCEPT ![r][u] = t] /\ rosters' = rosters
  BY <1>1, <1>4, <1>9, AllWellFacts DEF SeatRow
<1>11. rooms' = [rooms EXCEPT ![r] = row]
  BY <1>4, <1>10
<1>12. CalmBody
  BY <1>9 DEF CalmInv
<1>13. OneQueued(db1) /\ Decided(db1, Len(rosters)) /\ SameMatches(db1) /\ Final(db1)
  BY <1>5, <1>12, AddQueued DEF CalmBody
<1>13a. row.seats = seats /\ row.host = rooms[r].host /\ row.need = n
  BY <1>5 DEF RoomRecords
<1> HIDE DEF row
<1>14. /\ rooms'[r].seats = seats /\ rooms'[r].host = rooms[r].host /\ rooms'[r].need = n
       /\ \A x \in Rooms : x # r => rooms'[x] = rooms[x] /\ members'[x] = members[x]
       /\ members'[r][u] = t /\ \A v \in Users : v # u => members'[r][v] = members[r][v]
  BY <1>4, <1>10, <1>11, <1>13a
<1>15. tk = Queued(u, r, n)
  OBVIOUS
<1>15a. /\ Len(seats) = Len(rooms[r].seats) + 1 /\ Elements(seats) = Elements(rooms[r].seats) \cup {t}
        /\ Distinct(rooms[r].seats) /\ t \notin Elements(rooms[r].seats) => Distinct(seats)
  BY <1>5, <1>7, AppendFacts
<1> HIDE DEF tk, mem1, db1, t, seats
<1>16. CacheInv'
  BY <1>8, <1>9, <1>10, <1>12 DEF CalmBody, CacheInv
<1>17. LineInv'
  <2>1. ASSUME NEW i \in DOMAIN queue PROVE db'[queue[i]] = db[queue[i]]
    <3>1. queue[i] \in Tickets /\ db[queue[i]].status = "queued"
      BY <1>4, <1>12 DEF CalmBody, LineInv
    <3>2. queue[i] # t
      BY <1>7, <3>1 DEF NoTicket
    <3> QED
      BY <1>8, <1>10, <3>1, <3>2
  <2> QED
    BY <1>9, <1>12, <2>1 DEF CalmBody, LineInv
<1>17a. ASSUME NEW x \in Rooms, rooms[x].status = "waiting", NEW y \in Elements(rooms[x].seats)
        PROVE  /\ SeatsOK(x) /\ y \in Tickets /\ y # t /\ db'[y] = db[y]
               /\ db[y].user \in Users /\ db[y].status = "queued"
  BY <1>8, <1>10, <1>12, <1>17a, SeatRows DEF CalmBody, t
<1>18. SeatsInv'
  <2> SUFFICES ASSUME NEW x \in Rooms, rooms'[x].status = "waiting" PROVE SeatsOK(x)'
    BY DEF SeatsInv
  <2>1. CASE x = r
    <3>1. SeatsOK(r)
      BY <1>12 DEF CalmBody, SeatsInv
    <3>2. Distinct(seats)
      BY <1>15a, <1>17a, <3>1 DEF SeatsOK
    <3>3. db'[t] = Queued(u, r, n) /\ db'[t].user = u
      BY <1>6, <1>8, <1>10, <1>15
    <3>4. ASSUME NEW y \in Elements(rooms[r].seats)
          PROVE  db'[y] = Queued(db'[y].user, r, n) /\ members'[r][db'[y].user] = y
      <4>1. db'[y] = db[y] /\ y \in Tickets /\ db[y].user \in Users /\ db[y].status = "queued"
        BY <1>17a
      <4>2. db[y] = Queued(db[y].user, r, n) /\ members[r][db[y].user] = y
        BY <3>1 DEF SeatsOK
      <4>3. db[y].user # u
        BY <4>1 DEF HoldsQueued
      <4> QED
        BY <1>14, <4>1, <4>2, <4>3
    <3>5. \E y \in Elements(seats) : db'[y].user = rooms[r].host
      BY <1>15a, <1>17a, <3>1 DEF SeatsOK
    <3>6. Len(seats) < n
      BY <1>15a
    <3> QED
      BY <1>14, <1>15a, <2>1, <3>2, <3>3, <3>4, <3>5, <3>6 DEF SeatsOK
  <2>2. CASE x # r
    <3>1. SeatsOK(x) /\ rooms'[x] = rooms[x] /\ members'[x] = members[x]
      BY <1>12, <1>14, <2>2 DEF CalmBody, SeatsInv
    <3> QED
      BY <1>17a, <3>1, SeatsKept
  <2> QED
    BY <2>1, <2>2
<1>19. ASSUME restarts' = 0 PROVE restarts = 0 /\ RosterBody'
  <2>1. RosterBody /\ DOMAIN rosters = 1 .. Len(rosters)
    BY <1>4, <1>9, <1>19, LenProperties DEF RosterInv
  <2> QED
    BY <1>3, <1>9, <1>10, <1>13, <1>19, <2>1, RosterKept
<1> QED
  BY <1>9, <1>10, <1>13, <1>16, <1>17, <1>18, <1>19 DEF CalmBody

(* A join that fills the room, between calm states: the match takes them   *)
(* all.                                                                    *)
LEMMA FillRoomCalm ==
    ASSUME ShapeInv, CalmInv, RosterInv, NEW u \in Users, NEW r \in Rooms,
           rooms[r].status = "waiting", minted < MaxTickets, ~HoldsQueued(u), minted' = minted + 1,
           Len(rooms[r].seats) + 1 >= rooms[r].need, FillRoom(u, r, minted')
    PROVE  CalmStep
<1> SUFFICES ASSUME Calm'
             PROVE  Calm /\ CalmBody' /\ Final(db') /\ (restarts' = 0 => restarts = 0 /\ RosterBody')
  BY DEF CalmStep
<1> DEFINE t == minted + 1
           need == rooms[r].need
           tk == Queued(u, r, need)
           mem1 == [mem EXCEPT ![t] = tk]
           db1 == [db EXCEPT ![t] = tk]
           seats == Append(rooms[r].seats, t)
           group == Group(seats, need)
           G == Elements(group)
           table == [x \in Tickets |-> IF x = t THEN tk ELSE Look(x)]
           row0 == [rooms[r] EXCEPT !.seats = seats]
           row == FoundRow(row0)
<1>1. PICK f \in Outcomes(need + 4) :
         IF Passed(f, 1)
         THEN /\ Enter(table, group, need)
              /\ db' = StampStore(db1, table, group, 1, f)
              /\ rooms' = IF Landed(f, need + 3)
                          THEN [rooms EXCEPT ![r] = FoundRow([@ EXCEPT !.seats = seats])]
                          ELSE rooms
              /\ members' = IF Landed(f, need + 4) THEN [members EXCEPT ![r][u] = SeatRow(@, t)] ELSE members
              /\ Finish(f, StampMemory(mem1, table, group, 1, f), missing, queue)
         ELSE /\ Finish(f, mem, missing, queue)
              /\ UNCHANGED <<db, rooms, members, rosters>>
  BY DEF FillRoom
<1>2. /\ Types /\ MemoryShape /\ StoreShape /\ Len(rosters) \in Nat
  BY ShapeParts DEF ShapeInv
<1>3. /\ mem \in [Tickets -> TicketRecords] /\ db \in [Tickets -> TicketRecords]
      /\ queue \in Seq(Tickets) /\ rooms \in [Rooms -> RoomRecords] /\ rosters \in Seq(Rosters)
      /\ members \in [Rooms -> [Users -> Tickets \cup {None}]]
  BY <1>2 DEF MemoryShape, StoreShape
<1>4. /\ rooms[r] \in RoomRecords /\ need \in Sizes /\ need \in Nat
      /\ rooms[r].seats \in Seq(Tickets)
  BY WaitingRoom
<1>5. tk \in TicketRecords /\ tk # NoTicket /\ tk.user = u /\ tk.status = "queued" /\ tk.room = r
  BY <1>4, QueuedFacts
<1>6. t \in Tickets /\ mem[t] = NoTicket /\ db[t] = NoTicket
  BY NextTicket
<1>7. /\ mem1 \in [Tickets -> TicketRecords] /\ mem1[t] = tk
      /\ \A x \in Tickets : x # t => mem1[x] = mem[x]
      /\ db1 \in [Tickets -> TicketRecords] /\ db1[t] = tk
      /\ \A x \in Tickets : x # t => db1[x] = db[x]
  BY <1>3, <1>5, WithNew
<1>8. /\ table[t] = tk /\ \A x \in Tickets : x # t => table[x] = Look(x)
  BY <1>5, TableFacts
<1>9. f = AllWell /\ Calm
  <2>1. need + 4 \in Nat
    BY <1>4
  <2>2. \E M1, Q1 : Finish(f, M1, missing, Q1)
    BY <1>1
  <2> QED
    BY <1>2, <2>1, <2>2, FinishCalm
<1>10. /\ Enter(table, group, need)
       /\ db' = StampStore(db1, table, group, 1, AllWell)
       /\ rooms' = [rooms EXCEPT ![r] = FoundRow([@ EXCEPT !.seats = seats])]
       /\ members' = [members EXCEPT ![r][u] = SeatRow(@, t)]
       /\ Finish(f, StampMemory(mem1, table, group, 1, AllWell), missing, queue)
  BY <1>1, <1>9, AllWellFacts
<1>11. /\ missing' = missing /\ online' = online /\ restarts' = restarts /\ queue' = queue
       /\ mem' = StampMemory(mem1, table, group, 1, AllWell)
  <2>1. need + 4 \in Nat
    BY <1>4
  <2> QED
    BY <1>2, <1>10, <2>1, FinishCalm
<1>12. rooms' = [rooms EXCEPT ![r] = row]
  BY <1>3, <1>10
<1>13. NewMatch = Len(rosters) + 1 /\ NewMatch \in 0 .. MaxMatches /\ NewMatch \in Nat /\ Len(rosters') = Len(rosters) + 1
  BY <1>4, <1>10, EnterFacts
<1>14. row0 \in RoomRecords
  <2>1. seats \in Seq(Tickets)
    BY <1>4, <1>6, AppendFacts
  <2> HIDE DEF seats
  <2> QED
    BY <1>4, <2>1, RoomRow
<1>15. row.status = "found"
  <2> HIDE DEF row0
  <2> QED
    BY <1>13, <1>14, RoomRow
<1> HIDE DEF row
<1>16. /\ rooms'[r].status = "found"
       /\ \A x \in Rooms : x # r => rooms'[x] = rooms[x] /\ members'[x] = members[x]
  BY <1>3, <1>10, <1>12, <1>15
<1>17. CalmBody
  BY <1>9 DEF CalmInv
<1>18. OneQueued(db1) /\ Decided(db1, Len(rosters)) /\ SameMatches(db1) /\ Final(db1)
  BY <1>4, <1>17, AddQueued DEF CalmBody
<1>19. \A x \in Tickets : table[x] = db1[x] /\ mem1[x] \in {NoTicket, db1[x]}
  <2>1. \A x \in Tickets : Look(x) = db[x] /\ mem[x] \in {NoTicket, db[x]}
    BY <1>17, CalmLook DEF CalmBody, CacheInv
  <2> HIDE DEF table, mem1, db1, t, tk
  <2> QED
    BY <1>7, <1>8, <2>1
<1>20. ASSUME NEW x \in Rooms, rooms[x].status = "waiting", NEW y \in Elements(rooms[x].seats)
       PROVE  /\ SeatsOK(x) /\ y \in Tickets /\ y # t
              /\ db[y].room = x /\ db[y].status = "queued" /\ db1[y] = db[y]
  BY <1>7, <1>17, <1>20, SeatRows DEF CalmBody
(* The group is the whole room.                                            *)
<1>21. /\ seats \in Seq(Tickets) /\ Len(seats) = need /\ Distinct(seats)
       /\ Elements(seats) = Elements(rooms[r].seats) \cup {t}
  <2>1. /\ seats \in Seq(Tickets) /\ Len(seats) = Len(rooms[r].seats) + 1
        /\ Len(rooms[r].seats) \in Nat
        /\ Elements(seats) = Elements(rooms[r].seats) \cup {t}
        /\ Distinct(rooms[r].seats) /\ t \notin Elements(rooms[r].seats) => Distinct(seats)
    BY <1>4, <1>6, AppendFacts
  <2>2. Distinct(rooms[r].seats) /\ Len(rooms[r].seats) < need
    BY <1>17 DEF CalmBody, SeatsInv, SeatsOK
  <2>3. t \notin Elements(rooms[r].seats)
    BY <1>20
  <2> HIDE DEF seats
  <2> QED
    BY <1>4, <2>1, <2>2, <2>3
<1> HIDE DEF seats
<1>22. group \in Seq(Tickets) /\ Len(group) = need /\ Distinct(group) /\ G = Elements(seats)
  BY <1>4, <1>21, SplitFacts DEF Group
<1> HIDE DEF group, table, mem1, db1, tk, t, need
<1>23. ASSUME NEW x \in G
       PROVE  /\ x \in Tickets /\ db1[x].status = "queued" /\ db1[x].room = r
              /\ table[x] = db1[x] /\ db1[x] # NoTicket
  <2>1. x \in Tickets /\ db1[x].status = "queued" /\ db1[x].room = r
    <3>1. CASE x = t
      BY <1>5, <1>6, <1>7, <3>1
    <3>2. CASE x # t
      BY <1>20, <1>21, <1>22, <3>2
    <3> QED
      BY <3>1, <3>2
  <2> QED
    BY <1>19, <2>1 DEF NoTicket
<1>24. /\ db' = Stamped(db1, G)
       /\ \A x \in Tickets : mem'[x] \in {NoTicket, db'[x]}
  BY <1>7, <1>10, <1>11, <1>19, <1>23, CalmStamp
<1>25. /\ \A x \in Tickets : x \notin G => db'[x] = db1[x]
       /\ OneQueued(db') /\ Decided(db', Len(rosters) + 1) /\ Final(db')
  <2>1. G \in SUBSET Tickets
    BY <1>23
  <2> QED
    BY <1>2, <1>7, <1>13, <1>18, <1>23, <1>24, <2>1, StampedFacts
<1>26. CacheInv'
  BY <1>11, <1>17, <1>24 DEF CalmBody, CacheInv
<1>27. ASSUME NEW x \in Tickets, x # t, db[x].room # r PROVE db'[x] = db[x]
  BY <1>7, <1>23, <1>25, <1>27
<1>28. LineInv'
  <2>1. ASSUME NEW i \in DOMAIN queue PROVE db'[queue[i]] = db[queue[i]]
    <3>1. queue[i] \in Tickets /\ db[queue[i]].status = "queued" /\ db[queue[i]].room = None
      BY <1>3, <1>17 DEF CalmBody, LineInv
    <3>2. queue[i] # t
      BY <1>6, <3>1 DEF NoTicket
    <3>3. r # None
      BY ConstantFacts DEF Rooms, None
    <3> QED
      BY <1>27, <3>1, <3>2, <3>3
  <2> QED
    BY <1>11, <1>17, <2>1 DEF CalmBody, LineInv
<1>29. SeatsInv'
  <2> SUFFICES ASSUME NEW x \in Rooms, rooms'[x].status = "waiting" PROVE SeatsOK(x)'
    BY DEF SeatsInv
  <2>1. x # r
    BY <1>16
  <2>2. SeatsOK(x) /\ rooms'[x] = rooms[x] /\ members'[x] = members[x] /\ rooms[x].status = "waiting"
    BY <1>16, <1>17, <2>1 DEF CalmBody, SeatsInv
  <2>3. \A y \in Elements(rooms[x].seats) : db'[y] = db[y]
    BY <1>20, <1>27, <2>1, <2>2
  <2> QED
    BY <2>2, <2>3, SeatsKept
<1>30. ASSUME restarts' = 0 PROVE restarts = 0 /\ RosterBody'
  <2>1. RosterBody /\ restarts = 0
    BY <1>9, <1>11, <1>30 DEF RosterInv
  <2>2. \A x \in Elements(group) : table[x] = db1[x] /\ db1[x].status = "queued"
    BY <1>23
  <2> QED
    BY <1>4, <1>7, <1>10, <1>11, <1>18, <1>22, <1>24, <2>1, <2>2, RosterStart
<1> QED
  BY <1>9, <1>13, <1>25, <1>26, <1>28, <1>29, <1>30 DEF CalmBody

(* JoinRoom between calm states.                                           *)
LEMMA JoinRoomCalm ==
    ASSUME ShapeInv, CalmInv, RosterInv, NEW u \in Users, NEW r \in Rooms, JoinRoom(u, r)
    PROVE  CalmStep
<1>1. /\ rooms[r].status = "waiting" /\ ~HoldsQueued(u)
      /\ minted < MaxTickets /\ minted' = minted + 1
      /\ \/ Len(rooms[r].seats) + 1 < rooms[r].need /\ TakeSeat(u, r, minted')
         \/ Len(rooms[r].seats) + 1 >= rooms[r].need /\ FillRoom(u, r, minted')
  BY DEF JoinRoom
<1> QED
  BY <1>1, TakeSeatCalm, FillRoomCalm

(* One queued row turns cancelled.                                         *)
LEMMA CancelOne ==
    ASSUME ShapeInv, OneQueued(db), Decided(db, Len(rosters)), NEW t \in Tickets,
           Look(t) = db[t], Look(t).status = "queued",
           NEW rows, \A x \in Tickets : rows[x] = IF x = t THEN Cancelled(t) ELSE db[x]
    PROVE  OneQueued(rows) /\ Decided(rows, Len(rosters)) /\ SameMatches(rows) /\ Final(rows)
<1>1. /\ Cancelled(t).user = db[t].user /\ Cancelled(t).status = "cancelled"
      /\ Cancelled(t).match = db[t].match
  BY CancelledFacts
<1>2. rows[t] = Cancelled(t) /\ \A x \in Tickets : x # t => rows[x] = db[x]
  OBVIOUS
<1>3. OneQueued(rows)
  BY <1>1, <1>2 DEF OneQueued
<1>4. Decided(rows, Len(rosters))
  BY <1>1, <1>2 DEF Decided
<1>5. SameMatches(rows)
  BY <1>1, <1>2 DEF SameMatches
<1>6. Final(rows)
  BY <1>1, <1>2 DEF Final
<1> QED
  BY <1>3, <1>4, <1>5, <1>6

(* A departure between calm states: who stays is queued, the host among    *)
(* them.                                                                   *)
LEMMA CancelRoomTicketCalm ==
    ASSUME ShapeInv, CalmInv, RosterInv, NEW r \in Rooms, NEW t \in Tickets,
           Look(t).status = "queued", Calm => db[t].room = r,
           NEW n \in Nat, NEW f \in Outcomes(n), CancelRoomTicket(r, t, f),
           \A x \in Rooms : x # r => members'[x] = members[x],
           \A v \in Users : v # Look(t).user => members'[r][v] = members[r][v],
           UNCHANGED <<minted, opened, rosters>>
    PROVE  CalmStep
<1> SUFFICES ASSUME Calm'
             PROVE  Calm /\ CalmBody' /\ Final(db') /\ (restarts' = 0 => restarts = 0 /\ RosterBody')
  BY DEF CalmStep
<1>1. Types /\ MemoryShape /\ StoreShape /\ Len(rosters) \in Nat
  BY ShapeParts DEF ShapeInv
<1>2. /\ mem \in [Tickets -> TicketRecords] /\ db \in [Tickets -> TicketRecords]
      /\ queue \in Seq(Tickets) /\ rooms \in [Rooms -> RoomRecords] /\ rosters \in Seq(Rosters)
  BY <1>1 DEF MemoryShape, StoreShape
<1>3. /\ Calm /\ f = AllWell /\ mem' = [mem EXCEPT ![t] = Cancelled(t)] /\ missing' = missing
      /\ queue' = queue /\ online' = online /\ restarts' = restarts
  <2>1. Finish(f, [mem EXCEPT ![t] = Cancelled(t)], missing, queue)
    BY DEF CancelRoomTicket
  <2> QED
    BY <1>1, <2>1, FinishCalm
<1>4. CalmBody /\ db[t].room = r
  BY <1>3 DEF CalmInv
<1>5. \A x \in Tickets : Look(x) = db[x] /\ mem[x] \in {NoTicket, db[x]}
  BY <1>4, CalmLook DEF CalmBody, CacheInv
<1>6. \A x \in Tickets : db'[x] = IF x = t THEN Cancelled(t) ELSE db[x]
  <2>1. \A k : Landed(f, k)
    BY <1>3, AllWellFacts
  <2> QED
    BY <1>5, <2>1 DEF CancelRoomTicket
<1>7. rooms' = IF Live(r) THEN [rooms EXCEPT ![r] = WithoutSeat(r, t)] ELSE rooms
  <2>1. Landed(f, RoomWrite(r, t))
    BY <1>3, AllWellFacts
  <2> QED
    BY <2>1 DEF CancelRoomTicket
<1>8. OneQueued(db') /\ Decided(db', Len(rosters)) /\ SameMatches(db') /\ Final(db')
  BY <1>4, <1>5, <1>6, CancelOne DEF CalmBody
<1>9. CacheInv'
  <2>1. \A x \in Tickets : mem'[x] = IF x = t THEN Cancelled(t) ELSE mem[x]
    BY <1>2, <1>3
  <2> QED
    BY <1>3, <1>4, <1>5, <1>6, <2>1 DEF CalmBody, CacheInv
<1>10. LineInv'
  <2>1. r # None
    BY ConstantFacts DEF Rooms, None
  <2>2. ASSUME NEW i \in DOMAIN queue PROVE db'[queue[i]] = db[queue[i]]
    <3>1. queue[i] \in Tickets /\ db[queue[i]].room = None
      BY <1>2, <1>4 DEF CalmBody, LineInv
    <3> QED
      BY <1>4, <1>6, <2>1, <3>1
  <2> QED
    BY <1>3, <1>4, <2>2 DEF CalmBody, LineInv
<1>11. SeatsInv'
  <2> SUFFICES ASSUME NEW x \in Rooms, rooms'[x].status = "waiting" PROVE SeatsOK(x)'
    BY DEF SeatsInv
  <2>1. CASE x # r
    <3>1. rooms'[x] = rooms[x] /\ members'[x] = members[x]
      BY <1>2, <1>7, <2>1
    <3>2. SeatsOK(x) /\ rooms[x].status = "waiting"
      BY <1>4, <3>1 DEF CalmBody, SeatsInv
    <3>3. \A y \in Elements(rooms[x].seats) : db'[y] = db[y]
      <4> SUFFICES ASSUME NEW y \in Elements(rooms[x].seats) PROVE db'[y] = db[y]
        OBVIOUS
      <4>1. y \in Tickets /\ db[y].room = x
        BY <1>4, <3>2, SeatRows DEF CalmBody
      <4> QED
        BY <1>4, <1>6, <2>1, <4>1
    <3> QED
      BY <3>1, <3>2, <3>3, SeatsKept
  <2>2. CASE x = r
    <3> DEFINE left == Remove(rooms[r].seats, t)
               row == WithoutSeat(r, t)
    <3>1. rooms[r].status = "waiting" \/ rooms[r].status = "found" => Live(r)
      BY DEF Live
    <3>2. /\ row.seats = left /\ row.host = NextHost(r, t) /\ row.need = rooms[r].need
          /\ row.status = IF left = <<>> THEN "closed" ELSE rooms[r].status
      BY WithoutSeatFacts
    <3> HIDE DEF row
    <3>3. rooms'[r] = IF Live(r) THEN row ELSE rooms[r]
      BY <1>2, <1>7 DEF row
    <3>4. Live(r) /\ rooms'[r] = row /\ left # <<>> /\ rooms[r].status = "waiting"
      BY <2>2, <3>1, <3>2, <3>3
    <3>5. /\ left \in Seq(Tickets) /\ Len(left) <= Len(rooms[r].seats) /\ Len(left) \in Nat
          /\ Len(rooms[r].seats) \in Nat
          /\ Elements(left) = Elements(rooms[r].seats) \ {t}
          /\ Distinct(rooms[r].seats) => Distinct(left)
          /\ Stayers(r, t) \in Seq(Tickets)
          /\ Elements(Stayers(r, t)) = {y \in Elements(left) : Look(y).status = "queued"}
          /\ Elements(left) \subseteq Tickets
      BY DepartureFacts
    <3> HIDE DEF left
    <3>6. SeatsOK(r) /\ rooms[r].need \in Nat
      BY <1>4, <3>4, WaitingRoom DEF CalmBody, SeatsInv
    <3>7. ASSUME NEW y \in Elements(left)
          PROVE  /\ y \in Tickets /\ y # t /\ y \in Elements(rooms[r].seats) /\ db'[y] = db[y]
                 /\ db[y].status = "queued" /\ db[y].user \in Users /\ db[y].user # db[t].user
                 /\ Look(y) = db[y] /\ db[y] = Queued(db[y].user, r, rooms[r].need)
                 /\ members'[r][db[y].user] = y
      <4>1. y \in Tickets /\ y # t /\ y \in Elements(rooms[r].seats)
        BY <3>5
      <4>2. db'[y] = db[y] /\ Look(y) = db[y]
        BY <1>5, <1>6, <4>1
      <4>3. db[y].status = "queued" /\ db[y].user \in Users
        BY <1>4, <3>4, <4>1, SeatRows DEF CalmBody
      <4>4. db[t].status = "queued"
        BY <1>5
      <4>5. db[y].user # db[t].user
        BY <1>4, <4>1, <4>3, <4>4 DEF CalmBody, OneQueued
      <4>6. db[y] = Queued(db[y].user, r, rooms[r].need) /\ members[r][db[y].user] = y
        BY <3>6, <4>1 DEF SeatsOK
      <4>7. members'[r][db[y].user] = members[r][db[y].user]
        BY <1>5, <4>3, <4>5
      <4> QED
        BY <4>1, <4>2, <4>3, <4>5, <4>6, <4>7
    <3>8. Len(left) < rooms[r].need /\ Distinct(left)
      BY <3>5, <3>6 DEF SeatsOK
    <3>9. Elements(Stayers(r, t)) = Elements(left)
      BY <3>5, <3>7
    <3>10. \E y \in Elements(left) : db[y].user = NextHost(r, t)
      <4>1. CASE rooms[r].host = db[t].user
        <5>1. 1 \in DOMAIN left
          BY <3>4, <3>5, LenProperties, EmptySeq
        <5>2. left[1] \in Elements(left)
          BY <5>1 DEF Elements
        <5>3. Stayers(r, t) # <<>>
          BY <3>9, <5>2 DEF Elements
        <5>4. 1 \in DOMAIN Stayers(r, t)
          BY <3>5, <5>3, LenProperties, EmptySeq
        <5>5. Stayers(r, t)[1] \in Elements(left)
          BY <3>9, <5>4 DEF Elements
        <5>6. NextHost(r, t) = Look(Stayers(r, t)[1]).user
          BY <1>5, <4>1, <5>3 DEF NextHost
        <5> QED
          BY <3>7, <5>5, <5>6
      <4>2. CASE rooms[r].host # db[t].user
        <5>1. NextHost(r, t) = rooms[r].host
          BY <1>5, <4>2 DEF NextHost
        <5>2. PICK y \in Elements(rooms[r].seats) : db[y].user = rooms[r].host
          BY <3>6 DEF SeatsOK
        <5> QED
          BY <3>5, <4>2, <5>1, <5>2
      <4> QED
        BY <4>1, <4>2
    <3>11. /\ rooms'[r].seats = left /\ rooms'[r].need = rooms[r].need
           /\ rooms'[r].host = NextHost(r, t)
      BY <3>2, <3>4
    <3>12. \E y \in Elements(left) : db'[y].user = rooms'[r].host
      BY <3>7, <3>10, <3>11
    <3>13. \A y \in Elements(left) :
              /\ db'[y] = Queued(db'[y].user, r, rooms'[r].need)
              /\ members'[r][db'[y].user] = y
      BY <3>7, <3>11
    <3> QED
      BY <2>2, <3>8, <3>11, <3>12, <3>13 DEF SeatsOK
  <2> QED
    BY <2>1, <2>2
<1>12. ASSUME restarts' = 0 PROVE restarts = 0 /\ RosterBody'
  <2>1. RosterBody /\ DOMAIN rosters = 1 .. Len(rosters)
    BY <1>2, <1>3, <1>12, LenProperties DEF RosterInv
  <2> QED
    BY <1>1, <1>3, <1>8, <1>12, <2>1, RosterKept
<1> QED
  BY <1>3, <1>8, <1>9, <1>10, <1>11, <1>12 DEF CalmBody

(* LeaveRoom between calm states: a room without a match waits.            *)
LEMMA LeaveRoomCalm ==
    ASSUME ShapeInv, CalmInv, RosterInv, NEW u \in Users, NEW r \in Rooms, LeaveRoom(u, r)
    PROVE  CalmStep
<1>1. PICK t \in SeatOf(r, u) :
         /\ Look(t).status = "queued"
         /\ \E f \in Outcomes(RoomWrite(r, t) + 1) :
               /\ CancelRoomTicket(r, t, f)
               /\ members' = IF Landed(f, RoomWrite(r, t) + 1)
                             THEN [members EXCEPT ![r][u] = None] ELSE members
  BY DEF LeaveRoom
<1>2. Live(r) /\ rooms[r].match = None /\ UNCHANGED <<minted, opened, rosters>>
  BY DEF LeaveRoom
<1>3. t \in Elements(rooms[r].seats) /\ Look(t).user = u
  BY <1>1 DEF SeatOf
<1>4. rooms[r].seats \in Seq(Tickets) /\ members \in [Rooms -> [Users -> Tickets \cup {None}]]
  BY ShapeParts DEF StoreShape, RoomRecords
<1>5. t \in Tickets
  BY <1>3, <1>4, ElementOfSeq, LenProperties DEF Elements
<1>6. rooms[r].status = "waiting"
  BY <1>2 DEF Live, ShapeInv, RoomInv
<1>7. Calm => db[t].room = r
  BY <1>3, <1>6, SeatRows DEF CalmInv, CalmBody
<1>8. PICK f \in Outcomes(RoomWrite(r, t) + 1) :
         /\ CancelRoomTicket(r, t, f)
         /\ members' = IF Landed(f, RoomWrite(r, t) + 1)
                       THEN [members EXCEPT ![r][u] = None] ELSE members
  BY <1>1
<1>9. RoomWrite(r, t) + 1 \in Nat
  BY <1>5, RoomWriteFacts
<1>10. /\ \A x \in Rooms : x # r => members'[x] = members[x]
       /\ \A v \in Users : v # u => members'[r][v] = members[r][v]
  BY <1>4, <1>8
<1> QED
  BY <1>1, <1>2, <1>3, <1>5, <1>7, <1>8, <1>9, <1>10, CancelRoomTicketCalm

(* CancelTicket between calm states, in the queue and in a room.           *)
LEMMA CancelTicketCalm ==
    ASSUME ShapeInv, CalmInv, RosterInv, NEW u \in Users, NEW t \in Tickets, CancelTicket(u, t)
    PROVE  CalmStep
<1> DEFINE r == Look(t).room
<1>1. /\ Look(t).status = "queued"
      /\ UNCHANGED <<members, minted, opened, rosters>>
      /\ \/ /\ r # None
            /\ \E f \in Outcomes(IF Live(r) THEN RoomWrite(r, t) ELSE 1) : CancelRoomTicket(r, t, f)
         \/ /\ r = None
            /\ \E f \in Outcomes(1) :
                  /\ db' = IF Landed(f, 1) THEN [db EXCEPT ![t] = Cancelled(t)] ELSE db
                  /\ Finish(f, [mem EXCEPT ![t] = Cancelled(t)], missing, Remove(queue, t))
            /\ UNCHANGED rooms
  BY DEF CancelTicket
<1>2. r \in Rooms \cup {None}
  BY <1>1, CancelledFacts, TicketFacts
<1>3. Calm => r = db[t].room
  BY CalmLook DEF CalmInv, CalmBody
<1> HIDE DEF r
<1>4. CASE r # None
  <2>1. r \in Rooms
    BY <1>2, <1>4
  <2>2. (IF Live(r) THEN RoomWrite(r, t) ELSE 1) \in Nat
    BY <2>1, RoomWriteFacts
  <2>3. PICK f \in Outcomes(IF Live(r) THEN RoomWrite(r, t) ELSE 1) : CancelRoomTicket(r, t, f)
    BY <1>1, <1>4
  <2>4. members' = members
    BY <1>1
  <2> QED
    BY <1>1, <1>3, <2>1, <2>2, <2>3, <2>4, CancelRoomTicketCalm
<1>5. CASE r = None
  <2> SUFFICES ASSUME Calm'
               PROVE  Calm /\ CalmBody' /\ Final(db') /\ (restarts' = 0 => restarts = 0 /\ RosterBody')
    BY DEF CalmStep
  <2>1. PICK f \in Outcomes(1) :
           /\ db' = IF Landed(f, 1) THEN [db EXCEPT ![t] = Cancelled(t)] ELSE db
           /\ Finish(f, [mem EXCEPT ![t] = Cancelled(t)], missing, Remove(queue, t))
    BY <1>1, <1>5
  <2>2. Types /\ MemoryShape /\ StoreShape /\ Len(rosters) \in Nat
    BY ShapeParts DEF ShapeInv
  <2>3. /\ mem \in [Tickets -> TicketRecords] /\ db \in [Tickets -> TicketRecords]
        /\ queue \in Seq(Tickets) /\ rosters \in Seq(Rosters)
    BY <2>2 DEF MemoryShape, StoreShape
  <2>4. /\ Calm /\ f = AllWell /\ mem' = [mem EXCEPT ![t] = Cancelled(t)] /\ missing' = missing
        /\ queue' = Remove(queue, t) /\ online' = online /\ restarts' = restarts
    <3>1. 1 \in Nat
      OBVIOUS
    <3> QED
      BY <2>1, <2>2, <3>1, FinishCalm
  <2>5. CalmBody /\ db[t].room = None
    BY <1>3, <1>5, <2>4 DEF CalmInv
  <2>6. \A x \in Tickets : Look(x) = db[x] /\ mem[x] \in {NoTicket, db[x]}
    BY <2>5, CalmLook DEF CalmBody, CacheInv
  <2>7. \A x \in Tickets : /\ db'[x] = IF x = t THEN Cancelled(t) ELSE db[x]
                           /\ mem'[x] = IF x = t THEN Cancelled(t) ELSE mem[x]
    BY <2>1, <2>3, <2>4, AllWellFacts
  <2>8. OneQueued(db') /\ Decided(db', Len(rosters)) /\ SameMatches(db') /\ Final(db')
    BY <1>1, <2>5, <2>6, <2>7, CancelOne DEF CalmBody
  <2>9. CacheInv'
    BY <2>4, <2>5, <2>6, <2>7 DEF CalmBody, CacheInv
  <2>10. LineInv'
    <3>1. /\ queue' \in Seq(Tickets) /\ Elements(queue') = Elements(queue) \cap (Tickets \ {t})
          /\ Distinct(queue) => Distinct(queue')
      BY <2>3, <2>4, OnlyFacts DEF Remove
    <3>2. Distinct(queue) /\ \A x \in Elements(queue) : db[x].status = "queued" /\ db[x].room = None
      BY <2>5 DEF CalmBody, LineInv, Elements
    <3>3. \A x \in Elements(queue') : db'[x].status = "queued" /\ db'[x].room = None
      BY <2>7, <3>1, <3>2
    <3>4. Distinct(queue') /\ \A i \in DOMAIN queue' : queue'[i] \in Elements(queue')
      BY <3>1, <3>2 DEF Elements
    <3> QED
      BY <3>3, <3>4 DEF LineInv
  <2>11. SeatsInv'
    <3>1. \A x \in Tickets : x # minted + 1 /\ db[x].room # None => db'[x] = db[x]
      BY <2>5, <2>7
    <3>2. UNCHANGED <<rooms, members>>
      BY <1>1, <1>5
    <3> QED
      BY <2>5, <3>1, <3>2, RoomsUntouched DEF CalmBody
  <2>12. ASSUME restarts' = 0 PROVE restarts = 0 /\ RosterBody'
    <3>1. RosterBody /\ DOMAIN rosters = 1 .. Len(rosters)
      BY <2>3, <2>4, <2>12, LenProperties DEF RosterInv
    <3> QED
      BY <1>1, <2>2, <2>4, <2>8, <2>12, <3>1, RosterKept
  <2> QED
    BY <1>1, <2>4, <2>8, <2>9, <2>10, <2>11, <2>12 DEF CalmBody
<1> QED
  BY <1>4, <1>5

(* In a calm state there is nothing for a heartbeat to write through.      *)
LEMMA HeartbeatCalm ==
    ASSUME ShapeInv, CalmInv, NEW u \in Users, NEW t \in Tickets, Heartbeat(u, t)
    PROVE  CalmStep
<1> SUFFICES ASSUME Calm' PROVE FALSE
  BY DEF CalmStep
<1>1. PICK f \in Outcomes(1) : Finish(f, mem, missing, queue)
  BY DEF Heartbeat
<1>2. Types /\ 1 \in Nat
  BY DEF ShapeInv
<1>3. Calm
  BY <1>1, <1>2, FinishCalm
<1>4. Look(t) = db[t]
  BY <1>3, CalmLook DEF CalmInv, CalmBody
<1> QED
  BY <1>4 DEF Heartbeat

(* The steps that write no ticket, and those that change nothing.          *)
LEMMA QuietCalm ==
    ASSUME ShapeInv, CalmInv, RosterInv,
           \/ \E u \in Users : Login(u)
           \/ \E t \in Tickets : LookupFails(t)
           \/ \E rs \in SUBSET Rooms : SweepExpiredRooms(rs)
           \/ Restart
           \/ UNCHANGED vars
    PROVE  CalmStep
<1> SUFFICES ASSUME Calm'
             PROVE  Calm /\ CalmBody' /\ Final(db') /\ (restarts' = 0 => restarts = 0 /\ RosterBody')
  BY DEF CalmStep
<1>1. /\ UNCHANGED <<db, members, minted, opened, rosters>> /\ Len(rosters) \in Nat
      /\ rosters \in Seq(Rosters) /\ faults \in Nat /\ restarts \in Nat /\ online \subseteq Users
      /\ rooms \in [Rooms -> RoomRecords]
  BY ShapeParts, ConstantFacts DEF Login, LookupFails, SweepExpiredRooms, Restart, vars, store, StoreShape, MemoryShape
<1>2. ~\E t \in Tickets : LookupFails(t)
  BY <1>1 DEF LookupFails, Calm, NoFault
<1>3. Calm
  BY <1>2 DEF Login, SweepExpiredRooms, Restart, vars, counts, Calm, NoFault
<1>4. CalmBody
  BY <1>3 DEF CalmInv
<1>5. Final(db') /\ SameMatches(db') /\ OneQueued(db') /\ Decided(db', Len(rosters'))
  BY <1>1, <1>4 DEF Final, SameMatches, CalmBody
<1>6. CacheInv' /\ LineInv'
  <2>1. CASE Restart
    BY <1>1, <2>1 DEF Restart, CacheInv, LineInv, Distinct, EmptyCache
  <2>2. CASE ~Restart
    <3>1. UNCHANGED <<mem, missing, queue>>
      BY <1>2, <2>2 DEF Login, SweepExpiredRooms, vars, memory
    <3> QED
      BY <1>1, <1>4, <3>1 DEF CacheInv, LineInv, CalmBody
  <2> QED
    BY <2>1, <2>2
<1>7. SeatsInv'
  <2> SUFFICES ASSUME NEW r \in Rooms, rooms'[r].status = "waiting" PROVE SeatsOK(r)'
    BY DEF SeatsInv
  <2>1. rooms'[r] = rooms[r]
    <3>1. CASE \E rs \in SUBSET Rooms : SweepExpiredRooms(rs)
      <4>1. PICK rs \in SUBSET Rooms : SweepExpiredRooms(rs)
        BY <3>1
      <4>2. rooms'[r] = IF r \in rs THEN [rooms[r] EXCEPT !.status = "expired"] ELSE rooms[r]
        BY <4>1 DEF SweepExpiredRooms
      <4>3. rooms[r] \in RoomRecords
        BY <1>1
      <4>4. [rooms[r] EXCEPT !.status = "expired"].status = "expired"
        BY <4>3 DEF RoomRecords
      <4> QED
        BY <4>2, <4>4
    <3>2. CASE ~\E rs \in SUBSET Rooms : SweepExpiredRooms(rs)
      BY <1>2, <3>2 DEF Login, Restart, store, vars
    <3> QED
      BY <3>1, <3>2
  <2>2. SeatsOK(r)
    BY <1>4, <2>1 DEF CalmBody, SeatsInv
  <2> QED
    BY <1>1, <2>1, <2>2, SeatsKept
<1>8. ASSUME restarts' = 0 PROVE restarts = 0 /\ RosterBody'
  <2>1. ~Restart
    BY <1>1, <1>8 DEF Restart
  <2>2. restarts' = restarts /\ online \subseteq online' /\ online' \subseteq online \cup Users
    BY <1>2, <2>1 DEF Login, SweepExpiredRooms, vars, counts, memory
  <2>3. RosterBody /\ DOMAIN rosters = 1 .. Len(rosters)
    BY <1>1, <1>3, <1>8, <2>2, LenProperties DEF RosterInv
  <2>4. online' = online
    BY <2>2, <2>3 DEF RosterBody
  <2> QED
    BY <1>1, <1>5, <1>8, <2>2, <2>3, <2>4, RosterKept
<1> QED
  BY <1>3, <1>5, <1>6, <1>7, <1>8 DEF CalmBody

(* In a calm state the seats of a waiting room, and no other tickets, take *)
(* the new size.                                                           *)
SeatsResized(new, old, r, n) ==
    \A x \in Tickets :
       new[x] = IF x \in Elements(rooms[r].seats) THEN Queued(db[x].user, r, n) ELSE old[x]

(* Every seat is reached and changes its size only.                        *)
LEMMA ResizedCalm ==
    ASSUME ShapeInv, CalmBody, NEW r \in Rooms, rooms[r].status = "waiting", NEW n \in Sizes, NEW old
    PROVE  SeatsResized(Resized(old, rooms[r].seats, n, DOMAIN rooms[r].seats), old, r, n)
<1> DEFINE d == DOMAIN rooms[r].seats
<1> SUFFICES ASSUME NEW x \in Tickets
             PROVE  Resized(old, rooms[r].seats, n, d)[x] =
                       IF x \in Elements(rooms[r].seats) THEN Queued(db[x].user, r, n) ELSE old[x]
  BY DEF SeatsResized
<1>1. Resized(old, rooms[r].seats, n, d)[x] =
         IF Look(x) # NoTicket /\ x \in Elements(rooms[r].seats)
         THEN [Look(x) EXCEPT !.need = n] ELSE old[x]
  BY DEF Resized, Elements
<1>2. Look(x) = db[x]
  BY CalmLook DEF CalmBody
<1>3. ASSUME x \in Elements(rooms[r].seats)
      PROVE  db[x] # NoTicket /\ [db[x] EXCEPT !.need = n] = Queued(db[x].user, r, n)
  <2>1. SeatsOK(r) /\ db[x] # NoTicket
    BY <1>3, SeatRows DEF CalmBody
  <2>2. db[x] = Queued(db[x].user, r, rooms[r].need)
    BY <1>3, <2>1 DEF SeatsOK
  <2> DEFINE v == db[x].user
             w == rooms[r].need
  <2>3. [Queued(v, r, w) EXCEPT !.need = n] = Queued(v, r, n)
    BY DEF Queued
  <2> HIDE DEF v, w
  <2>4. db[x] = Queued(v, r, w)
    BY <2>2 DEF v, w
  <2>5. [db[x] EXCEPT !.need = n] = Queued(v, r, n)
    BY <2>3, <2>4
  <2> QED
    BY <2>1, <2>5 DEF v
<1> QED
  BY <1>1, <1>2, <1>3

(* UpdateRoomOptions between calm states: a room it fills is as large as   *)
(* its match.                                                              *)
LEMMA UpdateCalm ==
    ASSUME ShapeInv, CalmInv, RosterInv, NEW u \in Users, NEW r \in Rooms, NEW n \in Sizes,
           UpdateRoomOptions(u, r, n)
    PROVE  CalmStep
<1> SUFFICES ASSUME Calm'
             PROVE  Calm /\ CalmBody' /\ Final(db') /\ (restarts' = 0 => restarts = 0 /\ RosterBody')
  BY DEF CalmStep
<1> DEFINE seats == rooms[r].seats
           k == Len(seats)
           group == Group(seats, n)
           row == [rooms[r] EXCEPT !.need = n]
           table == Resized(EmptyCache, seats, n, DOMAIN seats)
           Mem1(f) == Resized(mem, seats, n, {i \in DOMAIN seats : Passed(f, i - 1)})
           Db1(f) == Resized(db, seats, n, {i \in DOMAIN seats : Landed(f, i)})
           Starts(f) == Fills(r, n) /\ Passed(f, k + 1)
           bound == IF Fills(r, n) THEN k + n + 3 ELSE k + 1
           S == Elements(rooms[r].seats)
<1>1. /\ rooms[r].status = "waiting" /\ (n # rooms[r].need => Len(rooms[r].seats) <= n)
      /\ UNCHANGED <<members, minted, opened>>
  BY DEF UpdateRoomOptions
<1>2. PICK f \in Outcomes(bound) :
         \/ /\ Starts(f)
            /\ Enter(table, group, n)
            /\ db' = StampStore(Db1(f), table, group, k + 1, f)
            /\ rooms' = [rooms EXCEPT ![r] = IF Landed(f, k + n + 3) THEN FoundRow(row) ELSE row]
            /\ Finish(f, StampMemory(Mem1(f), table, group, k + 1, f), missing, queue)
         \/ /\ ~Starts(f)
            /\ db' = Db1(f)
            /\ rooms' = IF Landed(f, k + 1) THEN [rooms EXCEPT ![r] = row] ELSE rooms
            /\ Finish(f, Mem1(f), missing, queue)
            /\ UNCHANGED rosters
  BY DEF UpdateRoomOptions
<1>3. Types /\ MemoryShape /\ StoreShape /\ Len(rosters) \in Nat
  BY ShapeParts DEF ShapeInv
<1>4. /\ mem \in [Tickets -> TicketRecords] /\ db \in [Tickets -> TicketRecords]
      /\ queue \in Seq(Tickets) /\ rooms \in [Rooms -> RoomRecords] /\ rosters \in Seq(Rosters)
  BY <1>3 DEF MemoryShape, StoreShape
<1>5. /\ rooms[r] \in RoomRecords /\ rooms[r].need \in Nat /\ k \in Nat
      /\ n \in Nat /\ k + n + 3 \in Nat /\ k + 1 \in Nat
      /\ seats \in Seq(Tickets) /\ S \subseteq Tickets
  <2>1. /\ rooms[r] \in RoomRecords /\ rooms[r].need \in Nat /\ seats \in Seq(Tickets)
        /\ S \subseteq Tickets
    BY <1>1, WaitingRoom
  <2>2. k \in Nat /\ n \in Nat
    BY <2>1, LenProperties, SizeFacts
  <2> HIDE DEF k
  <2> QED
    BY <2>1, <2>2
<1>6. Calm /\ f = AllWell
  <2>1. bound \in Nat
    BY <1>5
  <2>2. \E M1 : Finish(f, M1, missing, queue)
    BY <1>2
  <2> HIDE DEF bound
  <2> QED
    BY <1>3, <2>1, <2>2, FinishCalm
<1>7. CalmBody
  BY <1>6 DEF CalmInv
<1> DEFINE mem1 == Mem1(AllWell)
           db1 == Db1(AllWell)
<1>8. \A x \in Tickets :
         /\ mem1[x] = IF x \in S THEN Queued(db[x].user, r, n) ELSE mem[x]
         /\ db1[x] = IF x \in S THEN Queued(db[x].user, r, n) ELSE db[x]
         /\ table[x] = IF x \in S THEN Queued(db[x].user, r, n) ELSE NoTicket
  <2> DEFINE passed == {i \in DOMAIN seats : Passed(AllWell, i - 1)}
             landed == {i \in DOMAIN seats : Landed(AllWell, i)}
  <2>1. passed = DOMAIN rooms[r].seats /\ landed = DOMAIN rooms[r].seats
    BY AllWellFacts
  <2>2. /\ mem1 = Resized(mem, rooms[r].seats, n, DOMAIN rooms[r].seats)
        /\ db1 = Resized(db, rooms[r].seats, n, DOMAIN rooms[r].seats)
    BY <2>1
  <2>3. table = Resized(EmptyCache, rooms[r].seats, n, DOMAIN rooms[r].seats)
    OBVIOUS
  <2> HIDE DEF mem1, db1, table, S
  <2>4. \A x \in Tickets : EmptyCache[x] = NoTicket
    BY DEF EmptyCache
  <2>5. \A x \in Tickets : mem1[x] = IF x \in S THEN Queued(db[x].user, r, n) ELSE mem[x]
    <3>1. SeatsResized(Resized(mem, rooms[r].seats, n, DOMAIN rooms[r].seats), mem, r, n)
      BY <1>1, <1>7, ResizedCalm
    <3> QED
      BY <2>2, <3>1 DEF S, SeatsResized
  <2>6. \A x \in Tickets : db1[x] = IF x \in S THEN Queued(db[x].user, r, n) ELSE db[x]
    <3>1. SeatsResized(Resized(db, rooms[r].seats, n, DOMAIN rooms[r].seats), db, r, n)
      BY <1>1, <1>7, ResizedCalm
    <3> QED
      BY <2>2, <3>1 DEF S, SeatsResized
  <2>7. \A x \in Tickets : table[x] = IF x \in S THEN Queued(db[x].user, r, n) ELSE EmptyCache[x]
    <3>1. SeatsResized(Resized(EmptyCache, rooms[r].seats, n, DOMAIN rooms[r].seats), EmptyCache, r, n)
      BY <1>1, <1>7, ResizedCalm
    <3> QED
      BY <2>3, <3>1 DEF S, SeatsResized
  <2> QED
    BY <2>4, <2>5, <2>6, <2>7
<1>9. db1 \in [Tickets -> TicketRecords] /\ mem1 \in [Tickets -> TicketRecords]
  <2> DEFINE passed == {i \in DOMAIN seats : Passed(AllWell, i - 1)}
             landed == {i \in DOMAIN seats : Landed(AllWell, i)}
  <2>1. mem1 = Resized(mem, seats, n, passed) /\ db1 = Resized(db, seats, n, landed)
    OBVIOUS
  <2> HIDE DEF mem1, db1, passed, landed, seats
  <2>2. Resized(db, seats, n, landed) \in [Tickets -> TicketRecords]
    BY <1>4, ResizedFacts
  <2>3. Resized(mem, seats, n, passed) \in [Tickets -> TicketRecords]
    BY <1>4, ResizedFacts
  <2> QED
    BY <2>1, <2>2, <2>3
<1>10. ASSUME NEW x \in S
       PROVE  /\ x \in Tickets /\ db[x].status = "queued" /\ db[x].room = r /\ db[x].match = None
              /\ db1[x] = Queued(db[x].user, r, n) /\ db1[x].user = db[x].user
              /\ db1[x].status = "queued" /\ db1[x].room = r /\ db1[x].match = None
              /\ db1[x] # NoTicket /\ mem1[x] = db1[x] /\ table[x] = db1[x]
              /\ members[r][db[x].user] = x
  <2>1. x \in Tickets /\ db[x].status = "queued" /\ db[x].room = r /\ db[x].user \in Users /\ SeatsOK(r)
    BY <1>1, <1>7, SeatRows DEF CalmBody
  <2>2. db[x].match = None
    BY <1>7, <2>1 DEF CalmBody, Decided
  <2>3. /\ db1[x] = Queued(db[x].user, r, n) /\ mem1[x] = Queued(db[x].user, r, n)
        /\ table[x] = Queued(db[x].user, r, n)
    BY <1>8, <2>1
  <2>4. members[r][db[x].user] = x
    BY <2>1 DEF SeatsOK
  <2> DEFINE v == db[x].user
  <2> HIDE DEF v, mem1, db1, table
  <2>5. /\ Queued(v, r, n) # NoTicket /\ Queued(v, r, n).user = v
        /\ Queued(v, r, n).status = "queued" /\ Queued(v, r, n).room = r
        /\ Queued(v, r, n).match = None
    BY <2>1, QueuedFacts DEF v
  <2> QED
    BY <2>1, <2>2, <2>3, <2>4, <2>5 DEF v
<1>11. \A x \in Tickets : x \notin S => db1[x] = db[x] /\ mem1[x] = mem[x]
  BY <1>8
<1> HIDE DEF mem1, db1, table, group, S
<1>12. \A x \in Tickets : /\ db1[x].user = db[x].user /\ db1[x].status = db[x].status
                          /\ db1[x].match = db[x].match
  BY <1>10, <1>11
<1>13. OneQueued(db1) /\ Decided(db1, Len(rosters)) /\ SameMatches(db1) /\ Final(db1)
  BY <1>7, <1>12 DEF CalmBody, OneQueued, Decided, SameMatches, Final
<1>14. \A x \in Tickets : mem1[x] \in {NoTicket, db1[x]}
  BY <1>7, <1>10, <1>11 DEF CalmBody, CacheInv
<1>15. Distinct(seats) /\ k < rooms[r].need /\ \E x \in S : db[x].user = rooms[r].host
  BY <1>1, <1>7 DEF CalmBody, SeatsInv, SeatsOK, S
<1>16. \A x \in Rooms : x # r => rooms'[x] = rooms[x] /\ members'[x] = members[x]
  BY <1>1, <1>2, <1>4
<1>17. /\ row \in RoomRecords /\ row.seats = seats /\ row.status = "waiting"
       /\ row.need = n /\ row.host = rooms[r].host
  BY <1>1, <1>5, RoomRow
<1>18. \A k1 : Passed(f, k1) /\ Landed(f, k1)
  BY <1>6, AllWellFacts
(* What holds whether or not the match starts, as only tickets of the room *)
(* change.                                                                 *)
<1>19. ASSUME queue' = queue, \A x \in Tickets : db[x].room # r => db'[x] = db[x]
       PROVE  /\ LineInv'
              /\ \A x \in Rooms : x # r /\ rooms'[x].status = "waiting" => SeatsOK(x)'
  <2>1. r # None
    BY ConstantFacts DEF Rooms, None
  <2>2. LineInv'
    <3>1. ASSUME NEW i \in DOMAIN queue PROVE db'[queue[i]] = db[queue[i]]
      <4>1. queue[i] \in Tickets /\ db[queue[i]].room = None
        BY <1>4, <1>7 DEF CalmBody, LineInv
      <4> QED
        BY <1>19, <2>1, <4>1
    <3> QED
      BY <1>7, <1>19, <3>1 DEF CalmBody, LineInv
  <2>3. ASSUME NEW x \in Rooms, x # r, rooms'[x].status = "waiting" PROVE SeatsOK(x)'
    <3>1. SeatsOK(x) /\ rooms'[x] = rooms[x] /\ members'[x] = members[x] /\ rooms[x].status = "waiting"
      BY <1>7, <1>16, <2>3 DEF CalmBody, SeatsInv
    <3>2. \A y \in Elements(rooms[x].seats) : y \in Tickets /\ db[y].room = x
      BY <1>7, <3>1, SeatRows DEF CalmBody
    <3>3. \A y \in Elements(rooms[x].seats) : db'[y] = db[y]
      BY <1>19, <2>3, <3>2
    <3> QED
      BY <3>1, <3>3, SeatsKept
  <2> QED
    BY <2>2, <2>3
<1>20. CASE /\ ~Starts(f)
            /\ db' = db1
            /\ rooms' = [rooms EXCEPT ![r] = row]
            /\ Finish(f, mem1, missing, queue)
            /\ UNCHANGED rosters
  <2>1. /\ mem' = mem1 /\ missing' = missing /\ queue' = queue /\ online' = online
        /\ restarts' = restarts
    BY <1>3, <1>5, <1>20, FinishCalm
  <2>2. CacheInv'
    BY <1>7, <1>14, <1>20, <2>1 DEF CalmBody, CacheInv
  <2>3. \A x \in Tickets : db[x].room # r => db'[x] = db[x]
    BY <1>10, <1>11, <1>20
  <2>4. SeatsOK(r)'
    <3>1. k < n
      BY <1>5, <1>18, <1>20 DEF Fills
    <3>2. rooms'[r] = row
      BY <1>4, <1>20
    <3> HIDE DEF row, k
    <3>3. rooms'[r].seats = seats /\ rooms'[r].need = n /\ rooms'[r].host = rooms[r].host
      BY <1>17, <3>2
    <3>4. Elements(rooms'[r].seats) = S
      BY <3>3 DEF S
    <3>5. \A x \in S : /\ db'[x] = Queued(db'[x].user, r, n) /\ db'[x].user = db[x].user
                       /\ members'[r][db'[x].user] = x
      BY <1>1, <1>10, <1>20
    <3>6. Len(rooms'[r].seats) < rooms'[r].need /\ Distinct(rooms'[r].seats)
      BY <1>15, <3>1, <3>3 DEF k
    <3>7. \E x \in S : db'[x].user = rooms'[r].host
      BY <1>15, <3>3, <3>5
    <3> QED
      BY <3>3, <3>4, <3>5, <3>6, <3>7 DEF SeatsOK
  <2>5. LineInv' /\ SeatsInv'
    BY <1>19, <2>1, <2>3, <2>4 DEF SeatsInv
  <2>6. ASSUME restarts' = 0 PROVE restarts = 0 /\ RosterBody'
    <3>1. RosterBody /\ DOMAIN rosters = 1 .. Len(rosters)
      BY <1>4, <1>6, <2>1, <2>6, LenProperties DEF RosterInv
    <3>2. SameMatches(db') /\ rosters' = rosters
      BY <1>13, <1>20
    <3> QED
      BY <1>3, <2>1, <2>6, <3>1, <3>2, RosterKept
  <2>7. OneQueued(db') /\ Decided(db', Len(rosters')) /\ Final(db')
    BY <1>13, <1>20
  <2> QED
    BY <1>6, <2>2, <2>5, <2>6, <2>7 DEF CalmBody
<1>21. CASE /\ Starts(f)
            /\ Enter(table, group, n)
            /\ db' = StampStore(db1, table, group, k + 1, AllWell)
            /\ rooms' = [rooms EXCEPT ![r] = FoundRow(row)]
            /\ Finish(f, StampMemory(mem1, table, group, k + 1, AllWell), missing, queue)
  <2>1. /\ mem' = StampMemory(mem1, table, group, k + 1, AllWell) /\ missing' = missing
        /\ queue' = queue /\ online' = online /\ restarts' = restarts
    BY <1>3, <1>5, <1>21, FinishCalm
  <2>2. k = n
    BY <1>1, <1>5, <1>15, <1>21 DEF Fills
  <2>3. group \in Seq(Tickets) /\ Len(group) = n /\ Distinct(group) /\ Elements(group) = S
    BY <1>5, <1>15, <2>2, SplitFacts DEF Group, group, S
  <2>4. /\ NewMatch = Len(rosters) + 1 /\ NewMatch \in 0 .. MaxMatches /\ NewMatch \in Nat
        /\ Len(rosters') = Len(rosters) + 1
    BY <1>21, EnterFacts
  <2>5. /\ db' = Stamped(db1, S)
        /\ \A x \in Tickets : mem'[x] \in {NoTicket, db'[x]}
    <3>1. \A x \in Elements(group) : table[x] = db1[x] /\ db1[x] # NoTicket
      BY <1>10, <2>3
    <3>2. /\ StampStore(db1, table, group, k + 1, AllWell) = Stamped(db1, Elements(group))
          /\ \A x \in Tickets : StampMemory(mem1, table, group, k + 1, AllWell)[x] \in
                {NoTicket, Stamped(db1, Elements(group))[x]}
      BY <1>9, <1>14, <3>1, CalmStamp
    <3> QED
      BY <1>21, <2>1, <2>3, <3>2
  <2>6. /\ \A x \in Tickets : x \notin S => db'[x] = db1[x]
        /\ OneQueued(db') /\ Decided(db', Len(rosters) + 1) /\ Final(db')
    <3>1. S \in SUBSET Tickets /\ \A x \in S : db1[x].status = "queued"
      BY <1>10
    <3> QED
      BY <1>3, <1>9, <1>13, <2>4, <2>5, <3>1, StampedFacts
  <2>7. CacheInv'
    BY <1>7, <2>1, <2>5 DEF CalmBody, CacheInv
  <2>8. \A x \in Tickets : db[x].room # r => db'[x] = db[x]
    BY <1>10, <1>11, <2>6
  <2>9. rooms'[r].status # "waiting"
    <3>1. FoundRow(row).status = "found"
      BY <1>17, <2>4, RoomRow
    <3> HIDE DEF row
    <3> QED
      BY <1>4, <1>21, <3>1
  <2>10. LineInv' /\ SeatsInv'
    BY <1>19, <2>1, <2>8, <2>9 DEF SeatsInv
  <2>11. ASSUME restarts' = 0 PROVE restarts = 0 /\ RosterBody'
    <3>1. RosterBody /\ restarts = 0
      BY <1>6, <2>1, <2>11 DEF RosterInv
    <3>2. \A x \in Elements(group) : table[x] = db1[x] /\ db1[x].status = "queued"
      BY <1>10, <2>3
    <3>3. db' = Stamped(db1, Elements(group)) /\ Enter(table, group, n)
      BY <1>21, <2>3, <2>5
    <3> QED
      BY <1>9, <1>13, <2>1, <2>3, <3>1, <3>2, <3>3, RosterStart
  <2> QED
    BY <1>6, <2>4, <2>6, <2>7, <2>10, <2>11 DEF CalmBody
<1>22. \/ /\ Starts(f)
          /\ Enter(table, group, n)
          /\ db' = StampStore(db1, table, group, k + 1, AllWell)
          /\ rooms' = [rooms EXCEPT ![r] = FoundRow(row)]
          /\ Finish(f, StampMemory(mem1, table, group, k + 1, AllWell), missing, queue)
       \/ /\ ~Starts(f)
          /\ db' = db1
          /\ rooms' = [rooms EXCEPT ![r] = row]
          /\ Finish(f, mem1, missing, queue)
          /\ UNCHANGED rosters
  <2> HIDE DEF Mem1, Db1, Starts, k, row
  <2>1. Mem1(f) = mem1 /\ Db1(f) = db1
    BY <1>6 DEF mem1, db1
  <2> QED
    BY <1>2, <1>6, <1>18, <2>1
<1> QED
  BY <1>20, <1>21, <1>22

-----------------------------------------------------------------------------
(* The inductive invariant.                                                *)

(* The lobby starts calm and empty.                                        *)
LEMMA InitInv == Init => IInv
<1> SUFFICES ASSUME Init PROVE IInv
  OBVIOUS
<1>1. /\ MaxTickets \in Nat /\ MaxRooms \in Nat /\ MaxFaults \in Nat /\ MaxCrashes \in Nat
      /\ MaxRestarts \in Nat /\ MaxPlayers \in Nat
  BY ConstantFacts
<1>2. EmptyCache \in [Tickets -> TicketRecords] /\ \A t \in Tickets : EmptyCache[t] = NoTicket
  BY DEF EmptyCache, TicketRecords
<1>3. /\ mem = EmptyCache /\ db = EmptyCache /\ missing = {} /\ queue = <<>> /\ online = Users
      /\ rooms = [r \in Rooms |-> NoRoom] /\ members = [r \in Rooms |-> [u \in Users |-> None]]
      /\ minted = 0 /\ opened = 0 /\ rosters = <<>> /\ faults = 0 /\ crashes = 0 /\ restarts = 0
  BY DEF Init
<1>4. NoRoom \in RoomRecords
  BY DEF NoRoom, RoomRecords, None
<1>5. Types
  <2>1. 0 \in 0 .. MaxTickets /\ 0 \in 0 .. MaxRooms /\ 0 \in 0 .. MaxFaults
        /\ 0 \in 0 .. MaxCrashes /\ 0 \in 0 .. MaxRestarts
    BY <1>1
  <2> QED
    BY <1>2, <1>3, <1>4, <2>1 DEF Types
<1>6. \A r \in Rooms : rooms[r] = NoRoom
  BY <1>3
<1>7. NoRoom.status = "none" /\ NoRoom.seats = <<>> /\ NoRoom.match = None
  BY DEF NoRoom
<1>8. FreshInv /\ QueueInv
  BY <1>2, <1>3, <1>6 DEF FreshInv, QueueInv
<1>9. (\A r \in Rooms : RoomInv(r)) /\ NoGhostSeat
  <2>1. Len(<<>>) = 0 /\ Elements(<<>>) = {}
    BY DEF Elements
  <2>2. Len(rosters) = 0
    BY <1>3
  <2>3. \A r \in Rooms : RoomInv(r)
    BY <1>1, <1>6, <1>7, <2>1, <2>2 DEF RoomInv, None
  <2> QED
    BY <1>6, <1>7, <2>3 DEF NoGhostSeat, Waiting
<1>10. CalmBody
  <2>1. NoTicket.status = "none" /\ NoTicket.match = None
    BY DEF NoTicket
  <2>2. Len(rosters) = 0
    BY <1>3
  <2>3. CacheInv /\ OneQueued(db) /\ LineInv
    BY <1>2, <1>3, <2>1 DEF CacheInv, OneQueued, LineInv, Distinct
  <2>4. SeatsInv
    BY <1>6, <1>7 DEF SeatsInv
  <2>5. Decided(db, Len(rosters))
    BY <1>2, <1>3, <2>1, <2>2 DEF Decided, None
  <2> QED
    BY <2>3, <2>4, <2>5 DEF CalmBody
<1>11. RosterBody
  BY <1>3 DEF RosterBody
<1> QED
  BY <1>5, <1>8, <1>9, <1>10, <1>11 DEF IInv, ShapeInv, CalmInv, RosterInv

(* Every step keeps the shape, and a step to a calm state keeps the rest.  *)
LEMMA StepFacts ==
    ASSUME IInv, [Next]_vars
    PROVE  ShapeInv' /\ CalmStep
<1>1. ShapeInv /\ CalmInv /\ RosterInv
  BY DEF IInv
<1>2. CASE UNCHANGED vars
  <2>1. ShapeInv'
    <3>1. UNCHANGED <<mem, missing, queue, online, db, rooms, members, minted, opened, rosters,
                      faults, crashes, restarts>>
      BY <1>2 DEF vars, memory, store, counts
    <3>2. Types' /\ FreshInv' /\ QueueInv'
      BY <1>1, <3>1 DEF ShapeInv, Types, FreshInv, QueueInv
    <3>3. \A r \in Rooms : RoomInv(r)'
      BY <1>1, <3>1 DEF ShapeInv, RoomInv
    <3>4. NoGhostSeat'
      BY <1>1, <3>1 DEF ShapeInv, NoGhostSeat, NoFault, Waiting, SeatsIn
    <3> QED
      BY <3>2, <3>3, <3>4 DEF ShapeInv
  <2> QED
    BY <1>1, <1>2, <2>1, QuietCalm
<1>3. CASE \E u \in Users, n \in Sizes : JoinQueue(u, n)
  BY <1>1, <1>3, JoinQueueShape, JoinQueueCalm
<1>4. CASE \E u \in Users, n \in Sizes : CreateRoom(u, n)
  BY <1>1, <1>4, CreateRoomShape, CreateRoomCalm
<1>5. CASE \E u \in Users, r \in Rooms : JoinRoom(u, r)
  BY <1>1, <1>5, JoinRoomShape, JoinRoomCalm
<1>6. CASE \E u \in Users, r \in Rooms : LeaveRoom(u, r)
  BY <1>1, <1>6, LeaveRoomShape, LeaveRoomCalm
<1>7. CASE \E u \in Users, r \in Rooms, n \in Sizes : UpdateRoomOptions(u, r, n)
  BY <1>1, <1>7, UpdateShape, UpdateCalm
<1>8. CASE \E u \in Users, t \in Tickets : CancelTicket(u, t)
  BY <1>1, <1>8, CancelTicketShape, CancelTicketCalm
<1>9. CASE \E u \in Users, t \in Tickets : Heartbeat(u, t)
  BY <1>1, <1>9, HeartbeatShape, HeartbeatCalm
<1>10. CASE \/ \E u \in Users : Login(u)
            \/ \E t \in Tickets : LookupFails(t)
            \/ \E rs \in SUBSET Rooms : SweepExpiredRooms(rs)
            \/ Restart
  BY <1>1, <1>10, QuietShape, QuietCalm
<1> QED
  BY <1>2, <1>3, <1>4, <1>5, <1>6, <1>7, <1>8, <1>9, <1>10 DEF Next

(* The invariant is inductive.                                             *)
LEMMA NextInv == IInv /\ [Next]_vars => IInv'
<1> SUFFICES ASSUME IInv, [Next]_vars PROVE IInv'
  OBVIOUS
<1>1. ShapeInv' /\ CalmStep
  BY StepFacts
<1> QED
  BY <1>1 DEF IInv, CalmInv, RosterInv, CalmStep

(* The invariant holds of every reachable state of the lobby, for any      *)
(* number of users, tickets, rooms and matches, and any number of failed   *)
(* writes, crashes inside a handler and restarts.                          *)
THEOREM InductiveInvariant == Spec => []IInv
<1>1. Init => IInv
  BY InitInv
<1>2. IInv /\ [Next]_vars => IInv'
  BY NextInv
<1> QED
  BY <1>1, <1>2, PTL DEF Spec

-----------------------------------------------------------------------------
(* What follows from it.                                                   *)

(* The types are part of the shape.                                        *)
LEMMA TypeFollows == IInv => TypeOK
<1> SUFFICES ASSUME IInv PROVE TypeOK
  OBVIOUS
<1>1. Types /\ \A r \in Rooms : RoomInv(r)
  BY DEF IInv, ShapeInv
<1>2. /\ {mem[t] : t \in Tickets} \subseteq TicketRecords /\ DOMAIN mem = Tickets
      /\ {db[t] : t \in Tickets} \subseteq TicketRecords /\ DOMAIN db = Tickets
      /\ missing \subseteq Tickets /\ online \subseteq Users
  BY <1>1 DEF Types
<1>3. Elements(queue) \subseteq Tickets
  BY <1>1, ElementOfSeq, LenProperties DEF Types, Elements
<1>4. ASSUME NEW r \in Rooms
      PROVE  /\ rooms[r].status \in {"none", "waiting", "found", "closed", "expired"}
             /\ Elements(rooms[r].seats) \subseteq 1 .. minted
             /\ Len(rooms[r].seats) <= MaxPlayers
             /\ rooms[r].host \in Users \cup {NoUser}
             /\ rooms[r].need \in Sizes \cup {0}
             /\ rooms[r].match \in 0 .. Len(rosters)
  <2>1. rooms[r] \in RoomRecords /\ Len(rosters) \in Nat
    BY <1>1, LenProperties DEF Types
  <2>2. /\ rooms[r].status \in {"none", "waiting", "found", "closed", "expired"}
        /\ rooms[r].host \in Users \cup {NoUser}
        /\ rooms[r].need \in Sizes \cup {0} /\ rooms[r].match \in Nat
    BY <2>1, RoomRow
  <2> QED
    BY <1>1, <2>1, <2>2 DEF RoomInv
<1>5. \A m \in DOMAIN rosters : rosters[m].users \subseteq Users /\ rosters[m].size \in Sizes
  <2> SUFFICES ASSUME NEW m \in DOMAIN rosters
               PROVE  rosters[m].users \subseteq Users /\ rosters[m].size \in Sizes
    OBVIOUS
  <2>1. rosters[m] \in [users : SUBSET Users, size : Sizes]
    BY <1>1, ElementOfSeq, LenProperties DEF Types
  <2> QED
    BY <2>1
<1> QED
  BY <1>1, <1>2, <1>3, <1>4, <1>5 DEF TypeOK, Types

(* A set without two members counts at most one.                           *)
LEMMA AtMostOne ==
    ASSUME NEW S, \A x, y \in S : x = y
    PROVE  Cardinality(S) \in {0, 1} /\ (S = {} => Cardinality(S) = 0)
<1>1. CASE S = {}
  BY <1>1, FS_EmptySet
<1>2. CASE S # {}
  <2>1. PICK x : x \in S
    BY <1>2
  <2>2. S = {x}
    BY <2>1
  <2> QED
    BY <1>2, <2>2, FS_Singleton
<1> QED
  BY <1>1, <1>2

(* One queued row, distinct lines and the room a ticket names give one     *)
(* place.                                                                  *)
LEMMA OnePlaceFollows == IInv => OnePlacePerUser
<1> SUFFICES ASSUME IInv, Calm, NEW u \in Users
             PROVE  Cardinality({i \in DOMAIN queue : Look(queue[i]).user = u})
                      + Cardinality({p \in Waiting \X (1 .. MaxPlayers) :
                                       /\ p[2] \in DOMAIN rooms[p[1]].seats
                                       /\ Look(rooms[p[1]].seats[p[2]]).user = u}) <= 1
  BY DEF OnePlacePerUser
<1> DEFINE A == {i \in DOMAIN queue : Look(queue[i]).user = u}
           B == {p \in Waiting \X (1 .. MaxPlayers) :
                    /\ p[2] \in DOMAIN rooms[p[1]].seats
                    /\ Look(rooms[p[1]].seats[p[2]]).user = u}
<1>1. ShapeInv /\ CalmBody
  BY DEF IInv, CalmInv
<1>2. \A t \in Tickets : Look(t) = db[t]
  BY <1>1, CalmLook DEF CalmBody
<1>3. queue \in Seq(Tickets)
  BY <1>1, ShapeParts DEF MemoryShape
<1>4. ASSUME NEW i \in A
      PROVE  /\ queue[i] \in Tickets /\ db[queue[i]].user = u /\ i \in DOMAIN queue
             /\ db[queue[i]].status = "queued" /\ db[queue[i]].room = None
  <2>1. queue[i] \in Tickets /\ i \in DOMAIN queue
    BY <1>3
  <2> QED
    BY <1>1, <1>2, <2>1 DEF CalmBody, LineInv
<1>5. ASSUME NEW p \in B
      PROVE  LET t == rooms[p[1]].seats[p[2]]
             IN /\ t \in Tickets /\ db[t].user = u /\ db[t].status = "queued" /\ db[t].room = p[1]
                /\ p[1] \in Rooms /\ p[1] # None /\ Distinct(rooms[p[1]].seats)
                /\ p[2] \in DOMAIN rooms[p[1]].seats /\ p = <<p[1], p[2]>>
  <2> DEFINE r == p[1]
             t == rooms[p[1]].seats[p[2]]
  <2>1. /\ r \in Rooms /\ rooms[r].status = "waiting" /\ p[2] \in DOMAIN rooms[r].seats
        /\ Look(t).user = u /\ p = <<p[1], p[2]>>
    BY DEF Waiting
  <2>2. t \in Elements(rooms[r].seats)
    BY <2>1 DEF Elements
  <2> HIDE DEF r, t
  <2>3. /\ t \in Tickets /\ db[t].status = "queued" /\ db[t].room = r /\ r # None /\ SeatsOK(r)
    BY <1>1, <2>1, <2>2, SeatRows DEF CalmBody
  <2>4. db[t].user = u /\ Distinct(rooms[r].seats)
    BY <1>2, <2>1, <2>3 DEF SeatsOK
  <2> QED
    BY <2>1, <2>3, <2>4 DEF r, t
<1>6. OneQueued(db) /\ Distinct(queue)
  BY <1>1 DEF CalmBody, LineInv
<1> HIDE DEF A, B
<1>7. \A i, j \in A : i = j
  BY <1>4, <1>6 DEF OneQueued, Distinct
<1>8. ASSUME NEW p \in B, NEW q \in B PROVE p = q
  <2>1. rooms[p[1]].seats[p[2]] = rooms[q[1]].seats[q[2]]
    BY <1>5, <1>6 DEF OneQueued
  <2>2. p[1] = q[1]
    BY <1>5, <2>1
  <2>3. p[2] = q[2]
    BY <1>5, <2>1, <2>2 DEF Distinct
  <2> QED
    BY <1>5, <2>2, <2>3
<1>9. A = {} \/ B = {}
  <2> SUFFICES ASSUME NEW i \in A, NEW p \in B PROVE FALSE
    OBVIOUS
  <2>1. queue[i] = rooms[p[1]].seats[p[2]]
    BY <1>4, <1>5, <1>6 DEF OneQueued
  <2> QED
    BY <1>4, <1>5, <2>1
<1>10. Cardinality(A) \in {0, 1} /\ (A = {} => Cardinality(A) = 0)
  BY <1>7, AtMostOne
<1>11. Cardinality(B) \in {0, 1} /\ (B = {} => Cardinality(B) = 0)
  BY <1>8, AtMostOne
<1>12. Cardinality(A) + Cardinality(B) <= 1
  BY <1>9, <1>10, <1>11
<1> QED
  BY <1>12 DEF A, B

(* The bounds of a waiting room are part of the invariant.                 *)
LEMMA UsableFollows == IInv => WaitingRoomUsable
<1> SUFFICES ASSUME IInv, NEW r \in Rooms, rooms[r].status = "waiting"
             PROVE  /\ Len(rooms[r].seats) \in 1 .. rooms[r].need
                    /\ Calm => Len(rooms[r].seats) < rooms[r].need
                    /\ Calm => \E t \in SeatsIn(r) : Look(t).user = rooms[r].host
  BY DEF WaitingRoomUsable, Waiting
<1>1. ShapeInv /\ CalmInv
  BY DEF IInv
<1>2. Len(rooms[r].seats) \in 1 .. rooms[r].need /\ Elements(rooms[r].seats) \subseteq Tickets
  BY <1>1, WaitingRoom
<1>3. ASSUME Calm
      PROVE  /\ Len(rooms[r].seats) < rooms[r].need
             /\ \E t \in SeatsIn(r) : Look(t).user = rooms[r].host
  <2>1. SeatsOK(r) /\ CacheInv
    BY <1>1, <1>3 DEF CalmInv, CalmBody, SeatsInv
  <2>2. \A t \in Tickets : Look(t) = db[t]
    BY <1>1, <2>1, CalmLook
  <2> QED
    BY <1>2, <2>1, <2>2 DEF SeatsOK, SeatsIn
<1> QED
  BY <1>2, <1>3

(* So is what its seats say, as lookups answer with rows.                  *)
LEMMA SeatsAgreeFollows == IInv => SeatsAgreeWithRoom
<1> SUFFICES ASSUME IInv, Calm, NEW r \in Rooms, rooms[r].status = "waiting",
                    NEW t \in Elements(rooms[r].seats)
             PROVE  /\ Look(t) = Queued(Look(t).user, r, rooms[r].need)
                    /\ members[r][Look(t).user] = t
  BY DEF SeatsAgreeWithRoom, Waiting, SeatsIn
<1>1. ShapeInv /\ CalmBody
  BY DEF IInv, CalmInv
<1>2. SeatsOK(r) /\ t \in Tickets
  BY <1>1, SeatRows DEF CalmBody
<1>3. Look(t) = db[t]
  BY <1>1, <1>2, CalmLook DEF CalmBody
<1> QED
  BY <1>2, <1>3 DEF SeatsOK

(* Tickets, rooms, seats and counters stay what their columns admit,       *)
(* whatever write fails or crash interrupts a handler.                     *)
THEOREM TypeCorrect == Spec => []TypeOK
BY InductiveInvariant, TypeFollows, PTL

(* CreateRoom and JoinRoom save the ticket first, so no crash or restart   *)
(* leaves a joinable room that names a ticket without a row.               *)
THEOREM SeatsAreReal == Spec => []NoGhostSeat
<1>1. IInv => NoGhostSeat
  BY DEF IInv, ShapeInv
<1> QED
  BY <1>1, InductiveInvariant, PTL

(* The index on queued tickets alone keeps a player in one place: once in  *)
(* the queue, or on one seat of one waiting room.                          *)
THEOREM PlayersStandOnce == Spec => []OnePlacePerUser
BY InductiveInvariant, OnePlaceFollows, PTL

(* A waiting room is never empty or overfull, has a free seat when no      *)
(* handler was cut short, and its host sits in it.                         *)
THEOREM RoomsStayUsable == Spec => []WaitingRoomUsable
BY InductiveInvariant, UsableFollows, PTL

(* The tickets and seat rows of a waiting room agree with the room through *)
(* any sequence of joins, departures and option changes.                   *)
THEOREM SeatsAgree == Spec => []SeatsAgreeWithRoom
BY InductiveInvariant, SeatsAgreeFollows, PTL

(* A match starts with exactly the players whose tickets say so, and with  *)
(* as many as it was to have.                                              *)
THEOREM MatchesAreTheirTickets == Spec => []MatchIsItsTickets
<1>1. IInv => MatchIsItsTickets
  BY DEF IInv, RosterInv, RosterBody, MatchIsItsTickets
<1> QED
  BY <1>1, InductiveInvariant, PTL

(* No row that says found or cancelled changes its status or its match     *)
(* again, in any step of any handler.                                      *)
THEOREM DecisionsAreFinal == Spec => TicketDecisionIsFinal
<1> DEFINE Keep == Calm' => \A t \in Tickets :
                       db[t].status \in {"found", "cancelled"} =>
                          db'[t].status = db[t].status /\ db'[t].match = db[t].match
<1>1. IInv /\ [Next]_vars => [Keep]_vars
  BY StepFacts DEF CalmStep, Final
<1>2. Spec => [][Keep]_vars
  BY <1>1, InductiveInvariant, PTL DEF Spec
<1> QED
  BY <1>2 DEF TicketDecisionIsFinal

============================================================================
