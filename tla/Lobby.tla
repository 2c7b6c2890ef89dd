------------------------------- MODULE Lobby -------------------------------
(***************************************************************************)
(* How players come together before a match: the queue and the rooms of    *)
(* runtime/core/service.go and room_options.go, their tickets (cache and   *)
(* queue_tickets table) and the room, seat and ticket stores behind them   *)
(* (service_stores.go, room_store.go, queue_ticket_store.go with the table *)
(* of migrations/008_queue_tickets.up.sql).                                *)
(*                                                                         *)
(* A handler runs under the mutex of the Service and is one action, but it *)
(* makes several store writes.  Each of them may fail, which sends the     *)
(* handler down its error path, or the process may die just before it,     *)
(* which leaves the writes so far and an empty memory.                     *)
(*                                                                         *)
(* Tickets are loaded into the cache when they are first looked up.  That  *)
(* changes no answer and is not modelled: mem holds the tickets written    *)
(* since the process started, and a lookup that fails may hit any other.   *)
(* Requests that are refused or find their work done are stutters, and a   *)
(* handler whose error path takes writes back succeeds in that.            *)
(***************************************************************************)
EXTENDS Integers, Sequences, FiniteSets

CONSTANTS
    Users, NoUser,
    Sizes,         \* how many a match may need: coop_players, or the mode's MinPlayers
    MaxPlayers,    \* seats of the mode
    MaxTickets,    \* bound on the queue tickets minted
    MaxRooms,      \* bound on the rooms opened
    MaxMatches,    \* bound on the matches created
    MaxFaults,     \* bound on store calls that fail
    MaxCrashes,    \* bound on crashes inside a handler
    MaxRestarts    \* bound on restarts between handlers

ASSUME LobbyAssumptions ==
    /\ NoUser \notin Users
    /\ MaxPlayers \in Nat
    /\ Sizes \subseteq 2 .. MaxPlayers
    /\ {MaxTickets, MaxRooms, MaxMatches} \subseteq Nat
    /\ {MaxFaults, MaxCrashes, MaxRestarts} \subseteq Nat

Tickets == 1 .. MaxTickets
Rooms == 1 .. MaxRooms
None == 0      \* no ticket, no room, no match

VARIABLES
    mem,       \* s.tickets, NoTicket for what is not cached
    missing,   \* s.missingQueueTickets
    queue,     \* s.queues, for one queue key
    online,    \* s.users: who has logged in since the process started
    db,        \* the queue_tickets table
    rooms,     \* the lobby_rooms table
    members,   \* lobby_room_members: the ticket of a user's seat, None once left
    minted, opened,
    rosters,   \* history: the matches begun, with the players they started with
    faults, crashes, restarts

memory == <<mem, missing, queue, online>>
store == <<db, rooms, members>>
counts == <<faults, crashes, restarts>>
vars == <<memory, store, minted, opened, rosters, counts>>

NoTicket == [user |-> NoUser, status |-> "none", room |-> None, match |-> None, need |-> 0]
NoRoom == [status |-> "none", seats |-> <<>>, host |-> NoUser, need |-> 0, match |-> None]
Queued(u, r, n) == [user |-> u, status |-> "queued", room |-> r, match |-> None, need |-> n]
EmptyCache == [t \in Tickets |-> NoTicket]

-----------------------------------------------------------------------------
(* Store writes.  f.at = k says that the k-th write of the handler is the   *)
(* one that goes wrong: it is lost, or it lands although the handler sees   *)
(* an error, or the process dies in front of it.  f.at = 0: none does.      *)

AllWell == [at |-> 0, how |-> "ok"]
Outcomes(n) ==
    {AllWell}
    \cup (IF faults < MaxFaults THEN [at : 1 .. n, how : {"lost", "unknown"}] ELSE {})
    \cup (IF crashes < MaxCrashes THEN [at : 1 .. n, how : {"crash"}] ELSE {})

Passed(f, k) == f.at = 0 \/ k < f.at
Landed(f, k) == Passed(f, k) \/ (k = f.at /\ f.how = "unknown")
Failed(f, k) == k = f.at /\ f.how # "crash"

(* The memory a handler leaves behind, and the account of what went wrong.  *)
Finish(f, newMem, newMissing, newQueue) ==
    LET dead == f.how = "crash"
    IN /\ mem' = IF dead THEN EmptyCache ELSE newMem
       /\ missing' = IF dead THEN {} ELSE newMissing
       /\ queue' = IF dead THEN <<>> ELSE newQueue
       /\ online' = IF dead THEN {} ELSE online
       /\ faults' = IF f.how \in {"lost", "unknown"} THEN faults + 1 ELSE faults
       /\ crashes' = IF dead THEN crashes + 1 ELSE crashes
       /\ UNCHANGED restarts

(* queueTicketLocked: the cache, then the ids known to be missing, then the *)
(* store.                                                                   *)
Look(t) == IF mem[t] # NoTicket THEN mem[t]
           ELSE IF t \in missing THEN NoTicket ELSE db[t]

(* The unique index on (user_id) over queued tickets: Save fails on it.     *)
(* Mutant: the table has no such index.                                     *)
HoldsQueuedNever(u) == FALSE
HoldsQueued(u) == \E t \in Tickets : db[t].user = u /\ db[t].status = "queued"

(* What is left of the line s, in order, when only the members of S stay.   *)
Only(s, S) ==
    LET left[i \in 0 .. Len(s)] ==
          IF i = 0 THEN <<>>
          ELSE IF s[i] \in S THEN Append(left[i - 1], s[i]) ELSE left[i - 1]
    IN left[Len(s)]

(* Mutant: the shortened list is computed and thrown away.                  *)
RemoveLost(s, t) == s
Remove(s, t) == Only(s, Tickets \ {t})
Elements(s) == {s[i] : i \in DOMAIN s}
SeatOf(r, u) == {t \in Elements(rooms[r].seats) : Look(t).user = u}

-----------------------------------------------------------------------------
(* createMatchLocked for the tickets g, after b writes of the handler: one  *)
(* write for the match, then one for each ticket, stamped in memory first.  *)
(* A ticket that does not resolve, and a user who has not logged in to this *)
(* process, are passed over.                                                *)

(* The tickets that make the match: the first ones of a queue or room.      *)
(* Mutant: one too few.                                                     *)
GroupShort(line, need) == SubSeq(line, 1, need - 1)
Group(line, need) == SubSeq(line, 1, need)

(* Mutant: a status that the check constraint of the table does not know.   *)
StampMatched(tk, m) == [tk EXCEPT !.status = "matched", !.match = m]
Stamp(tk, m) == [tk EXCEPT !.status = "found", !.match = m]
NewMatch == Len(rosters) + 1

FoundRow(row) == [row EXCEPT !.status = "found", !.match = NewMatch]

StampMemory(cache, table, g, b, f) ==
    [t \in Tickets |->
       IF table[t] # NoTicket /\ \E i \in DOMAIN g : g[i] = t /\ Passed(f, b + i)
       THEN Stamp(table[t], NewMatch) ELSE cache[t]]
StampStore(rows, table, g, b, f) ==
    [t \in Tickets |->
       IF table[t] # NoTicket /\ \E i \in DOMAIN g : g[i] = t /\ Landed(f, b + 1 + i)
       THEN Stamp(table[t], NewMatch) ELSE rows[t]]
RosterOf(table, g) == {table[g[i]].user : i \in DOMAIN g} \cap online

Enter(table, g, size) ==
    /\ NewMatch <= MaxMatches
    /\ rosters' = Append(rosters, [users |-> RosterOf(table, g), size |-> size])

-----------------------------------------------------------------------------
(* JoinQueue: the ticket is saved, then queued; the head of the queue says  *)
(* how many play, and a group that is complete leaves the queue before its  *)
(* match is created.                                                        *)
JoinQueue(u, n) ==
    /\ u \in online
    /\ ~HoldsQueued(u)
    /\ minted < MaxTickets
    /\ minted' = minted + 1
    /\ LET t == minted'
           tk == Queued(u, None, n)
           line == Append(queue, t)
           table == [x \in Tickets |-> IF x = t THEN tk ELSE Look(x)]
           need == table[line[1]].need
           group == Group(line, need)
       IN \/ /\ Len(line) < need
             /\ \E f \in Outcomes(1) :
                   /\ db' = IF Passed(f, 1) THEN [db EXCEPT ![t] = tk] ELSE db
                   /\ Finish(f, IF Passed(f, 1) THEN [mem EXCEPT ![t] = tk] ELSE mem,
                             missing, IF Passed(f, 1) THEN line ELSE queue)
             /\ UNCHANGED rosters
          \/ /\ Len(line) >= need
             /\ \E f \in Outcomes(need + 2) :
                   LET mem1 == [mem EXCEPT ![t] = tk]
                       db1 == [db EXCEPT ![t] = tk]
                   IN IF Passed(f, 1)
                      THEN /\ Enter(table, group, need)
                           /\ db' = StampStore(db1, table, group, 1, f)
                           /\ Finish(f, StampMemory(mem1, table, group, 1, f), missing,
                                     SubSeq(line, need + 1, Len(line)))
                      ELSE /\ Finish(f, mem, missing, queue)
                           /\ UNCHANGED <<db, rosters>>
    /\ UNCHANGED <<rooms, members, opened>>

(* waitingRoomTicketForUserLocked: such a user is given his room again.     *)
InWaitingRoom(u) ==
    \E r \in Rooms : /\ rooms[r].status = "waiting"
                     /\ \E t \in SeatOf(r, u) : Look(t).status = "queued"

(* Whether a new ticket outlives a handler that writes ticket, room, seat:  *)
(* an error takes it back, a crash does not.                                *)
(* Mutant: the ticket is written last.                                      *)
KeptLate(f) == f.at = 0
Kept(f) == f.at = 0 \/ (f.how = "crash" /\ f.at > 1)

(* SaveMember upserts the one row a user has in a room.                     *)
(* Mutant: a row that exists is left alone.                                 *)
SeatRowStale(row, t) == IF row = None THEN t ELSE row
SeatRow(row, t) == t

(* CreateRoom: ticket, room, seat.  An error takes the ticket back, and one *)
(* on the seat also closes the room.                                        *)
CreateRoom(u, n) ==
    /\ u \in online
    /\ ~InWaitingRoom(u)
    /\ ~HoldsQueued(u)
    /\ minted < MaxTickets /\ opened < MaxRooms
    /\ minted' = minted + 1
    /\ opened' = opened + 1
    /\ \E f \in Outcomes(3) :
          LET t == minted'
              r == opened'
              tk == Queued(u, r, n)
              fresh == [status |-> IF Failed(f, 3) THEN "closed" ELSE "waiting",
                        seats |-> <<t>>, host |-> u, need |-> n, match |-> None]
          IN /\ db' = IF Kept(f) THEN [db EXCEPT ![t] = tk] ELSE db
             /\ rooms' = IF Landed(f, 2) THEN [rooms EXCEPT ![r] = fresh] ELSE rooms
             /\ members' = IF Landed(f, 3) THEN [members EXCEPT ![r][u] = SeatRow(@, t)] ELSE members
             /\ Finish(f, IF Kept(f) THEN [mem EXCEPT ![t] = tk] ELSE mem, missing, queue)
    /\ UNCHANGED rosters

(* JoinRoom, when the room does not fill up: ticket, room, seat.  An error  *)
(* takes the ticket back, whether or not the room already lists it.         *)
TakeSeat(u, r, t) ==
    \E f \in Outcomes(3) :
       LET tk == Queued(u, r, rooms[r].need)
       IN /\ db' = IF Kept(f) THEN [db EXCEPT ![t] = tk] ELSE db
          /\ rooms' = IF Landed(f, 2) THEN [rooms EXCEPT ![r].seats = Append(@, t)] ELSE rooms
          /\ members' = IF Landed(f, 3) THEN [members EXCEPT ![r][u] = SeatRow(@, t)] ELSE members
          /\ Finish(f, IF Kept(f) THEN [mem EXCEPT ![t] = tk] ELSE mem, missing, queue)
          /\ UNCHANGED rosters

(* JoinRoom, when it does: ticket, match and its tickets, room, seat.  Past *)
(* the first write an error takes nothing back.                             *)
FillRoom(u, r, t) ==
    LET tk == Queued(u, r, rooms[r].need)
        need == rooms[r].need
        seats == Append(rooms[r].seats, t)
        group == Group(seats, need)
        table == [x \in Tickets |-> IF x = t THEN tk ELSE Look(x)]
    IN \E f \in Outcomes(need + 4) :
          IF Passed(f, 1)
          THEN /\ Enter(table, group, need)
               /\ db' = StampStore([db EXCEPT ![t] = tk], table, group, 1, f)
               /\ rooms' = IF Landed(f, need + 3)
                           THEN [rooms EXCEPT ![r] = FoundRow([@ EXCEPT !.seats = seats])]
                           ELSE rooms
               /\ members' = IF Landed(f, need + 4) THEN [members EXCEPT ![r][u] = SeatRow(@, t)] ELSE members
               /\ Finish(f, StampMemory([mem EXCEPT ![t] = tk], table, group, 1, f), missing, queue)
          ELSE /\ Finish(f, mem, missing, queue)
               /\ UNCHANGED <<db, rooms, members, rosters>>

JoinRoom(u, r) ==
    /\ u \in online
    /\ rooms[r].status = "waiting"
    /\ SeatOf(r, u) = {}
    /\ Len(rooms[r].seats) < MaxPlayers
    /\ ~HoldsQueued(u)
    /\ minted < MaxTickets
    /\ minted' = minted + 1
    /\ \/ Len(rooms[r].seats) + 1 < rooms[r].need /\ TakeSeat(u, r, minted')
       \/ Len(rooms[r].seats) + 1 >= rooms[r].need /\ FillRoom(u, r, minted')
    /\ UNCHANGED opened

-----------------------------------------------------------------------------
(* cancelRoomTicketLocked: the ticket, then every seat that stays and is    *)
(* queued, written as it is in memory, then the room, closed when empty and *)
(* with a new host when the host left.                                      *)

Stayers(r, t) == Only(Remove(rooms[r].seats, t), {x \in Tickets : Look(x).status = "queued"})
NextHost(r, t) ==
    IF rooms[r].host = Look(t).user /\ Stayers(r, t) # <<>>
    THEN Look(Stayers(r, t)[1]).user ELSE rooms[r].host

WithoutSeat(r, t) ==
    LET left == Remove(rooms[r].seats, t)
    IN [rooms[r] EXCEPT !.seats = left, !.host = NextHost(r, t),
                        !.status = IF left = <<>> THEN "closed" ELSE @]

RoomWrite(r, t) == Len(Stayers(r, t)) + 2
Live(r) == rooms[r].status \in {"waiting", "found"}
Cancelled(t) == [Look(t) EXCEPT !.status = "cancelled"]

CancelRoomTicket(r, t, f) ==
    /\ db' = [x \in Tickets |->
                IF x = t /\ Landed(f, 1) THEN Cancelled(t)
                ELSE IF Live(r) /\ \E i \in DOMAIN Stayers(r, t) : Stayers(r, t)[i] = x /\ Landed(f, i + 1)
                THEN Look(x) ELSE db[x]]
    /\ rooms' = IF Live(r) /\ Landed(f, RoomWrite(r, t))
                THEN [rooms EXCEPT ![r] = WithoutSeat(r, t)] ELSE rooms
    /\ Finish(f, [mem EXCEPT ![t] = Cancelled(t)], missing, queue)

(* LeaveRoom also stamps the seat's row.                                    *)
LeaveRoom(u, r) ==
    /\ u \in online
    /\ Live(r)
    /\ rooms[r].match = None
    /\ \E t \in SeatOf(r, u) :
          /\ \A x \in SeatOf(r, u) : t <= x
          /\ Look(t).status = "queued"
          /\ \E f \in Outcomes(RoomWrite(r, t) + 1) :
                /\ CancelRoomTicket(r, t, f)
                /\ members' = IF Landed(f, RoomWrite(r, t) + 1)
                              THEN [members EXCEPT ![r][u] = None] ELSE members
    /\ UNCHANGED <<minted, opened, rosters>>

(* CancelTicket leaves the seat's row alone.                                *)
CancelTicket(u, t) ==
    /\ u \in online
    /\ Look(t).user = u
    /\ Look(t).status = "queued"
    /\ LET r == Look(t).room
       IN \/ /\ r # None
             /\ \E f \in Outcomes(IF Live(r) THEN RoomWrite(r, t) ELSE 1) : CancelRoomTicket(r, t, f)
          \/ /\ r = None
             /\ \E f \in Outcomes(1) :
                   /\ db' = IF Landed(f, 1) THEN [db EXCEPT ![t] = Cancelled(t)] ELSE db
                   /\ Finish(f, [mem EXCEPT ![t] = Cancelled(t)], missing, Remove(queue, t))
             /\ UNCHANGED rooms
    /\ UNCHANGED <<members, minted, opened, rosters>>

(* UpdateRoomOptions: the new size goes to every seat's ticket, then to the *)
(* room; formMatchIfRoomFullLocked then starts a room that is full.  With n *)
(* the present size it is another option that changes.                      *)
Resized(table, seats, n, reached) ==
    [t \in Tickets |-> IF Look(t) # NoTicket /\ \E i \in DOMAIN seats : seats[i] = t /\ i \in reached
                       THEN [Look(t) EXCEPT !.need = n] ELSE table[t]]

(* Mutant: a shrink that fills the room starts nothing.                     *)
FillsNever(r, n) == FALSE
Fills(r, n) == Len(rooms[r].seats) >= n

UpdateRoomOptions(u, r, n) ==
    /\ u \in online
    /\ rooms[r].status = "waiting"
    /\ rooms[r].host = u
    /\ n # rooms[r].need => Len(rooms[r].seats) <= n
    /\ LET seats == rooms[r].seats
           k == Len(seats)
           group == Group(seats, n)
           row == [rooms[r] EXCEPT !.need = n]
           table == Resized(EmptyCache, seats, n, DOMAIN seats)
       IN \E f \in Outcomes(IF Fills(r, n) THEN k + n + 3 ELSE k + 1) :
             LET mem1 == Resized(mem, seats, n, {i \in DOMAIN seats : Passed(f, i - 1)})
                 db1 == Resized(db, seats, n, {i \in DOMAIN seats : Landed(f, i)})
                 starts == Fills(r, n) /\ Passed(f, k + 1)
             IN \/ /\ starts
                   /\ Enter(table, group, n)
                   /\ db' = StampStore(db1, table, group, k + 1, f)
                   /\ rooms' = [rooms EXCEPT ![r] =
                         IF Landed(f, k + n + 3) THEN FoundRow(row) ELSE row]
                   /\ Finish(f, StampMemory(mem1, table, group, k + 1, f), missing, queue)
                \/ /\ ~starts
                   /\ db' = db1
                   /\ rooms' = IF Landed(f, k + 1) THEN [rooms EXCEPT ![r] = row] ELSE rooms
                   /\ Finish(f, mem1, missing, queue)
                   /\ UNCHANGED rosters
    /\ UNCHANGED <<members, minted, opened>>

(* Heartbeat writes the ticket through as it is in memory; its error is     *)
(* ignored.                                                                 *)
Heartbeat(u, t) ==
    /\ u \in online
    /\ Look(t).user = u
    /\ Look(t) # db[t]
    /\ \E f \in Outcomes(1) :
          /\ db' = IF Landed(f, 1) THEN [db EXCEPT ![t] = Look(t)] ELSE db
          /\ Finish(f, mem, missing, queue)
    /\ UNCHANGED <<rooms, members, minted, opened, rosters>>

-----------------------------------------------------------------------------
(* queueTicketLocked when the read fails: the id is remembered as missing   *)
(* although the row is there.                                               *)
LookupFails(t) ==
    /\ mem[t] = NoTicket /\ t \notin missing /\ t <= minted
    /\ faults < MaxFaults
    /\ faults' = faults + 1
    /\ missing' = missing \cup {t}
    /\ UNCHANGED <<mem, queue, online, store, minted, opened, rosters, crashes, restarts>>

(* SweepExpiredRooms: any room may be past its expires_at by now; a failing *)
(* CloseRoom ends the pass early.  Tickets and seats are left as they are.  *)
SweepExpiredRooms(rs) ==
    /\ rs # {}
    /\ \A r \in rs : Live(r)
    /\ rooms' = [r \in Rooms |-> IF r \in rs THEN [rooms[r] EXCEPT !.status = "expired"] ELSE rooms[r]]
    /\ UNCHANGED <<memory, db, members, minted, opened, rosters, counts>>

Login(u) ==
    /\ u \notin online
    /\ online' = online \cup {u}
    /\ UNCHANGED <<mem, missing, queue, store, minted, opened, rosters, counts>>

Restart ==
    /\ restarts < MaxRestarts
    /\ restarts' = restarts + 1
    /\ mem' = EmptyCache
    /\ missing' = {}
    /\ queue' = <<>>
    /\ online' = {}
    /\ UNCHANGED <<store, minted, opened, rosters, faults, crashes>>

-----------------------------------------------------------------------------
Init ==
    /\ mem = EmptyCache /\ db = EmptyCache
    /\ missing = {}
    /\ queue = <<>>
    /\ online = Users
    /\ rooms = [r \in Rooms |-> NoRoom]
    /\ members = [r \in Rooms |-> [u \in Users |-> None]]
    /\ minted = 0 /\ opened = 0
    /\ rosters = <<>>
    /\ faults = 0 /\ crashes = 0 /\ restarts = 0

Next ==
    \/ \E u \in Users :
          \/ Login(u)
          \/ \E n \in Sizes : JoinQueue(u, n) \/ CreateRoom(u, n)
          \/ \E r \in Rooms : JoinRoom(u, r) \/ LeaveRoom(u, r)
          \/ \E r \in Rooms, n \in Sizes : UpdateRoomOptions(u, r, n)
          \/ \E t \in Tickets : CancelTicket(u, t) \/ Heartbeat(u, t)
    \/ \E t \in Tickets : LookupFails(t)
    \/ \E rs \in SUBSET Rooms : SweepExpiredRooms(rs)
    \/ Restart

Spec == Init /\ [][Next]_vars

-----------------------------------------------------------------------------
(* Properties.                                                              *)

TicketRecords ==
    {NoTicket} \cup [user : Users, status : {"queued", "found", "cancelled"},
                     room : Rooms \cup {None}, match : 0 .. MaxMatches, need : Sizes]

(* Tickets, rooms and seats hold what their columns admit, among it only    *)
(* the ticket statuses of queue_tickets_status_check, and no room holds     *)
(* more seats than its mode has.                                            *)
TypeOK ==
    /\ {mem[t] : t \in Tickets} \subseteq TicketRecords /\ DOMAIN mem = Tickets
    /\ {db[t] : t \in Tickets} \subseteq TicketRecords /\ DOMAIN db = Tickets
    /\ missing \subseteq Tickets /\ Elements(queue) \subseteq Tickets /\ online \subseteq Users
    /\ \A r \in Rooms :
          /\ rooms[r].status \in {"none", "waiting", "found", "closed", "expired"}
          /\ Elements(rooms[r].seats) \subseteq 1 .. minted
          /\ Len(rooms[r].seats) <= MaxPlayers
          /\ rooms[r].host \in Users \cup {NoUser}
          /\ rooms[r].need \in Sizes \cup {0}
          /\ rooms[r].match \in 0 .. Len(rosters)
    /\ members \in [Rooms -> [Users -> Tickets \cup {None}]]
    /\ minted \in 0 .. MaxTickets /\ opened \in 0 .. MaxRooms
    /\ \A m \in DOMAIN rosters : rosters[m].users \subseteq Users /\ rosters[m].size \in Sizes
    /\ faults \in 0 .. MaxFaults /\ crashes \in 0 .. MaxCrashes /\ restarts \in 0 .. MaxRestarts

NoFault == faults = 0
Calm == NoFault /\ crashes = 0
Waiting == {r \in Rooms : rooms[r].status = "waiting"}
SeatsIn(r) == Elements(rooms[r].seats)

(* A crash anywhere inside a handler never leaves a joinable room that      *)
(* names a ticket without a row: CreateRoom and JoinRoom save the ticket    *)
(* before the room that lists it.                                           *)
NoGhostSeat == NoFault => \A r \in Waiting : \A t \in SeatsIn(r) : db[t] # NoTicket

(* Across restarts a player stands in one place only: in the queue once or  *)
(* on one seat of one waiting room.  No handler looks; the index on queued  *)
(* tickets is all there is.                                                 *)
OnePlacePerUser ==
    Calm => \A u \in Users :
               /\ Cardinality({i \in DOMAIN queue : Look(queue[i]).user = u})
                  + Cardinality({p \in Waiting \X (1 .. MaxPlayers) :
                                   /\ p[2] \in DOMAIN rooms[p[1]].seats
                                   /\ Look(rooms[p[1]].seats[p[2]]).user = u}) <= 1

(* A waiting room is never empty or overfull, whatever fails, and between   *)
(* handlers that ran to their end it has a free seat: a join or a shrink    *)
(* that fills it starts the match, a departure that empties it closes it.   *)
(* Its host sits in it, after any sequence of joins, departures and         *)
(* restarts: only the host may change the options, so nobody could change a *)
(* room whose host is gone.                                                 *)
WaitingRoomUsable ==
    \A r \in Waiting :
       /\ Len(rooms[r].seats) \in 1 .. rooms[r].need
       /\ Calm => Len(rooms[r].seats) < rooms[r].need
       /\ Calm => \E t \in SeatsIn(r) : Look(t).user = rooms[r].host

(* What the players of a waiting room hold agrees with the room: a queued   *)
(* ticket for that room with its size.  The match is built from the tickets *)
(* and the room is what the players see (UpdateRoomOptions writes through). *)
(* The seat rows alone lead from a seat to its player, also when the player *)
(* came back after leaving.                                                 *)
SeatsAgreeWithRoom ==
    Calm => \A r \in Waiting : \A t \in SeatsIn(r) :
               /\ Look(t) = Queued(Look(t).user, r, rooms[r].need)
               /\ members[r][Look(t).user] = t

(* Between restarts a match starts with exactly the players whose tickets   *)
(* say so, and with as many as it was to have.                              *)
MatchIsItsTickets ==
    Calm /\ restarts = 0 =>
       \A m \in DOMAIN rosters :
          /\ rosters[m].users = {db[t].user : t \in {x \in Tickets : db[x].match = m}}
          /\ Cardinality(rosters[m].users) = rosters[m].size

(* A ticket's end is final: no row that says found or cancelled ever        *)
(* changes its status or its match, so nobody who cancelled is matched and  *)
(* nobody is matched twice on one ticket.                                   *)
TicketDecisionIsFinal ==
    [][Calm' => \A t \in Tickets :
          db[t].status \in {"found", "cancelled"} =>
             db'[t].status = db[t].status /\ db'[t].match = db[t].match]_vars

(* Expected to fail.  A ticket that says found belongs to a player of that  *)
(* match, as a store that "makes a ticket outlive the process" promises;    *)
(* createMatchFromParticipantsLocked leaves out who has not logged in since *)
(* the restart and createMatchLocked stamps his ticket all the same.        *)
FoundMeansSeated ==
    Calm => \A t \in Tickets :
       db[t].status = "found" => db[t].user \in rosters[db[t].match].users
============================================================================
