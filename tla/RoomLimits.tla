----------------------------- MODULE RoomLimits -----------------------------
(***************************************************************************)
(* How often one player may create a room: the limiter CreateRoom asks     *)
(* first (room_creation_limiter.go), either the in-process one, a sliding  *)
(* window per lobby process, or the shared counter in Redis, a fixed       *)
(* window (storage/redis_room_limiter.go, RedisClient.Allow).              *)
(***************************************************************************)
EXTENDS Integers, FiniteSets, Sequences

CONSTANTS
    Replicas,       \* lobby processes
    RoomLimit,      \* DefaultRoomCreationLimit
    RoomWindow,     \* DefaultRoomCreationWindow
    MaxInstant,     \* bound on the clock
    MaxAsks,        \* bound on requests
    MaxLives        \* bound on restarts of a lobby

ASSUME RoomLimitsAssumptions ==
    /\ {RoomLimit, RoomWindow} \subseteq Nat \ {0}
    /\ {MaxInstant, MaxAsks, MaxLives} \subseteq Nat

VARIABLES
    instant,    \* the clock
    limiter,    \* s.roomCreationLimiter: "memory" or "redis"
    hits,       \* memoryRoomCreationLimiter.hits of the player, by replica
    counter,    \* the Redis key: [n, expires]; n is 0 when it does not exist
    life,       \* history: how often each replica was restarted
    allowed,    \* history: what the limiter let through: [at, by, life]
    asks

limitVars == <<instant, limiter, hits, counter, life, allowed, asks>>

NoKey == [n |-> 0, expires |-> 0]

(* AllowRoomCreation: the hits still in the window.                         *)
RecentHits(r) ==
    LET recent[i \in 0..Len(hits[r])] ==
          IF i = 0 THEN <<>>
          ELSE IF instant - hits[r][i] < RoomWindow THEN Append(recent[i - 1], hits[r][i]) ELSE recent[i - 1]
    IN recent[Len(hits[r])]

(* Mutant: one more than the limit fits.                                    *)
HasRoomWide(n) == n <= RoomLimit
HasRoom(n) == n < RoomLimit

(* memoryRoomCreationLimiter.AllowRoomCreation: a refused request is not a  *)
(* hit.                                                                     *)
MemoryAllows(r) ==
    /\ HasRoom(Len(RecentHits(r)))
    /\ hits' = [hits EXCEPT ![r] = Append(RecentHits(r), instant)]
    /\ UNCHANGED counter
MemoryRefuses(r) ==
    /\ ~HasRoom(Len(RecentHits(r)))
    /\ hits' = [hits EXCEPT ![r] = RecentHits(r)]
    /\ UNCHANGED counter

(* redisRateLimitScript: INCR, PEXPIRE on the first hit, compare.           *)
RedisAllows ==
    /\ HasRoom(counter.n)
    /\ counter' = [n |-> counter.n + 1,
                   expires |-> IF counter.n = 0 THEN instant + RoomWindow ELSE counter.expires]
    /\ UNCHANGED hits
RedisRefuses ==
    /\ ~HasRoom(counter.n)
    /\ counter' = [counter EXCEPT !.n = @ + 1]
    /\ UNCHANGED hits

(* checkRoomCreationLimitLocked in replica r.                               *)
Asks == asks < MaxAsks /\ asks' = asks + 1
Allowed(r) ==
    /\ Asks
    /\ IF limiter = "memory" THEN MemoryAllows(r) ELSE RedisAllows
    /\ allowed' = Append(allowed, [at |-> instant, by |-> r, life |-> life[r]])
    /\ UNCHANGED <<instant, limiter, life>>
Refused(r) ==
    /\ Asks
    /\ IF limiter = "memory" THEN MemoryRefuses(r) ELSE RedisRefuses
    /\ UNCHANGED <<instant, limiter, life, allowed>>

(* Redis cannot be asked, or its answer does not come back: the room is     *)
(* created all the same.                                                    *)
Unanswered ==
    /\ limiter = "redis"
    /\ Asks
    /\ RedisAllows \/ RedisRefuses \/ UNCHANGED <<counter, hits>>
    /\ UNCHANGED <<instant, limiter, life, allowed>>

(* Redis removes the key when its time is over.                             *)
Passes ==
    /\ instant < MaxInstant
    /\ instant' = instant + 1
    /\ counter' = IF counter.n > 0 /\ counter.expires <= instant' THEN NoKey ELSE counter
    /\ UNCHANGED <<limiter, hits, life, allowed, asks>>

(* A lobby restarts: its memory is empty, Redis stays.                      *)
ReplicaRestarts(r) ==
    /\ life[r] < MaxLives
    /\ life' = [life EXCEPT ![r] = @ + 1]
    /\ hits' = [hits EXCEPT ![r] = <<>>]
    /\ UNCHANGED <<instant, limiter, counter, allowed, asks>>

(* roomCreationLimiterOrDefault                                             *)
LimitInit ==
    /\ instant = 0
    /\ limiter \in {"memory", "redis"}
    /\ hits = [r \in Replicas |-> <<>>]
    /\ counter = NoKey
    /\ life = [r \in Replicas |-> 0]
    /\ allowed = <<>>
    /\ asks = 0

LimitNext ==
    \/ \E r \in Replicas : Allowed(r) \/ Refused(r) \/ ReplicaRestarts(r)
    \/ Unanswered
    \/ Passes

LimitSpec == LimitInit /\ [][LimitNext]_limitVars

-----------------------------------------------------------------------------
(* Properties.                                                              *)

LimitTypeOK ==
    /\ instant \in 0..MaxInstant
    /\ limiter \in {"memory", "redis"}
    /\ hits \in [Replicas -> Seq(0..MaxInstant)]
    /\ counter \in [n : Nat, expires : Nat]
    /\ life \in [Replicas -> 0..MaxLives]
    /\ allowed \in Seq([at : 0..MaxInstant, by : Replicas, life : 0..MaxLives])
    /\ asks \in 0..MaxAsks

(* The requests let through in the window that starts at t.                 *)
Within(t, of(_)) == Cardinality({i \in DOMAIN allowed : allowed[i].at \in t..(t + RoomWindow - 1) /\ of(allowed[i])})

(* However the requests are spread, no span of one window lets more through *)
(* than the limit, per lobby process and its lifetime, when each counts for *)
(* itself; and with the shared counter at most 2 * limit - 1 over all       *)
(* lobbies and their restarts, the burst at a boundary of the fixed window  *)
(* that redis_room_limiter.go speaks of.                                    *)
CreationsBounded ==
    \A t \in 0..instant :
       /\ limiter = "memory" =>
             \A r \in Replicas, l \in 0..MaxLives :
                Within(t, LAMBDA a : a.by = r /\ a.life = l) <= RoomLimit
       /\ limiter = "redis" => Within(t, LAMBDA a : TRUE) <= 2 * RoomLimit - 1
=============================================================================
