----------------------------- MODULE RedisPool -----------------------------
(***************************************************************************)
(* The pooled Redis client (runtime/storage/redis.go), which documents     *)
(* itself as safe for concurrent use: callers take a slot, then an idle    *)
(* connection or a new one, write a command, read the reply and give both  *)
(* back, while another goroutine may close the client.                     *)
(*                                                                         *)
(* Redis answers the commands of a connection in order, so a connection is *)
(* the sequence of the commands whose replies have not been read.  Setting *)
(* a deadline fails only on a socket this process has closed, and nobody   *)
(* closes the socket of a command under way, so that is left out.          *)
(***************************************************************************)
EXTENDS Integers, FiniteSets, Sequences

CONSTANTS
    Callers,        \* goroutines that use the client
    PoolSize,       \* RedisConfig.PoolSize
    MaxCommands,    \* bound on commands
    MaxDials        \* bound on connections dialled

ASSUME RedisPoolAssumptions ==
    /\ PoolSize \in Nat \ {0}
    /\ {MaxCommands, MaxDials} \subseteq Nat

Sockets == 1..MaxDials
NoSocket == 0

VARIABLES
    shut,       \* client.closed: "open", "closing" while Close drains, "closed"
    at,         \* where each caller is in Do
    slots,      \* client.slots: who holds one
    idle,       \* client.free, a channel of PoolSize connections
    socket,     \* the connection each caller holds
    wire,       \* per connection: commands written and not yet answered
    broken,     \* connections with conn.err set
    alive,      \* connections that are not closed
    dials,
    command,    \* the command each caller is busy with
    commands,
    answer      \* the command that the last reply a caller got belongs to, 0 for none

poolVars == <<shut, at, slots, idle, socket, wire, broken, alive, dials, command, commands, answer>>

InPool == {idle[i] : i \in DOMAIN idle}
GoTo(c, where) == at' = [at EXCEPT ![c] = where]

-----------------------------------------------------------------------------
(* acquire                                                                  *)

(* Do: the client is looked at once, before the wait for a slot.            *)
AskPool(c) ==
    /\ at[c] = "outside"
    /\ shut = "open"
    /\ commands < MaxCommands
    /\ commands' = commands + 1
    /\ command' = [command EXCEPT ![c] = commands']
    /\ answer' = [answer EXCEPT ![c] = 0]
    /\ GoTo(c, "waiting")
    /\ UNCHANGED <<shut, slots, idle, socket, wire, broken, alive, dials>>

TakeSlot(c) ==
    /\ at[c] = "waiting"
    /\ Cardinality(slots) < PoolSize
    /\ slots' = slots \cup {c}
    /\ GoTo(c, "slotted")
    /\ UNCHANGED <<shut, idle, socket, wire, broken, alive, dials, command, commands, answer>>

(* ErrRedisPoolExhausted                                                    *)
PoolExhausted(c) ==
    /\ at[c] = "waiting"
    /\ GoTo(c, "outside")
    /\ UNCHANGED <<shut, slots, idle, socket, wire, broken, alive, dials, command, commands, answer>>

TakeIdle(c) ==
    /\ at[c] = "slotted"
    /\ IF idle # <<>>
       THEN /\ socket' = [socket EXCEPT ![c] = Head(idle)]
            /\ idle' = Tail(idle)
            /\ GoTo(c, "ready")
       ELSE GoTo(c, "dialling") /\ UNCHANGED <<socket, idle>>
    /\ UNCHANGED <<shut, slots, wire, broken, alive, dials, command, commands, answer>>

(* dialRedisConn, with the answers to AUTH and SELECT read.                 *)
Dialled(c) ==
    /\ at[c] = "dialling"
    /\ dials < MaxDials
    /\ dials' = dials + 1
    /\ socket' = [socket EXCEPT ![c] = dials']
    /\ alive' = alive \cup {dials'}
    /\ GoTo(c, "ready")
    /\ UNCHANGED <<shut, slots, idle, wire, broken, command, commands, answer>>

(* The dial or its handshake fails: what was opened is closed again.        *)
DialFails(c) ==
    /\ at[c] = "dialling"
    /\ slots' = slots \ {c}
    /\ GoTo(c, "outside")
    /\ UNCHANGED <<shut, idle, socket, wire, broken, alive, dials, command, commands, answer>>

-----------------------------------------------------------------------------
(* redisConn.do                                                             *)

WriteCommand(c) ==
    /\ at[c] = "ready"
    /\ wire' = [wire EXCEPT ![socket[c]] = Append(@, command[c])]
    /\ GoTo(c, "reading")
    /\ UNCHANGED <<shut, slots, idle, socket, broken, alive, dials, command, commands, answer>>

(* Part of the command is written, or all of it.                            *)
WriteBreaks(c) ==
    /\ at[c] = "ready"
    /\ \E reached \in BOOLEAN :
          wire' = IF reached THEN [wire EXCEPT ![socket[c]] = Append(@, command[c])] ELSE wire
    /\ broken' = broken \cup {socket[c]}
    /\ GoTo(c, "done")
    /\ UNCHANGED <<shut, slots, idle, socket, alive, dials, command, commands, answer>>

(* readRedisReply; a reply that reports an error is a reply.                *)
ReadReply(c) ==
    /\ at[c] = "reading"
    /\ wire[socket[c]] # <<>>
    /\ answer' = [answer EXCEPT ![c] = Head(wire[socket[c]])]
    /\ wire' = [wire EXCEPT ![socket[c]] = Tail(@)]
    /\ GoTo(c, "done")
    /\ UNCHANGED <<shut, slots, idle, socket, broken, alive, dials, command, commands>>

(* The deadline passes, the reply makes no sense, or the peer has gone: the *)
(* rest of the reply, or all of it, is still to come.                       *)
ReadBreaks(c) ==
    /\ at[c] = "reading"
    /\ broken' = broken \cup {socket[c]}
    /\ GoTo(c, "done")
    /\ UNCHANGED <<shut, slots, idle, socket, wire, alive, dials, command, commands, answer>>

-----------------------------------------------------------------------------
(* release: the connection first, then the slot.                            *)

(* Mutant: a connection goes back whatever happened on it.                  *)
ReusableAlways(k) == Len(idle) < PoolSize
Reusable(k) == k \notin broken /\ Len(idle) < PoolSize

ReleaseConn(c) ==
    /\ at[c] = "done"
    /\ IF Reusable(socket[c])
       THEN idle' = Append(idle, socket[c]) /\ UNCHANGED alive
       ELSE alive' = alive \ {socket[c]} /\ UNCHANGED idle
    /\ socket' = [socket EXCEPT ![c] = NoSocket]
    /\ GoTo(c, "leaving")
    /\ UNCHANGED <<shut, slots, wire, broken, dials, command, commands, answer>>

ReleaseSlot(c) ==
    /\ at[c] = "leaving"
    /\ slots' = slots \ {c}
    /\ GoTo(c, "outside")
    /\ UNCHANGED <<shut, idle, socket, wire, broken, alive, dials, command, commands, answer>>

-----------------------------------------------------------------------------
(* Close: no further commands, then the idle connections are closed.        *)
CloseClient ==
    /\ shut = "open"
    /\ shut' = "closing"
    /\ UNCHANGED <<at, slots, idle, socket, wire, broken, alive, dials, command, commands, answer>>

DrainIdle ==
    /\ shut = "closing"
    /\ IF idle = <<>>
       THEN shut' = "closed" /\ UNCHANGED <<idle, alive>>
       ELSE alive' = alive \ {Head(idle)} /\ idle' = Tail(idle) /\ UNCHANGED shut
    /\ UNCHANGED <<at, slots, socket, wire, broken, dials, command, commands, answer>>

(* NewRedisClient: connections are dialled when they are needed.            *)
PoolInit ==
    /\ shut = "open"
    /\ at = [c \in Callers |-> "outside"]
    /\ slots = {}
    /\ idle = <<>>
    /\ socket = [c \in Callers |-> NoSocket]
    /\ wire = [k \in Sockets |-> <<>>]
    /\ broken = {}
    /\ alive = {}
    /\ dials = 0
    /\ command = [c \in Callers |-> 0]
    /\ commands = 0
    /\ answer = [c \in Callers |-> 0]

PoolNext ==
    \/ \E c \in Callers :
          \/ AskPool(c) \/ TakeSlot(c) \/ PoolExhausted(c) \/ TakeIdle(c) \/ Dialled(c) \/ DialFails(c)
          \/ WriteCommand(c) \/ WriteBreaks(c) \/ ReadReply(c) \/ ReadBreaks(c)
          \/ ReleaseConn(c) \/ ReleaseSlot(c)
    \/ CloseClient
    \/ DrainIdle

PoolSpec == PoolInit /\ [][PoolNext]_poolVars

-----------------------------------------------------------------------------
(* Properties.                                                              *)

PoolTypeOK ==
    /\ shut \in {"open", "closing", "closed"}
    /\ at \in [Callers -> {"outside", "waiting", "slotted", "dialling", "ready", "reading", "done", "leaving"}]
    /\ slots \subseteq Callers
    /\ Len(idle) <= PoolSize
    /\ InPool \subseteq alive
    /\ socket \in [Callers -> Sockets \cup {NoSocket}]
    /\ wire \in [Sockets -> Seq(1..MaxCommands)]
    /\ broken \cup alive \subseteq Sockets
    /\ answer \in [Callers -> 0..MaxCommands]

(* A caller gets the reply to its own command or an error, never the late   *)
(* reply to a command that somebody gave up on; a connection is in one      *)
(* hand; and with the dials under way there are never more connections than *)
(* PoolSize, although idle ones hold no slot and a connection is put back   *)
(* before its slot is (Do, acquire, release; "slots bounds how many         *)
(* connections may exist").                                                 *)
RepliesMatch ==
    /\ \A c \in Callers : answer[c] # 0 => answer[c] = command[c]
    /\ \A c, d \in Callers : c # d /\ socket[c] # NoSocket => socket[c] # socket[d]
    /\ \A c \in Callers : socket[c] \notin InPool
    /\ Cardinality(alive) + Cardinality({c \in Callers : at[c] = "dialling"}) <= PoolSize
=============================================================================
