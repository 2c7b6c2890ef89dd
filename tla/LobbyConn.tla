------------------------------ MODULE LobbyConn ------------------------------
(***************************************************************************)
(* One WebSocket connection of the lobby server (runtime/lobbyws/ws.go)    *)
(* with the goroutines that share it: the read loop, which also answers    *)
(* pings, and the write pump of a lobby connection; or the handler's loop, *)
(* the ping goroutine and the downlink of a battle relay.                  *)
(*                                                                         *)
(* writeMu keeps frames apart, but the write deadline is a property of the *)
(* socket: whoever set it last, it holds for every later write of any      *)
(* goroutine.  Deadlines and tickers count down in ticks.                  *)
(***************************************************************************)
EXTENDS Integers, Sequences, FiniteSets

CONSTANTS
    Roles,          \* which connections: a subset of {"lobby", "relay"}
    WriteWait,      \* Options.WriteWait
    PingPeriod,     \* Options.PingPeriod
    PongWait,       \* Options.PongWait
    SendCap,        \* cap(client.send)
    MaxParts,       \* maxMessageSize, in parts of a message
    MaxFrames,      \* bound on the data frames of the peer
    MaxUp,          \* bound on frames under way to the server
    MaxStalls       \* bound on writes the peer's full window cuts off

ASSUME ConnAssumptions ==
    /\ Roles \subseteq {"lobby", "relay"}
    /\ {WriteWait, PingPeriod, PongWait, SendCap, MaxParts} \subseteq Nat \ {0}
    /\ {MaxFrames, MaxUp, MaxStalls} \subseteq Nat
    /\ PingPeriod < PongWait        \* enforced by New

VARIABLES
    role,       \* "lobby" or "relay"
    peer,       \* the other end: [live, owes (a pong), parts (of its unfinished message), sent]
    up,         \* the frames under way to the server
    reader,     \* ReadMessage: [on, payload]
    message,    \* the last message the read loop was given
    writer,     \* the write pump, or the ping goroutine, runs
    downlink,   \* the goroutine from UDP to the peer runs
    queue,      \* client.send; of a relay, the datagrams that wait to be read
    left,       \* ticks left: [write, read, ping]; write may be Unset
    done,       \* client.closed; of a relay, done
    conn,       \* "open" or "closed"
    excuse      \* [given (the peer, a shutdown, a stall or a delay explains a hang-up), replaced, stalls]

connVars == <<role, peer, up, reader, message, writer, downlink, queue, left, done, conn, excuse>>

Unset == 0 - 1
Frame(op, fin, n) == [op |-> op, fin |-> fin, n |-> n]
Control(op) == Frame(op, TRUE, 0)
Open == conn = "open"

-----------------------------------------------------------------------------
(* Writing.                                                                 *)

(* writeFrame under a deadline with w ticks left.  A peer that does not     *)
(* read cuts a write off; one that has gone may reset the connection.       *)
Writes(w) ==
    IF ~Open \/ w = 0 THEN {"failed"}
    ELSE {"ok"} \cup (IF w # Unset /\ excuse.stalls < MaxStalls THEN {"cut"} ELSE {})
                \cup (IF peer.live THEN {} ELSE {"failed"})

(* A write is cut off when its deadline is over.                            *)
Remaining(o, w) == IF o = "cut" THEN 0 ELSE w
Stalled(o) == IF o = "cut" THEN [excuse EXCEPT !.given = TRUE, !.stalls = @ + 1] ELSE excuse

(* The peer has a ping to answer once it has read it.                       *)
Pinged(o) == [peer EXCEPT !.owes = @ \/ (o = "ok" /\ peer.live)]

(* writePump and the ping goroutine of HandleRelay: they renew the deadline *)
(* for their own write, and hang up when it fails.                          *)
PumpWrites(o, last) ==
    /\ writer
    /\ o \in Writes(WriteWait)
    /\ excuse' = Stalled(o)
    /\ left' = [left EXCEPT !.write = Remaining(o, WriteWait), !.ping = IF last = "ping" THEN PingPeriod ELSE @]
    /\ IF o = "ok" /\ last # "last"
       THEN UNCHANGED <<done, conn, writer>>
       ELSE done' = TRUE /\ conn' = "closed" /\ writer' = FALSE

PumpPings(o) ==
    /\ left.ping = 0
    /\ PumpWrites(o, "ping")
    /\ peer' = Pinged(o)
    /\ UNCHANGED <<role, up, reader, message, downlink, queue>>

(* A message of the send buffer; the terminal one ends the connection.      *)
PumpSends(o) ==
    /\ role = "lobby" /\ queue # <<>>
    /\ PumpWrites(o, Head(queue))
    /\ queue' = Tail(queue)
    /\ UNCHANGED <<role, peer, up, reader, message, downlink>>

(* <-c.closed, or <-done of a relay; select may take another branch first.  *)
PumpEnds ==
    /\ writer /\ done
    /\ writer' = FALSE
    /\ conn' = "closed"
    /\ UNCHANGED <<role, peer, up, reader, message, downlink, queue, left, done, excuse>>

(* enqueue: a slow consumer loses the message.                              *)
Enqueued(m) == IF Len(queue) < SendCap THEN Append(queue, m) ELSE queue

Broadcast ==
    /\ role = "lobby" /\ ~done
    /\ queue' = Enqueued("reply")
    /\ UNCHANGED <<role, peer, up, reader, message, writer, downlink, left, done, conn, excuse>>

(* replacedByNewSession, with forceClose when the buffer is full.           *)
(* Mutant: the terminal frame is enqueued like any other.                   *)
FitsAlways == TRUE
Fits == Len(queue) < SendCap
Replaced ==
    /\ role = "lobby" /\ ~done
    /\ excuse' = [excuse EXCEPT !.given = TRUE, !.replaced = TRUE]
    /\ IF Fits
       THEN queue' = Enqueued("last") /\ UNCHANGED <<done, conn>>
       ELSE done' = TRUE /\ conn' = "closed" /\ UNCHANGED queue
    /\ UNCHANGED <<role, peer, up, reader, message, writer, downlink, left>>

(* Server.Close: WriteClose, from the goroutine of the shutdown and under   *)
(* the deadline that happens to be set.                                     *)
Shutdown(o) ==
    /\ role = "lobby" /\ ~done /\ Open
    /\ o \in Writes(left.write)
    /\ left' = [left EXCEPT !.write = Remaining(o, @)]
    /\ excuse' = [Stalled(o) EXCEPT !.given = TRUE]
    /\ conn' = "closed"
    /\ UNCHANGED <<role, peer, up, reader, message, writer, downlink, queue, done>>

(* A datagram of the battle server.                                         *)
Datagram ==
    /\ role = "relay" /\ ~done
    /\ queue' = Enqueued("datagram")
    /\ UNCHANGED <<role, peer, up, reader, message, writer, downlink, left, done, conn, excuse>>

(* The downlink of HandleRelay writes under the deadline of the last ping.  *)
DownlinkWrites(o) ==
    /\ downlink /\ queue # <<>>
    /\ o \in Writes(left.write)
    /\ left' = [left EXCEPT !.write = Remaining(o, @)]
    /\ excuse' = Stalled(o)
    /\ queue' = Tail(queue)
    /\ IF o = "ok" THEN UNCHANGED <<done, conn, downlink>>
       ELSE done' = TRUE /\ conn' = "closed" /\ downlink' = FALSE
    /\ UNCHANGED <<role, peer, up, reader, message, writer>>

DownlinkEnds ==
    /\ downlink /\ done
    /\ downlink' = FALSE
    /\ UNCHANGED <<role, peer, up, reader, message, writer, queue, left, done, conn, excuse>>

-----------------------------------------------------------------------------
(* Reading.                                                                 *)

(* The read loop is over: c.close, or the deferred stop of a relay, which   *)
(* also closes the socket.                                                  *)
ReaderGone ==
    /\ reader' = [reader EXCEPT !.on = FALSE]
    /\ done' = TRUE
    /\ conn' = IF role = "relay" THEN "closed" ELSE conn

(* Read fails: the deadline is over, the socket is closed, the peer is gone.*)
ReadFails ==
    /\ reader.on
    /\ left.read = 0 \/ ~Open \/ (~peer.live /\ up = <<>>)
    /\ ReaderGone
    /\ UNCHANGED <<role, peer, up, message, writer, downlink, queue, left, excuse>>

(* What bufio holds can be read after the deadline and after Close.         *)
Reading(op) == reader.on /\ up # <<>> /\ Head(up).op = op

(* A pong, or a ping: the pong is written by this goroutine, under the      *)
(* deadline that happens to be set.                                         *)
ReadPong ==
    /\ Reading("pong")
    /\ up' = Tail(up)
    /\ left' = [left EXCEPT !.read = PongWait]
    /\ UNCHANGED <<role, peer, reader, message, writer, downlink, queue, done, conn, excuse>>

ReadPing(o) ==
    /\ Reading("ping")
    /\ up' = Tail(up)
    /\ o \in Writes(left.write)
    /\ left' = [left EXCEPT !.read = PongWait, !.write = Remaining(o, @)]
    /\ excuse' = Stalled(o)
    /\ IF o = "ok" THEN UNCHANGED <<reader, done, conn>> ELSE ReaderGone
    /\ UNCHANGED <<role, peer, message, writer, downlink, queue>>

(* A close frame: the lobby answers it (WriteClose), a relay returns.       *)
ReadClose ==
    /\ Reading("close")
    /\ up' = Tail(up)
    /\ reader' = [reader EXCEPT !.on = FALSE]
    /\ done' = TRUE /\ conn' = "closed"
    /\ UNCHANGED <<role, peer, message, writer, downlink, queue, left, excuse>>

(* A data frame.  ErrProtocol: a header that does not parse, a message      *)
(* inside a message, a continuation of nothing, or one that is too long.    *)
ProtocolError(f) ==
    \/ f.op = "continuation" /\ reader.payload = <<>>
    \/ f.op = "text" /\ reader.payload # <<>>
    \/ Len(reader.payload) = MaxParts

ReadMalformed ==
    /\ \/ Reading("malformed")
       \/ (Reading("text") \/ Reading("continuation")) /\ ProtocolError(Head(up))
    /\ up' = Tail(up)
    /\ ReaderGone
    /\ UNCHANGED <<role, peer, message, writer, downlink, queue, left, excuse>>

(* ReadMessage goes on, or returns with the last part: the read deadline is *)
(* renewed by a whole message only.  The lobby's handler answers into the   *)
(* buffer; a relay passes a message on, or answers a text itself and        *)
(* ignores the outcome.                                                     *)
ReadPart ==
    /\ Reading("text") \/ Reading("continuation")
    /\ ~ProtocolError(Head(up)) /\ ~Head(up).fin
    /\ up' = Tail(up)
    /\ reader' = [reader EXCEPT !.payload = Append(@, Head(up))]
    /\ UNCHANGED <<role, peer, message, writer, downlink, queue, left, done, conn, excuse>>

ReadMessage(o) ==
    /\ Reading("text") \/ Reading("continuation")
    /\ ~ProtocolError(Head(up)) /\ Head(up).fin
    /\ up' = Tail(up)
    /\ message' = Append(reader.payload, Head(up))
    /\ reader' = [reader EXCEPT !.payload = <<>>]
    /\ IF role = "lobby"
       THEN /\ o = "ok"
            /\ left' = [left EXCEPT !.read = PongWait]
            /\ queue' = Enqueued("reply")
            /\ UNCHANGED excuse
       ELSE /\ o \in Writes(left.write) \cup {"ok"}
            /\ left' = [left EXCEPT !.read = PongWait, !.write = Remaining(o, @)]
            /\ excuse' = Stalled(o)
            /\ UNCHANGED queue
    /\ UNCHANGED <<role, peer, writer, downlink, done, conn>>

-----------------------------------------------------------------------------
(* The peer, and time.                                                      *)

Send(f) == peer.live /\ Open /\ Len(up) < MaxUp /\ up' = Append(up, f)

PeerPongs ==
    /\ peer.owes /\ Send(Control("pong"))
    /\ peer' = [peer EXCEPT !.owes = FALSE]
    /\ UNCHANGED <<role, reader, message, writer, downlink, queue, left, done, conn, excuse>>

PeerPings ==
    /\ Send(Control("ping"))
    /\ UNCHANGED <<role, peer, reader, message, writer, downlink, queue, left, done, conn, excuse>>

(* A frame of a message; the peer may get the protocol wrong.               *)
PeerSends(op, fin) ==
    LET n == peer.sent + 1
        wrong == peer.parts = MaxParts \/ (op = "text") # (peer.parts = 0)
    IN  /\ n <= MaxFrames
        /\ Send(Frame(op, fin, n))
        /\ peer' = [peer EXCEPT !.sent = n, !.parts = IF fin \/ wrong THEN 0 ELSE @ + 1]
        /\ excuse' = [excuse EXCEPT !.given = @ \/ wrong]
        /\ UNCHANGED <<role, reader, message, writer, downlink, queue, left, done, conn>>

PeerHangsUp(op) ==
    /\ Send(Control(op))
    /\ excuse' = [excuse EXCEPT !.given = TRUE]
    /\ UNCHANGED <<role, peer, reader, message, writer, downlink, queue, left, done, conn>>

PeerVanishes ==
    /\ peer.live
    /\ peer' = [peer EXCEPT !.live = FALSE, !.owes = FALSE]
    /\ excuse' = [excuse EXCEPT !.given = TRUE]
    /\ UNCHANGED <<role, up, reader, message, writer, downlink, queue, left, done, conn>>

(* A tick is a delay when a goroutine, the network or the peer had work.    *)
Pending == peer.owes \/ up # <<>> \/ queue # <<>> \/ left.ping = 0
Less(n) == IF n > 0 THEN n - 1 ELSE n
Tick ==
    /\ Open
    /\ left' = [w \in DOMAIN left |-> Less(left[w])]
    /\ excuse' = [excuse EXCEPT !.given = @ \/ Pending]
    /\ UNCHANGED <<role, peer, up, reader, message, writer, downlink, queue, done, conn>>

Outcomes == {"ok", "cut", "failed"}

ConnInit ==
    /\ role \in Roles
    /\ peer = [live |-> TRUE, owes |-> FALSE, parts |-> 0, sent |-> 0]
    /\ up = <<>>
    /\ reader = [on |-> TRUE, payload |-> <<>>]
    /\ message = <<>>
    /\ writer = TRUE
    /\ downlink = (role = "relay")
    /\ queue = <<>>
    /\ left = [write |-> Unset, read |-> PongWait, ping |-> PingPeriod]
    /\ done = FALSE
    /\ conn = "open"
    /\ excuse = [given |-> FALSE, replaced |-> FALSE, stalls |-> 0]

ServerSteps ==
    \/ \E o \in Outcomes : PumpPings(o) \/ PumpSends(o) \/ Shutdown(o) \/ DownlinkWrites(o) \/ ReadPing(o) \/ ReadMessage(o)
    \/ PumpEnds \/ Broadcast \/ Replaced \/ Datagram \/ DownlinkEnds
    \/ ReadFails \/ ReadPong \/ ReadClose \/ ReadMalformed \/ ReadPart
PeerSteps ==
    \/ PeerPongs \/ PeerPings \/ PeerVanishes
    \/ \E op \in {"text", "continuation"}, fin \in BOOLEAN : PeerSends(op, fin)
    \/ \E op \in {"close", "malformed"} : PeerHangsUp(op)
ConnNext == ServerSteps \/ PeerSteps \/ Tick

ConnSpec == ConnInit /\ [][ConnNext]_connVars

-----------------------------------------------------------------------------
(* Properties.                                                              *)

Frames == [op : {"text", "continuation", "ping", "pong", "close", "malformed"}, fin : BOOLEAN, n : 0..MaxFrames]

ConnTypeOK ==
    /\ role \in Roles
    /\ peer \in [live : BOOLEAN, owes : BOOLEAN, parts : 0..MaxParts, sent : 0..MaxFrames]
    /\ up \in Seq(Frames) /\ Len(up) <= MaxUp
    /\ reader.on \in BOOLEAN /\ reader.payload \in Seq(Frames)
    /\ message \in Seq(Frames)
    /\ {writer, downlink, done} \subseteq BOOLEAN
    /\ queue \in Seq({"reply", "last", "datagram"}) /\ Len(queue) <= SendCap
    /\ left \in [write : Unset..WriteWait, read : 0..PongWait, ping : 0..PingPeriod]
    /\ conn \in {"open", "closed"}
    /\ excuse \in [given : BOOLEAN, replaced : BOOLEAN, stalls : 0..MaxStalls]

(* What ReadMessage returns is one message of the peer, whole: consecutive  *)
(* frames from the one that begins it to the first that ends it, within the *)
(* size limit, whatever control frames came between them and however the    *)
(* peer mixed up its frames.                                                *)
MessagesWhole ==
    \A i \in DOMAIN message :
       /\ message[i].n = message[1].n + i - 1
       /\ message[i].op = IF i = 1 THEN "text" ELSE "continuation"
       /\ message[i].fin <=> i = Len(message)
       /\ i <= MaxParts

(* A superseded connection does not survive (the comment of                 *)
(* replacedByNewSession: "a superseded socket must never survive as a       *)
(* zombie"): until it is closed, the terminal frame is in the buffer of a   *)
(* pump that runs, however full the buffer was and whatever else ended.     *)
NoZombie ==
    excuse.replaced /\ Open => writer /\ (done \/ \E i \in DOMAIN queue : queue[i] = "last")

(* A peer that reads, answers pings in time and keeps to the protocol stays *)
(* connected.  The keepalive test says so of the lobby, and HandleRelay     *)
(* that it mirrors the lobby's keepalive.                                   *)
AnsweringClientKept ==
    Open \/ excuse.given
==============================================================================
