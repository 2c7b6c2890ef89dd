# Gensoulkyo: TLA+ models, checks and proofs

Gensoulkyo is the authoritative lobby of a two-to-four player bullet-hell game:
a Go service that signs players in, brings them together in queues and rooms,
creates matches, hands each match to a battle server, and turns the result into
settlements and rewards. These modules model the part of it where an order of
events nobody tested can lose a reward, pay one twice, or lock a player out.

Contents: [inventory](#1-inventory), [modules](#2-modules-and-the-code),
[runs](#3-runs), [findings](#4-findings), [proofs](#5-proofs),
[limits](#6-what-is-not-covered), [plan](#7-plan), [how to run](#8-running).

## 1. Inventory

All state of the lobby is one `Service` (`runtime/core/service.go`): maps in
memory under one mutex, and stores behind interfaces (`match_store.go`,
`ticket_store.go`, `room_store.go`, `queue_ticket_store.go`) with a SQL and a
memory implementation. A handler holds the mutex from start to end, so handlers
of one process do not interleave. What does: players, the battle agent, battle
servers and time between handlers; the statements of one handler with a failure
or a crash; and the statements of several lobby processes on one database.

| part | state | operations | what is hard |
|---|---|---|---|
| Match lifecycle (`service.go`, `battle_result_callback.go`, `battle_events.go`, `lobby_bridge.go`) | match status, `EndedAt`, ready and dropped players, result hash, settlements, rematches, allocation; the row in `lobby_matches` | create, ready, disconnect, reconnect, abandon, settle, rematch, result submission by two routes, events, endpoint reports, the agent's poll with its TTL, sweep | five ways to end a match race; a write fails in the middle of a settle; memory is lost and the row is not |
| Battle tickets (`service.go`, `ticket_store.go`, migration 006) | ticket rows, endpoint of the allocation | issue, hand out again, consume, revoke, expire | several lobbies on one table; retry after a lost answer; expiry boundary |
| Queue and rooms (`service.go`, `room_options.go`, `room_store.go`, `queue_ticket_store.go`, migration 008) | queue, ticket cache and negative cache, ticket, room and seat rows | queue, open, join, leave, cancel, change options, heartbeat, sweep | three tables and a cache written one after the other without a transaction |
| Battle server registry (`service.go`) | servers, heartbeats, load, allocations | register, heartbeat, offline, choose a server, restart | stale heartbeats, capacity counted twice, forgotten by a restart |
| Battle agent (`cmd/battle-agent`) | tracked processes, ports, attempts, unreported endpoints | heartbeat, poll, reconcile, spawn, report, wait, submit, stop | acts on an old poll; loop and goroutines clear the same tables; retries; port re-use |
| Per-match spawner (`runtime/battlespawn`, `startMatch`) | process table, timers | spawn, ready, kill, kill all | a process between start and table, and one that ignores SIGTERM |
| Lobby WebSocket server (`runtime/lobbyws`) | connections, session index, rooms; deadlines of a socket; sockets of a relay | connect, authenticate, replace, broadcast, relay, ping, close | two mutexes and two goroutines per connection, four per relay |
| Sessions (`service.go`, `account_bridge.go`) | token of a user, user of a token | sign in by four routes, sign out, revoke | the hook runs outside the mutex |
| Accounts (`runtime/account`) | pending codes, send history, accounts | ask for a code, register | mail is sent outside the mutex; limits and expiry |
| Callback guard (`battle_callback_freshness.go`) | bounded nonce memory | verify | whole seconds against instants; eviction at the cap; a check before the lock |
| Envelope guard (`runtime/security`, `httpapi`, `nakamaapi`) | sequence number and bounded nonces of a session | validate, per route | eviction; routes that check twice or not at all |
| Replay store (`dem_store.go`) | staged chunks, rows | chunk, assemble, store | mixed, repeated and late chunks; restart |
| Economy (`gacha.go`, `shop.go`, `service.go`) | wallet, chests, levels, pity, receipts, decks, check-in round, claims | pull, exchange, open, upgrade, buy, save, settle, claim | idempotency, limits, counters, day boundaries |
| World boss (`service.go`) | shared HP, attempts per day | enter, fight, settle by several paths, rematch | several matches on one boss, settled in any order and twice |
| Play (`battle_draft.go`, `service.go`, `simulation.go`) | hands, energy, draft rounds, mode actions, event log | input, report, pick, time out, act, read | two players and a deadline; capped collections |
| Room limiter and Redis client (`room_creation_limiter.go`, `runtime/storage`) | counters; slots and pooled connections | allow; do, close | window boundaries; a reply that arrives after its caller gave up |
| Audits, notifier, records, idempotency store, entry points | little or none that decides | | |

How they interact: a full queue or room calls `createMatchLocked`, which makes
the match and its allocation; the agent polls `BattleAgentAssignments`, spawns a
battle server and reports its endpoint; a port that moved revokes the signed
battle tickets; a battle server consumes a ticket per player and finally sends
the result, which settles the match; settled players ask for a rematch, which
makes the next match. `PROJECT.json` lists each part with its status and
lists the hazards at the lines where they bite.

What makes each modelled part correct:

- *match*: a player is paid at most once per match, and only when the end is
  durable; a durable end stays; a settlement shown stays; a dead match does not
  stay live; a finished one is not spawned again; one rematch per match.
- *tickets*: one fresh consumption per ticket over all lobbies; one usable
  ticket per seat; no usable ticket for an endpoint that is gone.
- *lobby*: rooms, tickets, seat rows and matches tell the same story; a player
  stands in one place; a full room plays; a ticket's end is final.
- *fleet*: a retried endpoint report is about the process the agent tracks; no
  port of the range is lost; a match has one process.
- *spawner and relay*: every process can be reached and ends; a relay follows
  its match's endpoint or stops.
- *sessions and connections*: a user has at most one session, a token one holder
  and one connection; a superseded connection goes; a live client stays; a message
  arrives whole.
- *accounts*: the code issued last works once its mail has arrived.
- *guards*: a signed callback and an envelope take effect at most once.
- *replays*: what is stored is complete, and one recording where a digest came with
  it.
- *economy*: no negative balance (but see the observation on the older shop); pity
  is kept; nothing is granted twice.
- *world boss*: the HP lost is the damage the matches were told of, and one match
  made the kill.
- *play*: no card is lost or doubled, the earlier kill picks first if it is known
  before the other has picked, a closed draft has granted each pick once;
  evictions take the oldest; a reader of events is told of gaps.
- *limits and pool*: a window lets no more through than stated; a caller reads its
  own reply.

## 2. Modules and the code

| module | models | run by |
|---|---|---|
| `MatchLifecycle` | the life of matches in one lobby process, and their rows | `MCMatchLifecycle`, `MCProgress` |
| `MatchLifecycle_proofs` | its inductive invariant and theorems | tlapm |
| `TicketLedger` | abstract: what a ticket promises | as a property |
| `BattleTickets` | the tickets of one match, several lobbies on one table | `MCBattleTickets` |
| `BattleTickets_proofs` | its invariant, theorems and refinement | tlapm |
| `Lobby` | queue, rooms, queue tickets, in one lobby process | `MCLobby` |
| `Lobby_proofs` | its invariant in three layers and theorems | tlapm |
| `BattleFleet` | registry, allocator and battle agent with its processes | `MCBattleFleet` |
| `BattleFleet_proofs` | its invariant and theorems | tlapm |
| `Spawner` | the processes a lobby starts itself | `MCProgress` |
| `Relay` | one UDP relay and its goroutines | `MCProgress` |
| `Progress_proofs` | safety of both, apart and together | tlapm |
| `LobbyConn` | one WebSocket connection, of the lobby or of a relay | `MCServices`, `RelayKept` |
| `Sessions` | tokens, connections, revocation | `MCServices` |
| `AccountCodes` | verification codes and registration of one address | `MCServices` |
| `CallbackGuard`, `EnvelopeGuard` | replay protection of callbacks and requests | `MCServices` |
| `DemUploads` | chunked uploads of one match's recordings | `MCServices` |
| `Economy`, `WorldBoss` | what a profile owns; the shared boss | `MCServices` |
| `BattlePlay`, `ModeActions` | hands and draft; mode actions and events | `MCServices` |
| `RoomLimits`, `RedisPool` | the room limiters; the Redis client under one of them | `MCServices` |
| `Gateway_proofs` | envelopes, codes, callbacks, sessions: invariants and theorems | tlapm |
| `Edge_proofs` | Redis pool, room limits, connections: the same | tlapm |
| `Services_proofs` | economy, world boss, play, modes, uploads, and all services together | tlapm |

Each variable names its Go counterpart where it is declared, actions have the
name of their Go method where there is one, and `PROJECT.json` maps every
definition to lines. Definitions introduced by "Mutant:" (`...Never`, `...Late`,
`...EndedToo`, ...) are the definition right after them with a plausible bug,
each of which breaks the property it is listed with; the specifications do not
use them.

**MatchLifecycle.** One action per handler. Time is kept as ages that saturate
where the code stops comparing (`AllocTTL` for `battleAllocationTTL`, `MatchTTL`
for `expires_at`, `ReconnectWindow`). A store write is ok, lost, or applied with
an error reported (`WriteOutcomes`); every handler's error path is what the code
does next. `SettleLocked` and `SettleFleeLocked` are the two settle routines;
scores are free (`ScoreOutcomes`), since the simulation decides them. A roster is
the same for every match. `paid`, `endedBy`, `parent`, `minted` and `reply` are
history: they record what happened and no guard of a handler reads them, except
that a new id is one not minted before.

**BattleTickets.** A handler is split where a statement of another lobby can come
between its own: decide and insert, load and guarded update, list and revoke one
by one. The statements carry the guards of the SQL text and of the partial unique
index. The match lives in one lobby (`host`), which endpoint reports and new
tickets reach; consumption may reach any lobby. `Restart` may hit between any two
statements.

**TicketLedger.** The abstract specification: issued once, then granted or
retired once and for good, at most one caller told "fresh". `BattleTickets`
implements it under `stage = StageOf(status)`.

**Lobby.** A handler is one action, but with a failure point: `f.at = k` makes
its k-th write fail (lost or unknown) or makes the process die in front of it
(crash, which keeps the earlier writes and empties the memory). `Look` is
`queueTicketLocked` with its cache, negative cache and table. The size of a room
stands for all its options. The error path's deletes are assumed to succeed.

**BattleFleet.** The lobby's handlers (register, heartbeat, offline, allocate,
the end of a match, restart) and the agent. The agent's loop is a poll, a
reconcile that takes what the poll said, and one step per match it looks at;
each process has a goroutine that waits for the exit, submits the result and
clears the tables. Between those steps nothing is locked, so they interleave.
Ports are a small range, a report may be lost, the agent may crash, leaving
orphans that hold their ports, and start again. Another agent's server and the
placeholder compete for the allocations.

**Spawner.** `startMatch`, `Spawn` (start, READY, timeout, track), `Kill` with
SIGTERM, grace and SIGKILL, the TTL timer, the result handler and shutdown, each
at the grain of `Spawner.mu`. Processes may say nothing, be `Stubborn`, or end
when they like.

**Relay.** `HandleRelay`'s reader, poller, writer and handler around `connMu`;
the agent reports endpoints meanwhile. `redial` is three steps for each of its
callers: the rate limit of 250 ms, read and written outside of `connMu`
(`RedialChecks`, `RedialStamps`), then under `connMu` the allocation, which may be
gone, and the dial, which may fail (`RedialDials`). `recent` stands for the limit
and `LimitOver` for its end; `MaxDialFails` bounds the failing dials. A relay of a
lobby that restarted finds no allocation until the agent reports again, and loses
it again by the TTL (`created`, `AllocationGoes`). The module says where the
datagrams go; how the
WebSocket side lives and dies is `LobbyConn`, and here a write to the client may
fail at any time.

**LobbyConn.** One socket with its goroutines: read loop and write pump, or a
relay's handler, ping goroutine and downlink. Deadlines and tickers count down;
`left.write` belongs to the socket, as `SetWriteDeadline` does, and each writer
is modelled with the deadline it finds or sets. A write succeeds, is cut off by
a peer that does not read, or fails. The peer fragments messages, puts control
frames between the parts, breaks the protocol, hangs up or vanishes. `excuse` is
history: it says whether the server had a reason to hang up.

**Sessions.** The four ways to sign in, sign out, the revocation hook between
`Service.mu` and `sessionsMu`, and per connection the critical sections of
`handleAuth`, `registerSession`, `replacedByNewSession`, `unregister` and
`setRoom`. `handleAuth` is up to four of them: `Bootstrap` of the token presented,
`LoginExternal` of the user id that came with it, `Bootstrap` again, and the
registration. `loginExternal` takes whatever token it is given, so any user may
sign in with a token that another one carries, or carried; only a token the
service mints itself is one that nobody used before. `signers` is history: who has
signed in with a token.

**AccountCodes.** `SendVerificationCode` is three steps, because the mail is sent
between two critical sections; `Register` is two, because the password is hashed
between `consumeCode` and `CreateAccount`.

**CallbackGuard.** The timestamp is checked in whole seconds before the lock, the
nonce under the lock against full instants; a callback is delivered as often as
the network likes. The signer's clock is off by up to `MaxLead` seconds, a whole
window included, and a call may wait `MaxWait` for the lock. `ahead` is history:
the nonces accepted with a timestamp so far ahead of the lobby's clock that the
retention of two windows does not outlast it (`Covered`).

**EnvelopeGuard.** The guard's sequence number and bounded nonces, and five
classes of routes: guarded in front, guarded by the handler, guarded by the Nakama
entries, refused to players, open. Behind its guard a request may still be refused
(`Accept` without `Apply`): its number is used up then. `denied` is history: the
requests a second guard refused for the number the first one had taken.

**DemUploads.** The bytes of a chunk are the recording they belong to, a digest is
the recording it names; so mixing, truncating and mislabelling can be told apart.
An upload may leave its size or its digest out, and is then not checked for it.

**Economy.** One profile and every request on it that spends or grants. Draws are
free choices among what the tables allow. The count of the older shop is what the
client sends, and its arithmetic is that of an `int` (`Wrap`, with `IntLimit` for
2^63); the other amounts are bounded by the code and are plain numbers.
`delivered`, `paid` and `wrapped` are history.

**WorldBoss.** Parties from the queue or as a rematch; a fight is settled by
score, abandoned, ended by a callback, stuck after a failed write, or settled a
second time by the TTL, as `MatchLifecycle` shows it can be.

**BattlePlay, ModeActions.** One match each. `BattlePlay` has the hands, energy,
cooldowns and draft rounds with reports in any order (`late` is history: the
players whose report of the round's boss came after its first pick); `ModeActions`
the round selections, transfers, gifts, retained actions and the event log a
client pages through, to which getting ready, disconnecting, reconnecting, inputs
and the end of the match append as well. Ticks advance by inputs, as in
`SubmitInput`.

**RoomLimits, RedisPool.** The sliding window of a process and the fixed window in
Redis for two lobbies, of which one restarts; and the client as its callers,
slots, idle connections and the commands whose replies have not been read.

**MCServices, MCProgress.** Parts that share no state are checked in one run: the
initial state picks the part that moves (`moving`), the others stand still. The
number of states is the sum of the parts, not their product.

## 3. Runs

| run | bounds | states | shows |
|---|---|---|---|
| MatchSafety | 3 matches, 2 players, 2 hashes, TTLs 2 and 1, 1 fault, 1 restart | 65 thousand | the safety properties of a match |
| TicketSafety | 2 lobbies, 2 players, 2 endpoints, 2 tickets, 1 fault, 1 restart | 185 thousand | the safety properties of tickets and the ledger |
| LobbySafety | 3 players, sizes 2 and 3, 3 tickets, 1 room, 2 matches, one thing going wrong | 620 thousand | agreement of queue, rooms, tickets, seats |
| FleetSafety | 2 matches, 2 ports, 2 processes, 2 spawns per match, 2 servers and the placeholder, one thing going wrong | 1.8 million | reports and ports of the agent |
| ProgressLiveness | 1 match with a fault and a restart; 2 processes (1 stubborn) for 2 matches; a relay with 2 reports and 1 failing dial | 169 thousand | what must happen in the end |
| ServicesSafety | see below | 1.6 million | one property (or two) for each service |
| MatchFleePaid, MatchDuplicate, TicketExpiredReplaced, LobbyFoundSeated, FleetOneProcess, RelayKept | as small as the case allows | | the findings of section 4 |

*Why the bounds are enough to be interesting.* Two hashes let a second result
contradict the first; three matches let two rematches of one match exist, which
is what `OneRematch` forbids (`RematchesIdle` leaves those rematches unplayed:
they are matches like the first). Two lobbies and two tickets give every race of
load against update, issue against issue, and revoke against consume, and a
replacement ticket. Three tickets in the lobby let a player leave and come back
while another waits, and three players let a host leave a room that two remain
in. Two ports and two processes let the agent run out of both, and a match's next
process start before the last one is cleaned up. One fault or restart reaches
every error path from every state; a restart may be followed by a failing lookup
(`OneTrouble`), which needs it.

In `ServicesSafety`: pools with pity at 2 and 3 and a ten-pull of 2, three
rarities, a check-in round of 2 days over 3 days, an `int` of -8..7 against counts
of up to 7 in the older shop, and any 4 requests of a profile; two parties of two
against a boss of 3 HP, two attempts a day; two players, two tokens, two sign-ins,
two connections of which one at a time is in a room; three codes with two attempts
each; two callbacks delivered in two calls at once with a nonce memory of one, a
window of two seconds, clocks that differ by up to as much, and time for two
windows to pass; two envelopes with a nonce memory of one; six recordings (whole,
competing, without a digest, mislabelled, too long, headless) and two restarts;
hands of one card and two draft rounds; caps of two for selections, actions,
events and pages against three actions and six events; two lobbies and 4 requests
in a window of 2; one pooled connection for two goroutines; messages of two parts,
a send buffer of one. Each cap is below what the run can produce, so
eviction, refusal and overflow happen.

Players, session tokens, lobbies, endpoints, hashes, matches and processes are
interchangeable where `SYMMETRY` is given; the liveness run uses none. Deadlock
is not checked where the system may stop: a lobby whose ticket ids are used up,
an agent that has used its spawns, a service whose bounded number of requests is
over, a relay that has ended.

*Properties under failure.* Some properties are stated for behaviours without a
failing write (`EndedIsSettled`, `OneRematch`, `NoStaleEndpoint`) or without
failing writes and crashes (most of `Lobby`). That is the code, not the model:
the handlers write several rows without a transaction, and the hazards in
`PROJECT.json` say for each what is left behind. What holds under any failure is
stated without such a premise: `PaidAtMostOnce`, `PaidOnlyOnceDurable`,
`PaidNeverAssigned`, `DurableEndIsFinal`, `SettlementStable`, `FreshAtMostOnce`,
`OneConsumableTicketPerSeat`, the ledger, the capacity half of
`WaitingRoomUsable`, `PendingIsCurrent`, `NoLostPort`, `NothingLeaks`;
`NoGhostSeat` holds under crashes. `AcceptedOnce`
leaves out nonces evicted because the memory was full and those accepted with a
timestamp that the retention does not cover, where it would be false; `AcceptedOnce`
and `EnvelopeOnce` speak of one process: their memory is not persisted.

*Fairness.* `ProgressSpec` assumes weak fairness of what runs by itself. For
matches: time (`Tick`) and the agent's poll, which is on a ticker
(`cmd/battle-agent`); nothing of players, battle servers or sweeps (nothing in
the repository calls `SweepAll`). That is the one path by which the code promises
to end a match whose server died. For processes: the goroutine of `startMatch`,
the timers of `Spawn` and the steps of `Kill`; nothing of the processes, which
need not say READY, obey SIGTERM or end. For the relay: its goroutines, its
ticker and the end of the 250 ms; a read returns only when its socket was closed;
nothing of the client, the agent or datagrams, and no dial need succeed before
`MaxDialFails` of them have failed.

## 4. Findings

Each is a run that TLC refutes, with the sentence of the repository that it
contradicts quoted in `PROJECT.json`.

1. **MatchFleePaid.** An abandoned match is ended without `EndedAt`;
   `expireStaleAllocationsLocked` looks only at `EndedAt`, so after the allocation
   TTL it settles the match again, with rewards, although a fled match pays
   nobody. From the same cause the agent keeps being assigned the fled match, and
   a late endpoint report rewrites the row without its end time.
2. **MatchDuplicate.** A settle whose durable write fails leaves the match ended
   with its hash and no settlement; the retried result is answered as a duplicate
   of a settlement that does not exist.
3. **TicketExpiredReplaced.** On the SQL store an expired ticket blocks its
   successor, because the unique index still counts the row as issued and nothing
   on the path moves it.
4. **LobbyFoundSeated.** After a restart a room can fill before its earlier
   players have logged in again; the match leaves them out and their tickets say
   they are in it.
5. **FleetOneProcess.** The goroutine of a finished process clears the match's
   entry late, after the loop has started the next process; the agent forgets that
   one and starts a third beside it.
6. **RelayKept.** A relay sets the write deadline only when it pings, and the
   deadline stays on the socket. With the defaults (10 s against a ping every
   25 s) the next datagram in the gap fails and the relay of a client that answers
   every ping is closed. With deadlines renewed by every writer the property
   holds.

### Observations

Seen in the code while modelling, without a run of their own.

*Matches and tickets.* The comment of `battleAllocationTTL` speaks of a
no-contest, while the code settles by score with rewards. A revocation that fails
half way is not resumed by the agent's retry, because the endpoint is already the
new one in memory (`lobby_bridge.go:133`; the comments at 82 and 174 promise
both): this is why `NoStaleEndpoint` is stated for behaviours without a failing
write. A world-boss match settled by a callback never counts its damage.

*Lobby.* Failing writes leave ghost seats (`service.go:1686`); a second
`LeaveRoom` after a failed one answers 'cancelled' (`4018`); a failed read is
remembered as absent (`service_stores.go:211`); a swept room leaves its tickets
queued (`372`); a repeated disconnect moves the reconnect window (`2394`); a
departure cut short by a crash leaves a cancelled seat that keeps a room open
after its host has gone; `ListLiveByUser`, which the store's comment says the
join path asks, has no caller. `SaveRoom` writes the whole row, so two lobby
processes would lose each other's updates.

*Stores.* The memory stores, which the tests use, differ from the SQL ones: no
unique indexes; `Reject` and `Revoke` of a missing ticket are errors only in
memory; the limit 0 means 100 in SQL and no limit in memory; an empty status
filter matches everything in memory and nothing in SQL; a second `Complete` keeps
the first answer in SQL and the last in memory.

*Agent and spawner.* Two tracked processes can share a port or exceed the
capacity; a heartbeat overwrites the load the allocator counted; the search for
orphans compares an absolute path with a relative one; a graceful stop cuts off
results being submitted. A `Spawn` in flight during `KillAll` survives the
shutdown until its TTL; the result handler kills the process that waits for its
answer; a result before `track` finds nothing to kill; a process that exits
before READY still costs the whole timeout.

*Connections.* A redial after `stop` closed the socket leaves a socket nobody
closes; relays are not closed by `Server.Close`; a frame cut off by its deadline
can be followed by another goroutine's frame before the socket is closed; frames
that are not masked are accepted, as are reserved opcodes, although the package
comment says client frames must be masked. `LogoutAccount` tells no connection;
authenticating again on the same socket with a new token evicts that socket;
`registerSession` and `setRoom` after `close` leave entries behind. A token
presented with another user's id changes hands without a word
(`service.go:912-981`): the former holder's record still carries it, no hook runs,
and his next sign-in removes the session of the new holder and hangs up on its
connection. `lastRedialAttempt` is read and written by three goroutines outside of
`connMu` (`server.go:901-904`). The Nakama
HTTP and WSS identities of one user supersede each other, and the external
session is created before the envelope is validated.

*Accounts and guards.* A failed resend also drops an older code that was
delivered; a username that is taken uses up the code. The callback guard's comment
that expired entries are a prefix is not exact. Nor is the one on its retention
(`battle_callback_freshness.go:30-33`, a timestamp of now+300 s is covered until
now+600 s): at now+600 s the nonce is dropped (line 144), while a difference of
300 s is still fresh (line 179), so that for a second the callback is accepted
again. A nonce is used up before the
business step, which may fail; the rate limit comes after verification. An
envelope's number is used up although its handler then fails; a request without
an envelope passes on a checked route that does not require one; check-in and the
older shop look at no envelope.

*Economy.* `GachaPull` reports faith for duplicate shots that the wallet does not
get. Granted cards always become dust. The older shop has no upper bound on the
count and does not check `amount * count` for overflow (`service.go:9262-9278`): a
count whose cost is past the range of an `int` can be credited instead of charged,
and the balance of gold can go below zero. `EcoTypeOK` says that this is the only
way. That shop has no nonce either, and its dust bundle goes to an inventory and
not to the wallet. A claimed leaderboard row is overwritten by a better
settlement; only `s.activityClaims` stops a second payment. Saving the active deck
as inactive leaves `ActiveDeckID` at a deck that is not flagged. A world-boss
rematch skips the entry check.

*Play.* "The player who defeated the boss first takes one of the three"
(`battle_draft.go:13-15`) is not so when his report comes after the other's pick:
the order of the pickers is corrected, but the other keeps the free choice, and may
even change it, while the true first cannot pick and gets an automatic card at the
deadline; a repeated report of an older
boss opens a new round, although the comment says idempotent per round; the
deadline counts ticks that only `SubmitInput` advances, so it never comes in a
match played on a battle server. Selections for a future round may be evicted
before their round.

*Replays, limits, Redis.* A staged upload has no TTL, and a second recording is
refused for ever; a failing read counts as absent. Without `dem_sha256`
(`dem_store.go:484-485, 542`) the chunks of two recordings of equal size and number
can be stored mixed. The fixed window lets
`2 * limit - 1` through in one window span; an error of the limiter means allowed,
and may have counted. A command past the closed check may put its connection into
the pool after `Close` drained it.

## 5. Proofs

TLAPS proves the following for every value of the constants: any number of
matches, players, lobbies, rooms, tickets, ports, processes, connections, faults,
crashes and restarts, not only the small instances of the runs.

| module | theorem | statement |
|---|---|---|
| `MatchLifecycle_proofs` | `TypeCorrect` | `Spec => []TypeOK` |
| | `NobodyPaidTwice` | `Spec => []PaidAtMostOnce` |
| | `PaidIsDurable` | `Spec => []PaidOnlyOnceDurable` |
| | `DurableEnd` | `Spec => DurableEndIsFinal` |
| | `EndsAreSettled` | `Spec => []EndedIsSettled` |
| | `RematchIsUnique` | `Spec => []OneRematch` |
| | `PaidIsNotAssigned` | `Spec => []PaidNeverAssigned` |
| | `SettlementIsFinal` | `Spec => SettlementStable` |
| `BattleTickets_proofs` | `TypeCorrect` | `Spec => []TypeOK` |
| | `ConsumedOnce` | `Spec => []FreshAtMostOnce` |
| | `OneTicketPerSeat` | `Spec => []OneConsumableTicketPerSeat` |
| | `EndpointsAreCurrent` | `Spec => []NoStaleEndpoint` |
| | `LedgerRefinement` | `Spec => ImplementsLedger` |
| `Lobby_proofs` | `TypeCorrect` | `Spec => []TypeOK` |
| | `SeatsAreReal` | `Spec => []NoGhostSeat` |
| | `PlayersStandOnce` | `Spec => []OnePlacePerUser` |
| | `RoomsStayUsable` | `Spec => []WaitingRoomUsable` |
| | `SeatsAgree` | `Spec => []SeatsAgreeWithRoom` |
| | `MatchesAreTheirTickets` | `Spec => []MatchIsItsTickets` |
| | `DecisionsAreFinal` | `Spec => TicketDecisionIsFinal` |
| `BattleFleet_proofs` | `TypeCorrect` | `Spec => []TypeOK` |
| | `PendingReportsAreCurrent` | `Spec => []PendingIsCurrent` |
| | `PortsAreNotLost` | `Spec => []NoLostPort` |
| `Progress_proofs` | `ProcessesAreReachable` | `SpawnSpec => [](SpawnTypeOK /\ Reachable)` |
| | `OneSocketPerRelay` | `RelaySpec => []RelayTypeOK` |
| | `NothingIsLeaked` | `ProgressSpec => []NothingLeaks` |
| `Gateway_proofs` | `EnvelopesCountOnce` | `EnvelopeSpec => []EnvelopeOnce` |
| | `DeliveredCodesWork` | `CodeSpec => []DeliveredCodeWorks` |
| | `CallbacksCountOnce` | `CallbackSpec => []AcceptedOnce` |
| | `CallbackMemoryIsBounded` | `CallbackSpec => []CallbackTypeOK` |
| | `SessionTypes` | `SessSpec => []SessTypeOK` |
| | `SessionsAreUnique` | `SessSpec => []OneSession` |
| `Edge_proofs` | `PoolTypesHold` | `PoolSpec => []PoolTypeOK` |
| | `RepliesAreMatched` | `PoolSpec => []RepliesMatch` |
| | `CreationsAreBounded` | `LimitSpec => []CreationsBounded` |
| `Services_proofs` | `PityIsKept` | `EcoSpec => []PityHolds` |
| | `GrantsAreUnique` | `EcoSpec => []GrantedOnce` |
| | `BossLosesOnce` | `BossSpec => []BossLedger` |
| | `DraftsHold` | `PlaySpec => []DraftHolds` |
| | `ModeRecordsHold` | `ModeSpec => []ModeRecordHolds` |
| | `ServicesImplement` | `Spec => EcoSpec /\ ... /\ ConnSpec` |
| | `NothingComesInPieces` | `Spec => []NothingInPieces` |
| | `ServicesKeepTypes` | `Spec => []ServicesTypeOK` |

*Assumptions.* Each module names what it assumes of its constants
(`MatchAssumptions`, `TicketAssumptions`, `LobbyAssumptions`, `FleetAssumptions`,
...), and TLC evaluates them in every run: sentinels outside their sets, bounds
that are natural numbers, time-outs and capacities of at least one, finite sets
where the code has a finite table, decks and prices that are sequences and numbers
(`BattlePlayAssumptions`). Two say more than that. `LobbyAssumptions`
has room sizes of at least 2: `validateCoopPlayers` admits 2 and 4, and every
`MinPlayers` of the modes is 2 or more. A room of size 1 would be full when it is
opened and never start, so `WaitingRoomUsable` would be false; the proof does not
go through without it. `PingPeriod < PongWait` is enforced by `New`.

*Matches.* `PaidAtMostOnce` is not inductive: that a paid match is not paid again
rests on `EndedAt`, that on the match having ended or being gone, and that the
row agrees rests on a live match never having a durable end. `IInv` adds
`UnmintedInv` (an id not handed out has left no trace), `EndedInv` (`EndedAt`
only on an ended match), `PaidInv` (a paid match is gone or carries `EndedAt`,
and its row is past playing) and `DurableInv` (a live match has no result and no
ended row; a stored hash is the one in memory). One lemma per action shows that
it is kept, and `DurableEnd` follows from it step by step. Note what the proof
rests on: every path that pays sets `EndedAt` first. The flee path does not set
it and does not pay, which is why finding 1 pays once, and not twice.
`LayerInv` puts a second layer on it: `SettledInv` (a settlement belongs to an
ended match), `RematchInv` (no two matches are rematches of one, and a match still
in memory names its rematch) and the properties themselves. For this layer every
action is first shown to be `Orderly`, which says what it may change of a
settlement, an end and a rematch, and the layer is proved once for orderly steps.

*Tickets.* `IInv` adds `HandlerInv` (what a handler between two statements may
rely on), `UnmintedInv`, `FreshInv` (a fresh answer only for a consumed row) and
`SeatInv` (the unique index). `EndpointInv` is the induction behind
`NoStaleEndpoint`: without a failing statement, a lobby that has moved the
endpoint and not yet revoked everything still has its revocation under way. The
refinement maps each statement to a step of the ledger or to a stutter.

*Lobby.* The invariant has three layers. `ShapeInv` holds whatever failed: types,
unused ids, every queued id cached, the bounds of a room, no seat without a row.
`CalmInv` holds until a handler was cut short: the cache is the table, a user has
one queued row (the partial unique index), queue and rooms are lines of distinct
tickets that are queued and name the place they stand in. `OnePlacePerUser`
follows: two places would be two queued rows, or one row that names two rooms.
`RosterInv` adds the players of a match, until a restart makes players log in
again. Each of the handlers is taken twice, by a Shape lemma for every outcome of
its writes, and by a Calm lemma for the outcome in which all go well. TLC checked
the three layers on the instance of `LobbySafety` before they were proved.

*Fleet.* `ProcInv` (a process has its match and its port), `TableInv` (what the
agent tracks is a process of that match that it started and has not cleaned up)
and `DownInv` (an agent that is down has no tables) carry both properties. The
run explores one thing going wrong (`OneTrouble`); the proof has no such bound.

*Spawner and relay.* `SpawnInv` is inductive as it stands; `WaitingInv` says that
a relay that has not dialled has no socket and no call of `redial` under way.
`NothingIsLeaked` puts both next to the matches of `MCProgress`.

*Sessions.* The two maps are not inverse to each other, since a token changes hands
without its former holder's record. `HolderInv` is the half that holds: a token
resolves to a user who carries it. `CarriedInv` says that whoever carries a token
has signed in with it, and `KeptInv`, which rests on that, that a token only one
user has signed in with still resolves while he carries it. `AuthInv` says that a
goroutine inside `handleAuth` has a token, and a user to sign in where it needs
one, `IndexInv` that an open connection that is not on its way out is the one in
the index.

*Gateway.* An envelope used up is at or below the last sequence number, so it is
used up once; no class of routes has two guards, so none is denied. The code
issued last is the pending one until it is used, gone or expired, since a failing
mail drops only its own code and only the last mail's code is pending. A callback
accepted within the promise of `AcceptedOnce` is remembered or so old that no call
finds it fresh (`AcceptedInv`). `FlyingInv` says how old the clock is that a waiting
call has read, `WindowInv` that what is remembered within the promise was `Covered`
when it was accepted; from there it is the arithmetic of whole seconds and instants.
The memory of nonces stays within its cap because the eviction makes room before
the append.

*Redis pool.* Callers inside `Do` are the holders of slots; the connections alive
are those in the pool and those held, and never both; a connection in the pool
has no unread reply, one that is held at most the one its holder waits for. With
the callers that are dialling, the connections count at most `PoolSize`.

*Room limits.* For a process by itself: its memory remembers every request it let
through in this life whose window is not over, so a window holds no more than the
memory. For the shared counter, let s be the instant at which the key was set:
since s at most as many passed as it counts, after s at most one less (the one
that set it), and before s, in a window that reaches s, at most `RoomLimit - 1`.
Together a span of one window sees at most `2 * RoomLimit - 1`.

*Connections.* The data frames on the wire follow those the reader has put together
so far, numbered one after the other whatever control frames stand between them
(`StreamInv`), and what it has is the beginning of a message (`BegunWell`); so a
message is one its peer sent, with all its parts. An open connection has its pump
(`PumpInv`), which finds the terminal frame of a superseded one.

*Economy.* The pity counters stay below the rules through each draw of an opening;
an opening is a loop, and its every state is shown good from the least that is
not. The check-in round is the number of claimed days modulo its length
(`RoundInv`), which a step of the remainder (`ModNext`) carries on. A debit leaves
gold at zero or more unless its cost was wrapped, since the balance covers it and
what is not wrapped is not negative.

*World boss.* A match that is not finalized has taken nothing and killed nobody
(`FightInv`); so finalizing adds its part to the sum once and for all. That the
sum over the matches does not depend on the order in which `MapThenSumSet` takes
them is proved on the way.

*Play.* What a seat holds beyond what it has drawn (`Beyond`) changes only by a
grant and by a play. An open round has granted nothing yet, its picks are made by
its pickers, differ, and come from the offer, and the order of the pickers is
that of the defeats that are recorded (`PlayCore`). `ChoiceWell` adds who chose
when: a second picker with a card, beside a first without one, had it before the
first's report came.

*Modes.* The event log is the last numbers without a gap, the retained actions are
an interval that ends at the last one, and a seat has one selection a round, of
which an eviction takes those of other rounds first.

*Uploads.* The staged chunks lie within the range of the opener and come from
containers that declare as many chunks (`StagedInv`); so as many chunks as
declared leave none out, and a digest, where there is one, then says that all are
of one container.

*The services together.* `MCServices` moves one service at a time. Every step of it
is a step of one and leaves the variables of the others alone, so its behaviours
are behaviours of each (`ServicesImplement`): what is proved of one service holds
of all of them running together.

*Only model-checked.* Liveness (`MatchEnds`, `EveryProcessEnds`, `RelayFollows`)
is outside the prover's reach: fairness needs `ENABLED`. Every other property of
the passing runs is proved. The library's `SelectSeq` is opaque to the prover,
and induction over data is not available with operator parameters; the loops a
proof needed are recursive functions instead (`Only` in `Lobby`, `RecentHits`,
`Page`, `Recent`, `DrawMany`), and the facts about them are proved from the least
counterexample (`LeastOf`).

## 6. What is not covered

- The per-tick simulation: float positions, bullets, hits and what a card does.
  Only the scores matter to a settlement, and those are free.
- Signatures, hashing, formatting, request decoding, SMTP: checks that refuse a
  request and change nothing are stutters.
- The HTTP and Nakama handlers beyond their guards: each decodes a request, calls
  one method of the service and encodes the answer.
- Audits, notifier, records, idempotency store: nothing that decides reads them,
  or nothing calls them. Chat (`LobbyMessage`) reaches no other state.
- Several lobby processes on the same rooms: `Lobby` has one process.
- Reuse of ids after a restart (`service.go:5046`): the modules take every id to
  be new.
- The parts are checked next to each other, not composed: `MatchLifecycle` has the
  poll of the agent and `BattleFleet` an abstract match (allocated, over), `Relay`
  an abstract socket and `LobbyConn` an abstract datagram.

## 7. Plan

1. *Done*: the modules above, and a theorem for each safety property of the
   passing runs.
2. *Next*: the sentences the findings refute, proved under the premise that repairs
   them; the action properties of the services (a delivered nonce stays
   delivered, a finalized fight stays finalized); a shared match for
   `MatchLifecycle` and `BattleFleet`, so that the agent's poll is one action.

## 8. Running

`tlc -config MatchSafety.cfg MCMatchLifecycle` and likewise for the others
(`Ticket*.cfg` with `MCBattleTickets`, `Lobby*.cfg` with `MCLobby`, `Fleet*.cfg`
with `MCBattleFleet`, `ProgressLiveness.cfg` with `MCProgress`,
`ServicesSafety.cfg` with `MCServices`, `RelayKept.cfg` with `LobbyConn`). The
longest runs take three minutes on two workers. `tlapm X_proofs.tla` checks the
proofs of each of the modules named so; `Services_proofs` takes about seven
minutes, `Lobby_proofs` and `Edge_proofs` about four, the others less.
