----------------------------- MODULE MCServices -----------------------------
(* Small instances of the lobby services.  They share no state: a behaviour *)
(* moves one of them and leaves the others where they started.              *)
EXTENDS Economy, WorldBoss, Sessions, AccountCodes, CallbackGuard, EnvelopeGuard, DemUploads,
        BattlePlay, ModeActions, RoomLimits, RedisPool, LobbyConn, TLC

VARIABLE moving

SmallCatalog ==
    [card  |-> [kind |-> "card", costKind |-> "gold", amount |-> 1, qty |-> 1],
     chest |-> [kind |-> "chest", costKind |-> "gold", amount |-> 2, qty |-> 1],
     gems  |-> [kind |-> "bundle", costKind |-> "gold", amount |-> 2, qty |-> 2]]

Rarity3(a, b, c) == [x \in {a, b, c} |-> CASE x = a -> 0 [] x = b -> 1 [] OTHER -> 2]
SmallCards == {"c0", "c1", "c2"}
SmallCardRarity == Rarity3("c0", "c1", "c2")
SmallShots == {"s0", "s1", "s2"}
SmallShotRarity == Rarity3("s0", "s1", "s2")
SmallDust == [r \in Rarities |-> r + 1]
SmallWallet == [c \in Currencies |-> CASE c = "gold" -> 2 [] c = "gems" -> 2 [] c = "chest_keys" -> 1 [] OTHER -> 0]
SmallRareEvery == [p \in Pools |-> 2]
SmallEpicEvery == [p \in Pools |-> 3]
SmallCheckin == [d \in 1..CycleDays |-> d]

(* A recording of two chunks, another one of the same match, one whose      *)
(* digest names the first, one beyond the size limit, one without a header  *)
(* and one that is sent without a digest.                                   *)
SmallContainers == {"whole", "other", "corrupt", "long", "headless", "bare"}
SmallTotal == [c \in SmallContainers |-> IF c = "long" THEN 3 ELSE 2]
SmallSize == [c \in SmallContainers |-> 2]
SmallDigest == [c \in SmallContainers |-> CASE c = "corrupt" -> "whole" [] c = "bare" -> "none" [] OTHER -> c]

(* Two players who hold one card each; "a" draws once more. *)
SmallFighters == <<"p", "q">>
SmallDecks == [p |-> <<"a", "b">>, q |-> <<"b", "b">>]
SmallCosts == [c \in {"a", "b"} |-> 1]
SmallDraws == [c \in {"a", "b"} |-> IF c = "a" THEN 1 ELSE 0]
SmallGains == [c \in {"a", "b"} |-> IF c = "b" THEN 1 ELSE 0]

(* Two seats that both hold card "b". *)
SmallSeatDeck == [u \in {"p", "q"} |-> {"b"}]
SmallGifts == [heart |-> 1, cup |-> 2]

(* Alike are the players of the sessions, and the tokens.                   *)
Alike == Permutations(Players) \cup Permutations(Tokens)

profile == <<ecoVars, bossVars>>
match == <<playVars, modeVars>>
edge == <<limitVars, poolVars, connVars>>
gateway == <<sessVars, codeVars, callbackVars, envelopeVars, demVars, edge>>

Init ==
    /\ EcoInit /\ BossInit /\ PlayInit /\ ModeInit
    /\ SessInit /\ CodeInit /\ CallbackInit /\ EnvelopeInit /\ DemInit /\ LimitInit /\ PoolInit /\ ConnInit
    /\ moving \in {"profile", "boss", "play", "mode", "session", "code", "callback", "envelope", "dem", "limit", "pool", "conn"}
    /\ mode = "boss" \/ moving = "mode"
    /\ limiter = "memory" \/ moving = "limit"
    /\ role = "lobby" \/ moving = "conn"

MoveProfile ==
    \/ moving = "profile" /\ EcoNext /\ UNCHANGED <<bossVars, match, gateway>>
    \/ moving = "boss" /\ BossNext /\ UNCHANGED <<ecoVars, match, gateway>>
MoveMatch ==
    \/ moving = "play" /\ PlayNext /\ UNCHANGED <<modeVars, profile, gateway>>
    \/ moving = "mode" /\ ModeNext /\ UNCHANGED <<playVars, profile, gateway>>
MoveGateway ==
    \/ moving = "session" /\ SessNext /\ UNCHANGED <<codeVars, callbackVars, envelopeVars, demVars, edge, profile, match>>
    \/ moving = "code" /\ CodeNext /\ UNCHANGED <<sessVars, callbackVars, envelopeVars, demVars, edge, profile, match>>
    \/ moving = "callback" /\ CallbackNext /\ UNCHANGED <<sessVars, codeVars, envelopeVars, demVars, edge, profile, match>>
    \/ moving = "envelope" /\ EnvelopeNext /\ UNCHANGED <<sessVars, codeVars, callbackVars, demVars, edge, profile, match>>
    \/ moving = "dem" /\ DemNext /\ UNCHANGED <<sessVars, codeVars, callbackVars, envelopeVars, edge, profile, match>>
    \/ moving = "limit" /\ LimitNext /\ UNCHANGED <<sessVars, codeVars, callbackVars, envelopeVars, demVars, poolVars, connVars, profile, match>>
    \/ moving = "pool" /\ PoolNext /\ UNCHANGED <<sessVars, codeVars, callbackVars, envelopeVars, demVars, limitVars, connVars, profile, match>>
    \/ moving = "conn" /\ ConnNext /\ UNCHANGED <<sessVars, codeVars, callbackVars, envelopeVars, demVars, limitVars, poolVars, profile, match>>
Next == UNCHANGED moving /\ (MoveProfile \/ MoveMatch \/ MoveGateway)

Spec == Init /\ [][Next]_<<profile, match, gateway, moving>>

(* Every part keeps its types. *)
ServicesTypeOK ==
    /\ moving = "profile" => EcoTypeOK
    /\ moving = "boss" => BossTypeOK
    /\ moving = "play" => PlayTypeOK
    /\ moving = "session" => SessTypeOK
    /\ moving = "code" => CodeTypeOK
    /\ moving = "callback" => CallbackTypeOK
    /\ moving = "envelope" => EnvelopeTypeOK
    /\ moving = "dem" => DemTypeOK
    /\ moving = "mode" => ModeTypeOK
    /\ moving = "limit" => LimitTypeOK
    /\ moving = "pool" => PoolTypeOK
    /\ moving = "conn" => ConnTypeOK

(* What is put together from parts is whole, and ends for good: a stored    *)
(* recording is complete, and one container if a digest came with it        *)
(* (StoredWhole), a message of a connection is one of its peer's            *)
(* (MessagesWhole), and a superseded connection is on its way out           *)
(* (NoZombie).                                                              *)
NothingInPieces == StoredWhole /\ MessagesWhole /\ NoZombie

=============================================================================
