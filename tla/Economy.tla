------------------------------ MODULE Economy ------------------------------
(***************************************************************************)
(* What a player owns and the requests that change it: the two gacha pools *)
(* (runtime/core/gacha.go), the shop (shop.go), and in service.go chests,  *)
(* card upgrades, decks, check-in, activity claims, the older shop and the *)
(* rewards of a settled match.                                             *)
(*                                                                         *)
(* Every request runs under Service.mu and profiles do not touch each      *)
(* other, so one profile is modelled, under any sequence of requests and   *)
(* of repeated requests.  Draws are hashes of the opening id: a free       *)
(* choice here.  A profile starts with maxCopiesPerCard copies of every    *)
(* card (defaultInventory) and nothing takes one away, so a granted card   *)
(* always becomes dust.                                                    *)
(***************************************************************************)
EXTENDS Integers, FiniteSets, Sequences

CONSTANTS
    Nonces,             \* nonces of shop requests
    Catalog,            \* serverShopCatalog: product -> [kind, costKind, amount, qty]
    MaxQuantity,        \* maxShopPurchaseQuantity
    LegacyPrice,        \* gold price in shopItemCatalog
    LegacyGrant,        \* GrantCount in shopItemCatalog
    Counts,             \* what a client may send as the count of the older shop
    IntLimit,           \* 2^63: an int is in -IntLimit..IntLimit-1
    Cards, CardRarity,  \* the card catalog; rarities are 0 (common), 1 (rare), 2 (epic)
    Shots, ShotRarity,  \* gachaCharacterTable
    StarterShots,       \* defaultGachaShotIDs
    DustValue,          \* dustValueForCard, by rarity
    StartWallet,        \* defaultWallet
    SingleCost, TenCost, TenCount,  \* gachaSingleCostGems, gachaTenCostGems, gachaTenPullCount
    RareEvery, EpicEvery,           \* ChestPityRules, by pool
    FaithCost,          \* gachaFaithExchangeCost
    MaxLevel,           \* maxCardLevel
    CycleDays,          \* checkinCycleDays
    CheckinGold,        \* checkinRewardForDay
    TicketDays,         \* the days of the round that add a ticket
    MaxChestOpen,       \* maxChestOpenCount
    DeckIds,            \* deck ids, the default one included
    DefaultDeck,
    MaxDay,             \* bound on days
    MaxOps              \* bound on requests that change the profile

Currencies == {"gold", "gems", "card_dust", "chest_keys", "faith", "points", "ticket"}
Pools == {"cards", "characters", "chest"}
Rarities == 0..2
ClaimKinds == {"task", "event", "leaderboard"}

(* A Go int, and the value an operation on ints leaves in one.              *)
Ints == (0 - IntLimit)..(IntLimit - 1)
Wrap(x) == ((x + IntLimit) % (2 * IntLimit)) - IntLimit

ASSUME EconomyAssumptions ==
    /\ MaxQuantity \in Nat \ {0}
    /\ {LegacyPrice, LegacyGrant, IntLimit} \subseteq Nat \ {0}
    /\ Counts \subseteq Ints
    /\ StartWallet["gold"] \in Ints
    /\ CardRarity \in [Cards -> Rarities]
    /\ ShotRarity \in [Shots -> Rarities]
    /\ \A r \in Rarities : \E s \in Shots : ShotRarity[s] = r
    /\ \A r \in Rarities : \E c \in Cards : CardRarity[c] = r
    /\ StarterShots \subseteq Shots
    /\ DustValue \in [Rarities -> Nat \ {0}]
    /\ StartWallet \in [Currencies -> Nat]
    /\ {SingleCost, TenCost, TenCount, FaithCost, MaxLevel, CycleDays, MaxChestOpen} \subseteq Nat \ {0}
    /\ RareEvery \in [Pools -> Nat \ {0}]
    /\ EpicEvery \in [Pools -> Nat \ {0}]
    /\ CheckinGold \in [1..CycleDays -> Nat \ {0}]
    /\ TicketDays \subseteq 1..CycleDays
    /\ DefaultDeck \in DeckIds
    /\ MaxDay \in Nat
    /\ MaxOps \in Nat
    /\ Catalog \in [DOMAIN Catalog -> [kind : {"card", "chest", "bundle"},
                                       costKind : {"gold", "gems"},
                                       amount : Nat \ {0}, qty : Nat \ {0}]]

VARIABLES
    wallet,     \* user.Wallet
    chests,     \* user.Chests[defaultChestPoolID]
    level,      \* user.Inventory[card].Level
    shots,      \* user.Characters
    pity,       \* user.GachaPity and user.ChestPity
    receipts,   \* s.shopPurchases: the request each nonce was used for
    bag,        \* user.ShopInventory: number of items of the older shop
    wrapped,    \* history: an amount of gold has left the range of an int
    decks,      \* user.Decks: deck -> "none", "plain" or "active"
    activeDeck, \* user.ActiveDeckID
    board,      \* user.Tasks, Events, Leaderboards: what can be claimed
    claims,     \* s.activityClaims
    lastDay,    \* user.CheckinLastDay, -1 when empty
    cycleDay,   \* user.CheckinCycleDay
    streak,     \* user.CheckinStreak
    claimedDays,\* user.CheckinClaimedDays: the reward day of each day, 0 when absent
    day,
    delivered,  \* history: how often the goods of a nonce were handed out
    paid,       \* history: how often a claim was paid
    ops

goods == <<wallet, chests, level, shots, pity>>
shelf == <<receipts, delivered, bag, wrapped>>
binder == <<decks, activeDeck>>
activity == <<board, claims, paid>>
calendar == <<lastDay, cycleDay, streak, claimedDays, day>>
ecoVars == <<goods, shelf, binder, activity, calendar, ops>>

NoRequest == <<>>
CountOp == ops < MaxOps /\ ops' = ops + 1

(* Only gold can grow without bound, see PurchaseShopItem.                  *)
Add(w, c, n) == [w EXCEPT ![c] = @ + n]
Spend(w, c, n) == [w EXCEPT ![c] = @ - n]
SetGold(w, n) == [w EXCEPT !["gold"] = Wrap(n)]

(* walletCovers, and the checks before each debit.                          *)
(* Mutant: a balance one short is enough.                                   *)
CoversAlmost(c, n) == wallet[c] + 1 >= n
Covers(c, n) == wallet[c] >= n

(* grantCardToUserLocked: no copy is accepted any more, see above.          *)
GrantCard(w, r, n) == Add(w, "card_dust", n * DustValue[r])

-----------------------------------------------------------------------------
(* Draws.                                                                   *)

(* applyGachaPity, applyChestPity: the rarity a draw ends up with, and the  *)
(* counters after it.                                                       *)
(* Mutant: the counters are compared before they count this draw.           *)
PityRarityLate(pool, c, rolled) ==
    LET r0 == IF c.epic - 1 >= EpicEvery[pool] THEN 2 ELSE rolled
    IN IF c.rare - 1 >= RareEvery[pool] /\ r0 < 1 THEN 1 ELSE r0
PityRarity(pool, c, rolled) ==
    LET r0 == IF c.epic >= EpicEvery[pool] THEN 2 ELSE rolled
    IN IF c.rare >= RareEvery[pool] /\ r0 < 1 THEN 1 ELSE r0

Counted(c) == [rare |-> c.rare + 1, epic |-> c.epic + 1]
Reset(c, r) == [rare |-> IF r >= 1 THEN 0 ELSE c.rare, epic |-> IF r >= 2 THEN 0 ELSE c.epic]

(* One draw of GachaPull or rollChestResultLocked, given the rarity rolled  *)
(* and, in the character pool, the shot picked within the final rarity.     *)
Draw(pool, b, rolled, pick) ==
    LET c == Counted(b.pity)
        r == PityRarity(pool, c, rolled)
        after == [b EXCEPT !.pity = Reset(c, r)]
    IN IF pool = "characters"
       THEN [after EXCEPT !.shots = @ \cup {pick[r]}]
       ELSE [after EXCEPT !.wallet = GrantCard(@, r, 1)]

(* pickGachaShotForRarity: any shot of the rarity.                          *)
Picks == {f \in [Rarities -> Shots] : \A r \in Rarities : ShotRarity[f[r]] = r}

(* The draws of one opening, in order.                                      *)
DrawAll(pool, start, rolls, picks) ==
    LET after[i \in 0..Len(rolls)] ==
          IF i = 0 THEN start ELSE Draw(pool, after[i - 1], rolls[i], picks[i])
    IN after[Len(rolls)]

(* rollGachaRarity, with gachaGuaranteedRarity for the last of a ten-pull.  *)
Rolls(count) ==
    {rolls \in [1..count -> Rarities] : count = TenCount => rolls[count] >= 1}

GachaPull(pool, count) ==
    /\ pool \in {"cards", "characters"}
    /\ count \in {1, TenCount}
    /\ LET cost == IF count = TenCount THEN TenCost ELSE SingleCost
       IN /\ Covers("gems", cost)
          /\ \E rolls \in Rolls(count), picks \in [1..count -> IF pool = "characters" THEN Picks ELSE {<<>>}] :
                LET start == [pity |-> pity[pool], shots |-> shots, wallet |-> Spend(wallet, "gems", cost)]
                    end == DrawAll(pool, start, rolls, picks)
                IN /\ pity' = [pity EXCEPT ![pool] = end.pity]
                   /\ shots' = end.shots
                   /\ wallet' = Add(end.wallet, "faith", count)
    /\ CountOp
    /\ UNCHANGED <<chests, level, shelf, binder, activity, calendar>>

ExchangeFaith(s) ==
    /\ s \notin shots
    /\ Covers("faith", FaithCost)
    /\ wallet' = Spend(wallet, "faith", FaithCost)
    /\ shots' = shots \cup {s}
    /\ CountOp
    /\ UNCHANGED <<chests, level, pity, shelf, binder, activity, calendar>>

(* rollChestRarity: any rarity.                                             *)
ChestRolls(count) == [1..count -> Rarities]

(* OpenChest: one key and one chest per draw.                               *)
OpenChest(count) ==
    /\ count <= chests
    /\ Covers("chest_keys", count)
    /\ \E rolls \in ChestRolls(count) :
          LET start == [pity |-> pity["chest"], shots |-> shots, wallet |-> Spend(wallet, "chest_keys", count)]
              end == DrawAll("chest", start, rolls, [i \in 1..count |-> <<>>])
          IN /\ pity' = [pity EXCEPT !["chest"] = end.pity]
             /\ wallet' = end.wallet
    /\ chests' = chests - count
    /\ CountOp
    /\ UNCHANGED <<level, shots, shelf, binder, activity, calendar>>

UpgradeCard(c) ==
    /\ level[c] < MaxLevel
    /\ LET cost == DustValue[CardRarity[c]] * level[c]
       IN /\ Covers("card_dust", cost)
          /\ wallet' = Spend(wallet, "card_dust", cost)
    /\ level' = [level EXCEPT ![c] = @ + 1]
    /\ CountOp
    /\ UNCHANGED <<chests, shots, pity, shelf, binder, activity, calendar>>

-----------------------------------------------------------------------------
(* Shops.                                                                   *)

(* shopPurchaseRequestHash                                                  *)
Request(product, q) == <<product, q>>

(* The record of a nonce answers the request again, or refuses another.     *)
Recorded(n) == receipts[n] # NoRequest

(* grantShopProductLocked                                                   *)
Grant(w, item, n) ==
    CASE item.kind = "card" -> GrantCard(w, 0, n)
      [] item.kind = "bundle" -> Add(w, "gems", n)
      [] OTHER -> w

(* PurchaseShopProduct, when the nonce is new.  No product of the catalog   *)
(* has a daily limit.                                                       *)
PurchaseShopProduct(n, product, q) ==
    LET item == Catalog[product]
        cost == item.amount * q
    IN /\ ~Recorded(n)
       /\ Covers(item.costKind, cost)
       /\ wallet' = Grant(Spend(wallet, item.costKind, cost), item, item.qty * q)
       /\ chests' = IF item.kind = "chest" THEN chests + item.qty * q ELSE chests
       /\ receipts' = [receipts EXCEPT ![n] = Request(product, q)]
       /\ delivered' = [delivered EXCEPT ![n] = @ + 1]
       /\ CountOp
       /\ UNCHANGED <<level, shots, pity, bag, wrapped, binder, activity, calendar>>

(* PurchaseShopItem: no nonce, and what it grants goes to a bag of its own. *)
(* The count is the client's, without an upper bound (no item has a stock), *)
(* and the price of the lot is computed in ints, as is every amount after   *)
(* it: a price that wraps below zero is covered, and adds to the balance.   *)
PurchaseShopItem(asked) ==
    LET count == IF asked <= 0 THEN 1 ELSE asked
        cost == Wrap(LegacyPrice * count)
    IN /\ Covers("gold", cost)
       /\ wallet' = SetGold(wallet, wallet["gold"] - cost)
       /\ bag' = Wrap(bag + Wrap(LegacyGrant * count))
       /\ wrapped' = (wrapped \/ LegacyPrice * count \notin Ints)
       /\ CountOp
       /\ UNCHANGED <<chests, level, shots, pity, receipts, delivered, binder, activity, calendar>>

-----------------------------------------------------------------------------
(* Decks.                                                                   *)

(* SaveDeck of a valid deck.                                                *)
SavedDecks(d, active) ==
    [x \in DeckIds |->
       IF x = d THEN IF active \/ activeDeck = "" THEN "active" ELSE "plain"
       ELSE IF active /\ decks[x] = "active" THEN "plain" ELSE decks[x]]

SaveDeck(d, active) ==
    /\ decks' = SavedDecks(d, active)
    /\ activeDeck' = IF active \/ activeDeck = "" THEN d ELSE activeDeck
    /\ CountOp
    /\ UNCHANGED <<goods, shelf, activity, calendar>>

-----------------------------------------------------------------------------
(* Matches, activities and check-in.                                        *)

(* applyProgressLocked: the task of the day is complete, the event has      *)
(* points, and a better score replaces the leaderboard row, its reward      *)
(* status included.                                                         *)
Progressed(win, better) ==
    [board EXCEPT !["task"] = IF @ = "claimed" THEN @ ELSE "open",
                  !["event"] = IF @ = "claimed" THEN @ ELSE "open",
                  !["leaderboard"] = IF better THEN IF win THEN "open" ELSE "closed" ELSE @]

(* buildSettlementLocked, applyRewardsLocked                                *)
SettleRewards(win, graze, better) ==
    /\ wallet' = Add(Add(Add(wallet, "points", 1), "chest_keys", IF win THEN 1 ELSE 0), "card_dust", graze)
    /\ board' = Progressed(win, better)
    /\ CountOp
    /\ UNCHANGED <<chests, level, shots, pity, shelf, binder, claims, paid, calendar>>

(* claimEligibility: a leaderboard row is judged by rank alone, so one that *)
(* was paid passes again.                                                   *)
Eligible(k) == board[k] = "open" \/ (k = "leaderboard" /\ board[k] = "claimed")

(* The claims already settled, which answer as duplicates.                  *)
(* Mutant: leaderboards are left to their status.                           *)
SettledClaimExceptBoards(k) == k \in claims /\ k # "leaderboard"
SettledClaim(k) == k \in claims

(* buildActivityClaimResultLocked: what a claim pays, points as units.      *)
ClaimReward(k) == Add(Add(wallet, "points", 1), "chest_keys", IF k = "leaderboard" THEN 1 ELSE 0)

(* ClaimActivity with applyActivityProjectionLocked.                        *)
ClaimActivity(k) ==
    /\ ~SettledClaim(k)
    /\ Eligible(k)
    /\ wallet' = ClaimReward(k)
    /\ board' = [board EXCEPT ![k] = "claimed"]
    /\ claims' = claims \cup {k}
    /\ paid' = [paid EXCEPT ![k] = @ + 1]
    /\ CountOp
    /\ UNCHANGED <<chests, level, shots, pity, shelf, binder, calendar>>

(* checkinNextDayLocked                                                     *)
NextCheckinDay == IF cycleDay \in 1..CycleDays THEN cycleDay ELSE 1

(* The round starts over after its last day.                                *)
Advance(d) == IF d >= CycleDays THEN 1 ELSE d + 1

(* checkinRewardForDay                                                      *)
CheckinReward(d) ==
    Add(SetGold(wallet, wallet["gold"] + CheckinGold[d]), "ticket", IF d \in TicketDays THEN 1 ELSE 0)

ClaimCheckin ==
    LET d == NextCheckinDay
    IN /\ lastDay # day
       /\ wallet' = CheckinReward(d)
       /\ streak' = IF lastDay = day - 1 /\ lastDay >= 0 THEN streak + 1 ELSE 1
       /\ lastDay' = day
       /\ claimedDays' = [claimedDays EXCEPT ![day] = d]
       /\ cycleDay' = Advance(d)
       /\ wrapped' = (wrapped \/ wallet["gold"] + CheckinGold[d] \notin Ints)
       /\ CountOp
       /\ UNCHANGED <<chests, level, shots, pity, receipts, delivered, bag, binder, activity, day>>

NextDay ==
    /\ day < MaxDay
    /\ day' = day + 1
    /\ UNCHANGED <<goods, shelf, binder, activity, lastDay, cycleDay, streak, claimedDays, ops>>

-----------------------------------------------------------------------------
(* initGachaStateLocked, ensureDefaultCharactersLocked: the starter kit.    *)
GachaStart ==
    /\ shots = StarterShots
    /\ pity = [p \in Pools |-> [rare |-> 0, epic |-> 0]]

(* newUserState: a new profile.                                             *)
EcoInit ==
    /\ wallet = StartWallet
    /\ chests = 1
    /\ level = [c \in Cards |-> 1]
    /\ GachaStart
    /\ receipts = [n \in Nonces |-> NoRequest]
    /\ bag = 0
    /\ wrapped = FALSE
    /\ decks = [d \in DeckIds |-> IF d = DefaultDeck THEN "active" ELSE "none"]
    /\ activeDeck = DefaultDeck
    /\ board = [k \in ClaimKinds |-> "closed"]
    /\ claims = {}
    /\ lastDay = -1
    /\ cycleDay = 1
    /\ streak = 0
    /\ claimedDays = [d \in 0..MaxDay |-> 0]
    /\ day = 0
    /\ delivered = [n \in Nonces |-> 0]
    /\ paid = [k \in ClaimKinds |-> 0]
    /\ ops = 0

Spending ==
    \/ \E pool \in Pools, count \in {1, TenCount} : GachaPull(pool, count)
    \/ \E s \in Shots : ExchangeFaith(s)
    \/ \E count \in 1..MaxChestOpen : OpenChest(count)
    \/ \E c \in Cards : UpgradeCard(c)
    \/ \E n \in Nonces, p \in DOMAIN Catalog, q \in 1..MaxQuantity : PurchaseShopProduct(n, p, q)
    \/ \E asked \in Counts : PurchaseShopItem(asked)

Earning ==
    \/ \E win, better \in BOOLEAN, graze \in 0..1 : SettleRewards(win, graze, better)
    \/ \E k \in ClaimKinds : ClaimActivity(k)
    \/ ClaimCheckin

EcoNext ==
    \/ Spending
    \/ Earning
    \/ \E d \in DeckIds, active \in BOOLEAN : SaveDeck(d, active)
    \/ NextDay

EcoSpec == EcoInit /\ [][EcoNext]_ecoVars

-----------------------------------------------------------------------------
(* Properties.                                                              *)

(* Types; in particular no debit takes a balance below zero, whatever is    *)
(* bought in which order (the checks before each debit).  Gold is the one   *)
(* exception, and only in a profile where an amount left the range of an    *)
(* int, as the price of a lot of the older shop can.                        *)
EcoTypeOK ==
    /\ wallet \in [Currencies -> Int]
    /\ wallet["gold"] \in Ints
    /\ \A c \in Currencies : wallet[c] < 0 => c = "gold" /\ wrapped
    /\ wrapped \in BOOLEAN
    /\ chests \in Nat
    /\ level \in [Cards -> 1..MaxLevel]
    /\ shots \subseteq Shots
    /\ pity \in [Pools -> [rare : Nat, epic : Nat]]
    /\ \A n \in Nonces : receipts[n] = NoRequest \/ receipts[n] \in (DOMAIN Catalog) \X (1..MaxQuantity)
    /\ bag \in Ints
    /\ decks \in [DeckIds -> {"none", "plain", "active"}]
    /\ activeDeck \in DeckIds
    /\ board \in [ClaimKinds -> {"closed", "open", "claimed"}]
    /\ claims \subseteq ClaimKinds
    /\ lastDay \in -1..MaxDay
    /\ cycleDay \in 1..CycleDays
    /\ streak \in Nat
    /\ claimedDays \in [0..MaxDay -> 0..CycleDays]
    /\ day \in 0..MaxDay
    /\ delivered \in [Nonces -> Nat]
    /\ paid \in [ClaimKinds -> Nat]
    /\ ops \in 0..MaxOps

(* Nobody draws RareEvery times in a row without a rare, or EpicEvery times *)
(* without an epic: the counters, which count the draws since the last one, *)
(* stay below, across single pulls, ten-pulls and their guarantee.          *)
PityHolds == \A p \in Pools : pity[p].rare < RareEvery[p] /\ pity[p].epic < EpicEvery[p]

(* Nothing is handed out twice.  A shop request that is sent again, or a    *)
(* nonce that is used for another request, delivers nothing and costs       *)
(* nothing (s.shopPurchases).  A task, event or leaderboard pays once,      *)
(* although the next settlement may put the row back as if it had not been  *)
(* claimed (s.activityClaims).  The daily rewards follow the round          *)
(* 1..CycleDays without a gap or a repetition, however many days the player *)
(* misses (ClaimCheckin).                                                   *)
GrantedOnce ==
    /\ \A n \in Nonces : delivered[n] = (IF receipts[n] = NoRequest THEN 0 ELSE 1)
    /\ \A k \in ClaimKinds : paid[k] = (IF k \in claims THEN 1 ELSE 0)
    /\ \A d \in 0..MaxDay : claimedDays[d] # 0 =>
          claimedDays[d] = (Cardinality({x \in 0..(d - 1) : claimedDays[x] # 0}) % CycleDays) + 1
=============================================================================
