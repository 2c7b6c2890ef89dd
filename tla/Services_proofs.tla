--------------------------- MODULE Services_proofs ---------------------------
(***************************************************************************)
(* Proofs about the services that MCServices puts together, for every      *)
(* value of their constants, and about their composition:                  *)
(*   - Economy: draws stay within the pity rules, and nothing is granted   *)
(*     twice;                                                              *)
(*   - WorldBoss: a match takes its damage off the boss once;              *)
(*   - BattlePlay: the hands, the draft and the defeats agree;             *)
(*   - ModeActions: the record of a mode is what its players did;          *)
(*   - DemUploads: a stored recording is whole.                            *)
(* Sessions, codes, callbacks and envelopes have their proofs in           *)
(* Gateway_proofs, connections, limits and the Redis pool in Edge_proofs.  *)
(***************************************************************************)
EXTENDS MCServices, Gateway_proofs, Edge_proofs, FiniteSetTheorems, SequenceTheorems,
        WellFoundedInduction, TLAPS

-----------------------------------------------------------------------------
(* Arithmetic.                                                             *)

LEMMA ModUnique ==
    ASSUME NEW C \in Nat \ {0}, NEW q \in Nat, NEW r \in 0..(C - 1)
    PROVE  (C * q + r) % C = r
OBVIOUS

LEMMA DivisionExists ==
    ASSUME NEW C \in Nat \ {0}, NEW k \in Nat
    PROVE  \E q \in Nat, r \in 0..(C - 1) : k = C * q + r
<1> DEFINE Divides(n) == \E q \in Nat, r \in 0..(C - 1) : n = C * q + r
           T == {n \in Nat : ~Divides(n)}
<1>1. Divides(0)
  <2>1. 0 \in Nat /\ 0 \in 0..(C - 1) /\ 0 = C * 0 + 0
    OBVIOUS
  <2> QED
    BY <2>1
<1>2. ASSUME NEW n \in Nat, Divides(n) PROVE Divides(n + 1)
  <2>1. PICK q \in Nat, r \in 0..(C - 1) : n = C * q + r
    BY <1>2
  <2>2. CASE r = C - 1
    <3>1. q + 1 \in Nat /\ 0 \in 0..(C - 1) /\ n + 1 = C * (q + 1) + 0
      BY <2>1, <2>2
    <3> QED
      BY <3>1
  <2>3. CASE r # C - 1
    <3>1. r + 1 \in 0..(C - 1) /\ n + 1 = C * q + (r + 1)
      BY <2>1, <2>3
    <3> QED
      BY <3>1
  <2> QED
    BY <2>2, <2>3
<1> HIDE DEF Divides
<1>3. T = {}
  <2> SUFFICES ASSUME T # {} PROVE FALSE
    OBVIOUS
  <2>1. PICK n \in T : \A y \in T : n <= y
    BY LeastOf
  <2>2. n \in Nat /\ n # 0 /\ n - 1 \in Nat
    BY <1>1, <2>1
  <2>3. Divides(n - 1)
    BY <2>1, <2>2
  <2>4. n - 1 + 1 = n
    BY <2>2
  <2> QED
    BY <1>2, <2>1, <2>2, <2>3, <2>4
<1> QED
  BY <1>3 DEF Divides

LEMMA ModNext ==
    ASSUME NEW C \in Nat \ {0}, NEW k \in Nat
    PROVE  /\ k % C \in 0..(C - 1)
           /\ (k + 1) % C = IF k % C = C - 1 THEN 0 ELSE (k % C) + 1
<1>1. PICK q \in Nat, r \in 0..(C - 1) : k = C * q + r
  BY DivisionExists
<1>2. k % C = r
  BY <1>1, ModUnique
<1>3. CASE r = C - 1
  <2>1. q + 1 \in Nat /\ 0 \in 0..(C - 1) /\ k + 1 = C * (q + 1) + 0
    BY <1>1, <1>3
  <2>2. (C * (q + 1) + 0) % C = 0
    BY <2>1, ModUnique
  <2> QED
    BY <1>2, <1>3, <2>1, <2>2
<1>4. CASE r # C - 1
  <2>1. r + 1 \in 0..(C - 1) /\ k + 1 = C * q + (r + 1)
    BY <1>1, <1>4
  <2>2. (C * q + (r + 1)) % C = r + 1
    BY <2>1, ModUnique
  <2> QED
    BY <1>2, <1>4, <2>1, <2>2
<1> QED
  BY <1>3, <1>4

-----------------------------------------------------------------------------
(* Economy: draws.                                                         *)

(* A wallet; wr says whether an amount of gold has left the range of ints. *)
Wallets(wr) ==
    {w \in [Currencies -> Int] :
       w["gold"] \in Ints /\ \A c \in Currencies : w[c] < 0 => c = "gold" /\ wr}

Bodies(wr) == [pity : [rare : Nat, epic : Nat], shots : SUBSET Shots, wallet : Wallets(wr)]

(* The counters of a pool are below its rules.                             *)
Below(pool, c) == c.rare < RareEvery[pool] /\ c.epic < EpicEvery[pool]

LEMMA EcoConstants ==
    /\ MaxQuantity \in Nat \ {0} /\ LegacyPrice \in Nat \ {0} /\ LegacyGrant \in Nat \ {0}
    /\ IntLimit \in Nat \ {0} /\ Counts \subseteq Ints /\ StartWallet["gold"] \in Ints
    /\ CardRarity \in [Cards -> Rarities] /\ ShotRarity \in [Shots -> Rarities]
    /\ StarterShots \subseteq Shots /\ DustValue \in [Rarities -> Nat \ {0}]
    /\ StartWallet \in [Currencies -> Nat]
    /\ SingleCost \in Nat \ {0} /\ TenCost \in Nat \ {0} /\ TenCount \in Nat \ {0}
    /\ FaithCost \in Nat \ {0} /\ MaxLevel \in Nat \ {0} /\ CycleDays \in Nat \ {0} /\ MaxChestOpen \in Nat \ {0}
    /\ RareEvery \in [Pools -> Nat \ {0}] /\ EpicEvery \in [Pools -> Nat \ {0}]
    /\ CheckinGold \in [1..CycleDays -> Nat \ {0}]
    /\ DefaultDeck \in DeckIds /\ MaxDay \in Nat /\ MaxOps \in Nat
    /\ Catalog \in [DOMAIN Catalog -> [kind : {"card", "chest", "bundle"}, costKind : {"gold", "gems"},
                                       amount : Nat \ {0}, qty : Nat \ {0}]]
BY EconomyAssumptions

LEMMA LimitFact == IntLimit \in Nat \ {0}
BY EcoConstants

LEMMA IntsFacts ==
    /\ Ints \subseteq Int /\ 0 \in Ints
    /\ \A x, y \in Int : x \in Ints /\ 0 <= y /\ y <= x => y \in Ints
BY LimitFact DEF Ints

LEMMA WrapFacts == \A x \in Int : Wrap(x) \in Ints /\ (x \in Ints => Wrap(x) = x)
<1> SUFFICES ASSUME NEW x \in Int PROVE Wrap(x) \in Ints /\ (x \in Ints => Wrap(x) = x)
  OBVIOUS
<1> DEFINE d == 2 * IntLimit
           y == x + IntLimit
           r == y % d
<1>1. IntLimit \in Nat \ {0} /\ d \in Nat \ {0} /\ y \in Int
  BY LimitFact
<1>2. Wrap(x) = r - IntLimit
  BY DEF Wrap
<1>3. r \in 0..(d - 1)
  <2> HIDE DEF d, y
  <2> QED
    BY <1>1
<1>4. ASSUME x \in Ints PROVE r = y
  <2>1. y \in 0..(d - 1)
    BY <1>1, <1>4 DEF Ints
  <2>2. y = d * 0 + y
    BY <1>1
  <2> HIDE DEF d, y
  <2> QED
    BY <1>1, <2>1, <2>2, ModUnique
<1> HIDE DEF r
<1>5. Wrap(x) \in Ints
  BY <1>1, <1>2, <1>3 DEF Ints
<1> QED
  BY <1>1, <1>2, <1>4, <1>5

LEMMA AddFacts ==
    ASSUME NEW wr, NEW w \in Wallets(wr), NEW c \in Currencies \ {"gold"}, NEW n \in Nat
    PROVE  Add(w, c, n) \in Wallets(wr)
<1>1. w \in [Currencies -> Int] /\ Add(w, c, n) = [w EXCEPT ![c] = w[c] + n]
  BY DEF Add, Wallets
<1>2. w[c] + n \in Int /\ w[c] + n >= 0
  BY <1>1 DEF Wallets
<1> QED
  BY <1>1, <1>2 DEF Wallets, Currencies

LEMMA SpendFacts ==
    ASSUME NEW wr, NEW w \in Wallets(wr), NEW c \in Currencies, NEW n \in Nat, w[c] >= n
    PROVE  Spend(w, c, n) \in Wallets(wr)
<1>1. w \in [Currencies -> Int] /\ Spend(w, c, n) = [w EXCEPT ![c] = w[c] - n]
  BY DEF Spend, Wallets
<1>2. w[c] - n \in Int /\ w[c] - n >= 0 /\ w[c] - n <= w[c]
  BY <1>1
<1>3. c = "gold" => w[c] - n \in Ints
  <2>1. w["gold"] \in Ints
    BY DEF Wallets
  <2>2. ASSUME c = "gold" PROVE w[c] \in Int /\ w[c] \in Ints
    BY <1>1, <2>1, <2>2
  <2> QED
    BY <1>2, <2>2, IntsFacts
<1> QED
  BY <1>1, <1>2, <1>3 DEF Wallets, Currencies

(* Gold that is wrapped into an int is below zero only where it wrapped.   *)
LEMMA SetGoldFacts ==
    ASSUME NEW wr \in BOOLEAN, NEW w \in Wallets(wr), NEW n \in Int, NEW bad \in BOOLEAN,
           n < 0 \/ n \notin Ints => bad
    PROVE  SetGold(w, n) \in Wallets(wr \/ bad)
<1>1. w \in [Currencies -> Int] /\ SetGold(w, n) = [w EXCEPT !["gold"] = Wrap(n)] /\ "gold" \in Currencies
  BY DEF SetGold, Wallets, Currencies
<1>2. Wrap(n) \in Ints /\ (n \in Ints => Wrap(n) = n)
  BY WrapFacts
<1>3. Wrap(n) \in Int /\ (Wrap(n) < 0 => bad)
  BY <1>2, IntsFacts
<1>4. SetGold(w, n) \in [Currencies -> Int] /\ SetGold(w, n)["gold"] = Wrap(n)
      /\ \A c \in Currencies : c # "gold" => SetGold(w, n)[c] = w[c]
  BY <1>1, <1>3
<1>5. \A c \in Currencies : w[c] < 0 => c = "gold"
  BY DEF Wallets
<1> QED
  BY <1>2, <1>3, <1>4, <1>5 DEF Wallets

LEMMA NatTimes == ASSUME NEW a \in Nat, NEW b \in Nat PROVE a * b \in Nat
OBVIOUS

LEMMA GrantCardFacts ==
    ASSUME NEW wr, NEW w \in Wallets(wr), NEW r \in Rarities, NEW n \in Nat
    PROVE  GrantCard(w, r, n) \in Wallets(wr)
<1>1. DustValue[r] \in Nat
  BY EcoConstants
<1>2. n * DustValue[r] \in Nat /\ "card_dust" \in Currencies \ {"gold"}
  BY <1>1, NatTimes DEF Currencies
<1> QED
  BY <1>2, AddFacts DEF GrantCard

(* A draw ends below the rules when it starts there: the counter that      *)
(* reaches its rule is the one the draw resets.                            *)
LEMMA PityFacts ==
    ASSUME NEW pool \in Pools, NEW p \in [rare : Nat, epic : Nat], Below(pool, p), NEW rolled \in Rarities
    PROVE  LET c == Counted(p)
               r == PityRarity(pool, c, rolled)
           IN  r \in Rarities /\ Reset(c, r) \in [rare : Nat, epic : Nat] /\ Below(pool, Reset(c, r))
<1> DEFINE c == Counted(p)
           r == PityRarity(pool, c, rolled)
<1>1. RareEvery[pool] \in Nat \ {0} /\ EpicEvery[pool] \in Nat \ {0}
  BY EcoConstants
<1>2. /\ c = [rare |-> p.rare + 1, epic |-> p.epic + 1]
      /\ p.rare \in Nat /\ p.epic \in Nat
      /\ p.rare < RareEvery[pool] /\ p.epic < EpicEvery[pool]
  BY DEF Counted, Below
<1>3. c \in [rare : Nat, epic : Nat] /\ c.rare <= RareEvery[pool] /\ c.epic <= EpicEvery[pool]
  BY <1>1, <1>2
<1> HIDE DEF c
<1>4. /\ r \in Rarities
      /\ c.epic >= EpicEvery[pool] => r = 2
      /\ c.rare >= RareEvery[pool] => r >= 1
  BY <1>1, <1>3 DEF PityRarity, Rarities
<1> HIDE DEF r
<1>5. Reset(c, r) = [rare |-> IF r >= 1 THEN 0 ELSE c.rare, epic |-> IF r >= 2 THEN 0 ELSE c.epic]
  BY DEF Reset
<1>6. (IF r >= 1 THEN 0 ELSE c.rare) \in Nat /\ (IF r >= 2 THEN 0 ELSE c.epic) \in Nat
  BY <1>3, <1>4
<1>7. (IF r >= 1 THEN 0 ELSE c.rare) < RareEvery[pool] /\ (IF r >= 2 THEN 0 ELSE c.epic) < EpicEvery[pool]
  BY <1>1, <1>3, <1>4 DEF Rarities
<1>8. Reset(c, r) \in [rare : Nat, epic : Nat] /\ Below(pool, Reset(c, r))
  BY <1>5, <1>6, <1>7 DEF Below
<1> QED
  BY <1>4, <1>8 DEF c, r

LEMMA DrawFacts ==
    ASSUME NEW wr, NEW pool \in Pools, NEW b \in Bodies(wr), Below(pool, b.pity), NEW rolled \in Rarities,
           NEW pick, pool = "characters" => pick \in Picks
    PROVE  Draw(pool, b, rolled, pick) \in Bodies(wr) /\ Below(pool, Draw(pool, b, rolled, pick).pity)
<1> DEFINE c == Counted(b.pity)
           r == PityRarity(pool, c, rolled)
           p == Reset(c, r)
           after == [b EXCEPT !.pity = p]
<1>1. b.pity \in [rare : Nat, epic : Nat]
  BY DEF Bodies
<1>2. r \in Rarities /\ p \in [rare : Nat, epic : Nat] /\ Below(pool, p)
  BY <1>1, PityFacts
<1>3. Draw(pool, b, rolled, pick) =
         IF pool = "characters" THEN [after EXCEPT !.shots = @ \cup {pick[r]}]
                                ELSE [after EXCEPT !.wallet = GrantCard(@, r, 1)]
  BY DEF Draw
<1> HIDE DEF p, r
<1>4. after \in Bodies(wr) /\ after.pity = p /\ after.shots \in SUBSET Shots /\ after.wallet \in Wallets(wr)
  BY <1>2 DEF Bodies
<1> HIDE DEF after
<1>5. CASE pool = "characters"
  <2>1. pick[r] \in Shots
    BY <1>2, <1>5 DEF Picks
  <2>2. [after EXCEPT !.shots = @ \cup {pick[r]}] \in Bodies(wr) /\ [after EXCEPT !.shots = @ \cup {pick[r]}].pity = p
    BY <1>4, <2>1 DEF Bodies
  <2> QED
    BY <1>2, <1>3, <1>5, <2>2
<1>6. CASE pool # "characters"
  <2>1. GrantCard(after.wallet, r, 1) \in Wallets(wr)
    BY <1>2, <1>4, GrantCardFacts
  <2>2. [after EXCEPT !.wallet = GrantCard(@, r, 1)] \in Bodies(wr) /\ [after EXCEPT !.wallet = GrantCard(@, r, 1)].pity = p
    BY <1>4, <2>1 DEF Bodies
  <2> QED
    BY <1>2, <1>3, <1>6, <2>2
<1> QED
  BY <1>5, <1>6

(* The loop over the draws of an opening, as far as the n-th.              *)
DrawRun(n, after, pool, start, rolls, picks) ==
    after = [i \in 0..n |-> IF i = 0 THEN start ELSE Draw(pool, after[i - 1], rolls[i], picks[i])]

LEMMA DrawAllExists ==
    ASSUME NEW pool, NEW start, NEW rolls, NEW picks, NEW k \in Nat
    PROVE  \E after : DrawRun(k, after, pool, start, rolls, picks)
<1> DEFINE Run(n, after) == after = [i \in 0..n |->
              IF i = 0 THEN start ELSE Draw(pool, after[i - 1], rolls[i], picks[i])]
           T == {n \in Nat : ~\E after : Run(n, after)}
<1>1. ASSUME T # {} PROVE FALSE
  <2>1. PICK n \in T : \A y \in T : n <= y
    BY <1>1, LeastOf
  <2>2. n # 0
    <3>1. Run(0, [i \in 0..0 |-> start])
      OBVIOUS
    <3> QED
      BY <2>1, <3>1
  <2>3. n - 1 \in Nat /\ n - 1 \notin T
    <3>1. n \in Nat
      BY <2>1
    <3> HIDE DEF T
    <3> QED
      BY <2>1, <2>2, <3>1
  <2>4. PICK after : Run(n - 1, after)
    BY <2>3
  <2> DEFINE next == [i \in 0..n |-> IF i = n THEN Draw(pool, after[n - 1], rolls[n], picks[n]) ELSE after[i]]
  <2>5. \A i \in 0..(n - 1) : next[i] = after[i]
    BY <2>1
  <2>6. \A i \in 0..(n - 1) : after[i] = IF i = 0 THEN start ELSE Draw(pool, after[i - 1], rolls[i], picks[i])
    BY <2>3, <2>4
  <2>7. ASSUME NEW i \in 0..n
        PROVE  next[i] = IF i = 0 THEN start ELSE Draw(pool, next[i - 1], rolls[i], picks[i])
    <3>1. CASE i = n
      <4>1. next[n - 1] = after[n - 1]
        BY <2>2, <2>3, <2>5
      <4>2. next[n] = Draw(pool, after[n - 1], rolls[n], picks[n])
        BY <2>1
      <4> HIDE DEF next
      <4> QED
        BY <2>2, <3>1, <4>1, <4>2
    <3>2. CASE i # n
      <4>1. i \in 0..(n - 1) /\ (i # 0 => i - 1 \in 0..(n - 1))
        BY <2>1, <3>2
      <4> HIDE DEF next
      <4> QED
        BY <2>5, <2>6, <4>1
    <3> QED
      BY <3>1, <3>2
  <2>8. Run(n, next)
    <3>1. next = [i \in 0..n |-> next[i]]
      OBVIOUS
    <3> HIDE DEF next
    <3> QED
      BY <2>7, <3>1
  <2> QED
    BY <2>1, <2>8
<1> QED
  BY <1>1 DEF DrawRun

(* However many draws an opening makes, the counters stay below the rules. *)
LEMMA DrawAllFacts ==
    ASSUME NEW wr, NEW pool \in Pools, NEW start \in Bodies(wr), Below(pool, start.pity),
           NEW k \in Nat, NEW rolls \in [1..k -> Rarities], NEW picks,
           pool = "characters" => \A i \in 1..k : picks[i] \in Picks
    PROVE  DrawAll(pool, start, rolls, picks) \in Bodies(wr)
           /\ Below(pool, DrawAll(pool, start, rolls, picks).pity)
<1>0. rolls \in Seq(Rarities) /\ Len(rolls) = k
  OBVIOUS
<1> DEFINE after == CHOOSE f : DrawRun(Len(rolls), f, pool, start, rolls, picks)
<1>1. DrawRun(k, after, pool, start, rolls, picks)
  BY <1>0, DrawAllExists
<1>2. DrawAll(pool, start, rolls, picks) = after[Len(rolls)]
  BY DEF DrawAll, DrawRun
<1>3. /\ after[0] = start
      /\ \A i \in 1..k : after[i] = Draw(pool, after[i - 1], rolls[i], picks[i])
  <2> HIDE DEF after
  <2>1. 0 \in 0..k /\ \A i \in 1..k : i \in 0..k /\ i # 0
    OBVIOUS
  <2> QED
    BY <1>1, <2>1 DEF DrawRun
<1> HIDE DEF after
<1> DEFINE Good(i) == after[i] \in Bodies(wr) /\ Below(pool, after[i].pity)
           T == {i \in 0..k : ~Good(i)}
<1>4. Good(0)
  BY <1>3
<1>5. ASSUME NEW i \in 1..k, Good(i - 1) PROVE Good(i)
  <2>1. rolls[i] \in Rarities
    OBVIOUS
  <2> QED
    BY <1>3, <1>5, <2>1, DrawFacts
<1> HIDE DEF Good
<1>6. T = {}
  <2> SUFFICES ASSUME T # {} PROVE FALSE
    OBVIOUS
  <2>1. T \in SUBSET Nat
    OBVIOUS
  <2>2. PICK i \in T : \A y \in T : i <= y
    BY <2>1, LeastOf
  <2>3. i \in 1..k /\ i - 1 \in 0..k
    BY <1>4, <2>2
  <2>4. Good(i - 1)
    BY <2>2, <2>3
  <2> QED
    BY <1>5, <2>2, <2>3, <2>4
<1> QED
  BY <1>0, <1>2, <1>6 DEF Good

-----------------------------------------------------------------------------
(* Economy: the profile.                                                   *)

Claimed(cd) == {x \in 0..MaxDay : cd[x] # 0}

(* The next reward of the round is given by the number of days claimed,    *)
(* and no day after the last check-in is claimed.                          *)
RoundInv ==
    /\ lastDay <= day
    /\ \A x \in Claimed(claimedDays) : x <= lastDay
    /\ cycleDay = (Cardinality(Claimed(claimedDays)) % CycleDays) + 1

Receipts == {NoRequest} \cup ((DOMAIN Catalog) \X (1..MaxQuantity))

EcoTypes ==
    /\ wallet \in Wallets(wrapped)
    /\ chests \in Nat
    /\ level \in [Cards -> 1..MaxLevel]
    /\ shots \subseteq Shots
    /\ pity \in [Pools -> [rare : Nat, epic : Nat]]
    /\ receipts \in [Nonces -> Receipts]
    /\ bag \in Ints
    /\ wrapped \in BOOLEAN
    /\ decks \in [DeckIds -> {"none", "plain", "active"}]
    /\ activeDeck \in DeckIds
    /\ board \in [ClaimKinds -> {"closed", "open", "claimed"}]
    /\ claims \subseteq ClaimKinds
    /\ lastDay \in -1..MaxDay
    /\ cycleDay \in 1..CycleDays
    /\ streak \in Nat
    /\ claimedDays \in [0..MaxDay -> 0..CycleDays]
    /\ day \in 0..MaxDay
    /\ delivered \in [Nonces -> Nat]
    /\ paid \in [ClaimKinds -> Nat]
    /\ ops \in 0..MaxOps

EcoInv == EcoTypes /\ PityHolds /\ GrantedOnce /\ RoundInv

(* Steps that leave the shelf, the claims and the calendar alone.          *)
LEMMA SameRecords ==
    ASSUME GrantedOnce, RoundInv, UNCHANGED <<receipts, delivered, claims, paid, calendar>>
    PROVE  GrantedOnce' /\ RoundInv'
BY DEF GrantedOnce, RoundInv, calendar, Claimed

LEMMA SamePity == ASSUME PityHolds, pity' = pity PROVE PityHolds'
BY DEF PityHolds

LEMMA CountOpFacts == ASSUME ops \in 0..MaxOps, CountOp PROVE ops' \in 0..MaxOps
BY EcoConstants DEF CountOp

LEMMA GachaPullInv ==
    ASSUME EcoInv, NEW pool \in Pools, NEW count \in {1, TenCount}, GachaPull(pool, count)
    PROVE  EcoInv'
<1> DEFINE cost == IF count = TenCount THEN TenCost ELSE SingleCost
           start == [pity |-> pity[pool], shots |-> shots, wallet |-> Spend(wallet, "gems", cost)]
<1>1. count \in Nat /\ cost \in Nat /\ {"gems", "faith"} \subseteq Currencies \ {"gold"} /\ wallet \in Wallets(wrapped)
  <2>1. TenCount \in Nat /\ TenCost \in Nat /\ SingleCost \in Nat
    BY EcoConstants
  <2>2. count \in Nat
    BY <2>1
  <2>3. cost \in Nat
    BY <2>1
  <2>4. {"gems", "faith"} \subseteq Currencies \ {"gold"}
    BY DEF Currencies
  <2>5. wallet \in Wallets(wrapped)
    BY DEF EcoInv, EcoTypes
  <2> QED
    BY <2>2, <2>3, <2>4, <2>5
<1>2. /\ pool \in {"cards", "characters"} /\ wallet["gems"] >= cost
      /\ CountOp
      /\ UNCHANGED <<chests, level, shelf, binder, activity, calendar>>
  BY DEF GachaPull, Covers
<1>3. PICK rolls \in Rolls(count), picks \in [1..count -> IF pool = "characters" THEN Picks ELSE {<<>>}] :
         /\ pity' = [pity EXCEPT ![pool] = DrawAll(pool, start, rolls, picks).pity]
         /\ shots' = DrawAll(pool, start, rolls, picks).shots
         /\ wallet' = Add(DrawAll(pool, start, rolls, picks).wallet, "faith", count)
  BY DEF GachaPull
<1> DEFINE end == DrawAll(pool, start, rolls, picks)
<1>4. start \in Bodies(wrapped) /\ start.pity = pity[pool]
  <2>1. Spend(wallet, "gems", cost) \in Wallets(wrapped)
    BY <1>1, <1>2, SpendFacts
  <2>2. pity[pool] \in [rare : Nat, epic : Nat] /\ shots \in SUBSET Shots
    BY DEF EcoInv, EcoTypes
  <2> HIDE DEF cost
  <2> QED
    BY <2>1, <2>2 DEF Bodies
<1>5. Below(pool, start.pity)
  <2>1. Below(pool, pity[pool])
    BY DEF EcoInv, PityHolds, Below
  <2> QED
    BY <1>4, <2>1
<1> HIDE DEF start, cost
<1>6. rolls \in [1..count -> Rarities] /\ (pool = "characters" => \A i \in 1..count : picks[i] \in Picks)
  BY DEF Rolls
<1>7. end \in Bodies(wrapped) /\ Below(pool, end.pity)
  BY <1>1, <1>4, <1>5, <1>6, DrawAllFacts
<1>8. pity' = [pity EXCEPT ![pool] = end.pity] /\ shots' = end.shots /\ wallet' = Add(end.wallet, "faith", count)
  BY <1>3
<1> HIDE DEF end
<1>9. /\ end.pity \in [rare : Nat, epic : Nat] /\ end.shots \in SUBSET Shots /\ end.wallet \in Wallets(wrapped)
  BY <1>7 DEF Bodies
<1>10. wallet' \in Wallets(wrapped) /\ shots' \subseteq Shots /\ pity' \in [Pools -> [rare : Nat, epic : Nat]]
  BY <1>1, <1>8, <1>9, AddFacts DEF EcoInv, EcoTypes
<1>11. EcoTypes'
  <2>1. ops' \in 0..MaxOps
    BY <1>2, CountOpFacts DEF EcoInv, EcoTypes
  <2> QED
    BY <1>2, <1>10, <2>1 DEF EcoInv, EcoTypes, shelf, binder, activity, calendar
<1>12. PityHolds'
  <2>1. pity \in [Pools -> [rare : Nat, epic : Nat]]
    BY DEF EcoInv, EcoTypes
  <2> QED
    BY <1>7, <1>8, <2>1 DEF EcoInv, PityHolds, Below
<1>13. GrantedOnce' /\ RoundInv'
  BY <1>2, SameRecords DEF EcoInv, shelf, activity
<1> QED
  BY <1>11, <1>12, <1>13 DEF EcoInv

LEMMA ExchangeFaithInv ==
    ASSUME EcoInv, NEW s \in Shots, ExchangeFaith(s)
    PROVE  EcoInv'
<1>1. /\ wallet["faith"] >= FaithCost /\ wallet' = Spend(wallet, "faith", FaithCost)
      /\ shots' = shots \cup {s} /\ CountOp
      /\ UNCHANGED <<chests, level, pity, shelf, binder, activity, calendar>>
  BY DEF ExchangeFaith, Covers
<1>2. wallet \in Wallets(wrapped) /\ "faith" \in Currencies /\ FaithCost \in Nat
  BY EcoConstants DEF EcoInv, EcoTypes, Currencies
<1>3. wallet' \in Wallets(wrapped) /\ ops' \in 0..MaxOps
  BY <1>1, <1>2, SpendFacts, CountOpFacts DEF EcoInv, EcoTypes
<1>4. EcoTypes'
  BY <1>1, <1>3 DEF EcoInv, EcoTypes, shelf, binder, activity, calendar
<1> QED
  BY <1>1, <1>4, SameRecords, SamePity DEF EcoInv, shelf, activity

LEMMA OpenChestInv ==
    ASSUME EcoInv, NEW count \in 1..MaxChestOpen, OpenChest(count)
    PROVE  EcoInv'
<1> DEFINE start == [pity |-> pity["chest"], shots |-> shots, wallet |-> Spend(wallet, "chest_keys", count)]
           picks == [i \in 1..count |-> <<>>]
<1>1. count \in Nat /\ "chest_keys" \in Currencies /\ wallet \in Wallets(wrapped) /\ "chest" \in Pools
  <2>1. count \in Nat
    BY EcoConstants
  <2>2. "chest_keys" \in Currencies /\ "chest" \in Pools
    BY DEF Currencies, Pools
  <2>3. wallet \in Wallets(wrapped)
    BY DEF EcoInv, EcoTypes
  <2> QED
    BY <2>1, <2>2, <2>3
<1>2. /\ count <= chests /\ wallet["chest_keys"] >= count
      /\ chests' = chests - count /\ CountOp
      /\ UNCHANGED <<level, shots, shelf, binder, activity, calendar>>
  BY DEF OpenChest, Covers
<1>3. PICK rolls \in ChestRolls(count) :
         /\ pity' = [pity EXCEPT !["chest"] = DrawAll("chest", start, rolls, picks).pity]
         /\ wallet' = DrawAll("chest", start, rolls, picks).wallet
  BY DEF OpenChest
<1> DEFINE end == DrawAll("chest", start, rolls, picks)
<1>4. start \in Bodies(wrapped) /\ start.pity = pity["chest"]
  <2>1. Spend(wallet, "chest_keys", count) \in Wallets(wrapped)
    BY <1>1, <1>2, SpendFacts
  <2>2. pity["chest"] \in [rare : Nat, epic : Nat] /\ shots \in SUBSET Shots
    BY <1>1 DEF EcoInv, EcoTypes
  <2> QED
    BY <2>1, <2>2 DEF Bodies
<1>5. Below("chest", start.pity)
  <2>1. Below("chest", pity["chest"])
    BY <1>1 DEF EcoInv, PityHolds, Below
  <2> QED
    BY <1>4, <2>1
<1> HIDE DEF start, picks
<1>6. rolls \in [1..count -> Rarities]
  BY DEF ChestRolls
<1>7. end \in Bodies(wrapped) /\ Below("chest", end.pity)
  BY <1>1, <1>4, <1>5, <1>6, DrawAllFacts
<1>8. pity' = [pity EXCEPT !["chest"] = end.pity] /\ wallet' = end.wallet
  BY <1>3
<1> HIDE DEF end
<1>9. end.pity \in [rare : Nat, epic : Nat] /\ end.wallet \in Wallets(wrapped)
  BY <1>7 DEF Bodies
<1>10. pity \in [Pools -> [rare : Nat, epic : Nat]] /\ chests \in Nat
  BY DEF EcoInv, EcoTypes
<1>11. wallet' \in Wallets(wrapped) /\ chests' \in Nat /\ pity' \in [Pools -> [rare : Nat, epic : Nat]] /\ ops' \in 0..MaxOps
  <2>1. ops' \in 0..MaxOps
    BY <1>2, CountOpFacts DEF EcoInv, EcoTypes
  <2>2. chests' \in Nat
    BY <1>1, <1>2, <1>10
  <2>3. pity' \in [Pools -> [rare : Nat, epic : Nat]]
    BY <1>8, <1>9, <1>10
  <2> QED
    BY <1>8, <1>9, <2>1, <2>2, <2>3
<1>12. EcoTypes'
  BY <1>2, <1>11 DEF EcoInv, EcoTypes, shelf, binder, activity, calendar
<1>13. PityHolds'
  BY <1>7, <1>8, <1>10 DEF EcoInv, PityHolds, Below
<1>14. GrantedOnce' /\ RoundInv'
  BY <1>2, SameRecords DEF EcoInv, shelf, activity
<1> QED
  BY <1>12, <1>13, <1>14 DEF EcoInv

LEMMA UpgradeCardInv ==
    ASSUME EcoInv, NEW c \in Cards, UpgradeCard(c)
    PROVE  EcoInv'
<1> DEFINE cost == DustValue[CardRarity[c]] * level[c]
<1>1. /\ level[c] < MaxLevel /\ wallet["card_dust"] >= cost /\ wallet' = Spend(wallet, "card_dust", cost)
      /\ level' = [level EXCEPT ![c] = @ + 1] /\ CountOp
      /\ UNCHANGED <<chests, shots, pity, shelf, binder, activity, calendar>>
  BY DEF UpgradeCard, Covers
<1>2. level[c] \in 1..MaxLevel /\ wallet \in Wallets(wrapped) /\ "card_dust" \in Currencies /\ MaxLevel \in Nat
  BY EcoConstants DEF EcoInv, EcoTypes, Currencies
<1>3. cost \in Nat
  <2>1. DustValue[CardRarity[c]] \in Nat /\ level[c] \in Nat
    BY <1>2, EcoConstants
  <2> QED
    BY <2>1, NatTimes
<1> HIDE DEF cost
<1>4. wallet' \in Wallets(wrapped) /\ ops' \in 0..MaxOps
  BY <1>1, <1>2, <1>3, SpendFacts, CountOpFacts DEF EcoInv, EcoTypes
<1>5. level' \in [Cards -> 1..MaxLevel]
  <2>1. level[c] + 1 \in 1..MaxLevel /\ level \in [Cards -> 1..MaxLevel]
    BY <1>1, <1>2 DEF EcoInv, EcoTypes
  <2> QED
    BY <1>1, <2>1
<1>6. EcoTypes'
  BY <1>1, <1>4, <1>5 DEF EcoInv, EcoTypes, shelf, binder, activity, calendar
<1> QED
  BY <1>1, <1>6, SameRecords, SamePity DEF EcoInv, shelf, activity

(* A purchase: the record of its nonce is new, so the goods go out once.   *)
LEMMA PurchaseShopProductInv ==
    ASSUME EcoInv, NEW n \in Nonces, NEW product \in DOMAIN Catalog, NEW q \in 1..MaxQuantity,
           PurchaseShopProduct(n, product, q)
    PROVE  EcoInv'
<1> DEFINE item == Catalog[product]
           cost == item.amount * q
           w == Spend(wallet, item.costKind, cost)
<1>1. /\ receipts[n] = NoRequest /\ wallet[item.costKind] >= cost
      /\ wallet' = Grant(w, item, item.qty * q)
      /\ chests' = IF item.kind = "chest" THEN chests + item.qty * q ELSE chests
      /\ receipts' = [receipts EXCEPT ![n] = <<product, q>>]
      /\ delivered' = [delivered EXCEPT ![n] = @ + 1]
      /\ CountOp
      /\ UNCHANGED <<level, shots, pity, bag, wrapped, binder, activity, calendar>>
  BY DEF PurchaseShopProduct, Covers, Recorded, Request
<1>2. /\ item.costKind \in Currencies /\ item.amount \in Nat /\ item.qty \in Nat /\ q \in Nat
      /\ "gems" \in Currencies \ {"gold"}
  <2>1. item \in [kind : {"card", "chest", "bundle"}, costKind : {"gold", "gems"},
                  amount : Nat \ {0}, qty : Nat \ {0}]
    BY EcoConstants
  <2> HIDE DEF item
  <2>2. item.costKind \in {"gold", "gems"} /\ item.amount \in Nat /\ item.qty \in Nat
    BY <2>1
  <2>3. q \in Nat
    BY EcoConstants
  <2>4. {"gold", "gems"} \subseteq Currencies /\ "gems" # "gold"
    BY DEF Currencies
  <2> QED
    BY <2>2, <2>3, <2>4
<1>3. cost \in Nat /\ item.qty * q \in Nat
  BY <1>2, NatTimes
<1> HIDE DEF item
<1>4. w \in Wallets(wrapped)
  BY <1>1, <1>2, <1>3, SpendFacts DEF EcoInv, EcoTypes
<1> HIDE DEF cost, w
<1>5. wallet' \in Wallets(wrapped)
  <2> DEFINE m == item.qty * q
  <2>1. m \in Nat /\ 0 \in Rarities /\ wallet' = Grant(w, item, m)
    BY <1>1, <1>3 DEF Rarities
  <2> HIDE DEF m
  <2>2. GrantCard(w, 0, m) \in Wallets(wrapped)
    BY <1>4, <2>1, GrantCardFacts
  <2>3. Add(w, "gems", m) \in Wallets(wrapped)
    BY <1>2, <1>4, <2>1, AddFacts
  <2> QED
    BY <1>4, <2>1, <2>2, <2>3 DEF Grant
<1>6. chests' \in Nat /\ ops' \in 0..MaxOps
  BY <1>1, <1>3, CountOpFacts DEF EcoInv, EcoTypes
<1>7. <<product, q>> \in Receipts /\ <<product, q>> # NoRequest
  <2>1. <<product, q>> \in (DOMAIN Catalog) \X (1..MaxQuantity)
    OBVIOUS
  <2>2. Len(<<product, q>>) = 2 /\ Len(<<>>) = 0
    OBVIOUS
  <2>3. <<product, q>> # NoRequest
    BY <2>2 DEF NoRequest
  <2> QED
    BY <2>1, <2>3 DEF Receipts
<1>8. receipts \in [Nonces -> Receipts] /\ delivered \in [Nonces -> Nat]
  BY DEF EcoInv, EcoTypes
<1>9. receipts' \in [Nonces -> Receipts] /\ delivered' \in [Nonces -> Nat]
  BY <1>1, <1>7, <1>8
<1>10. EcoTypes'
  BY <1>1, <1>5, <1>6, <1>9 DEF EcoInv, EcoTypes, binder, activity, calendar
<1>11. \A k \in Nonces : delivered'[k] = (IF receipts'[k] = NoRequest THEN 0 ELSE 1)
  <2>1. \A k \in Nonces : delivered[k] = (IF receipts[k] = NoRequest THEN 0 ELSE 1)
    BY DEF EcoInv, GrantedOnce
  <2>2. delivered'[n] = 1 /\ receipts'[n] # NoRequest
    BY <1>1, <1>7, <1>8, <2>1
  <2>3. \A k \in Nonces : k # n => delivered'[k] = delivered[k] /\ receipts'[k] = receipts[k]
    BY <1>1, <1>8
  <2> QED
    BY <2>1, <2>2, <2>3
<1>12. GrantedOnce'
  BY <1>1, <1>11 DEF EcoInv, GrantedOnce, activity, calendar
<1>13. RoundInv'
  BY <1>1 DEF EcoInv, RoundInv, calendar, Claimed
<1> QED
  BY <1>1, <1>10, <1>12, <1>13, SamePity DEF EcoInv

LEMMA IntTimes == ASSUME NEW a \in Int, NEW b \in Int PROVE a * b \in Int
OBVIOUS

LEMMA PurchaseShopItemInv ==
    ASSUME EcoInv, NEW asked \in Counts, PurchaseShopItem(asked)
    PROVE  EcoInv'
<1> DEFINE count == IF asked <= 0 THEN 1 ELSE asked
           price == LegacyPrice * count
           cost == Wrap(price)
           lot == LegacyGrant * count
           bad == price \notin Ints
<1>1. /\ wallet["gold"] >= cost /\ wallet' = SetGold(wallet, wallet["gold"] - cost)
      /\ bag' = Wrap(bag + Wrap(lot)) /\ CountOp
      /\ wrapped' = (wrapped \/ bad)
      /\ UNCHANGED <<chests, level, shots, pity, receipts, delivered, binder, activity, calendar>>
  BY DEF PurchaseShopItem, Covers
<1>2. /\ wallet \in Wallets(wrapped) /\ wrapped \in BOOLEAN /\ bag \in Ints /\ wallet["gold"] \in Ints
      /\ LegacyPrice \in Nat \ {0} /\ LegacyGrant \in Nat \ {0} /\ IntLimit \in Nat \ {0}
  BY EcoConstants DEF EcoInv, EcoTypes, Wallets
<1>3. count \in Nat \ {0}
  <2>1. asked \in Int
    BY <1>2, EcoConstants DEF Ints
  <2> QED
    BY <2>1
<1> HIDE DEF count
<1>4. price \in Nat /\ price >= 0 /\ lot \in Int
  BY <1>2, <1>3, NatTimes
<1> HIDE DEF price, lot
<1>5. cost \in Ints /\ (~bad => cost = price)
  BY <1>4, WrapFacts
<1>6. wallet["gold"] - cost \in Int /\ bad \in BOOLEAN
  BY <1>2, <1>5 DEF Ints
<1>7. ASSUME ~bad PROVE wallet["gold"] - cost >= 0 /\ wallet["gold"] - cost \in Ints
  <2>1. cost = price
    BY <1>5, <1>7
  <2> HIDE DEF cost, bad
  <2> QED
    BY <1>1, <1>2, <1>4, <2>1 DEF Ints
<1> HIDE DEF bad, cost
<1>8. wallet' \in Wallets(wrapped')
  <2> DEFINE n == wallet["gold"] - cost
  <2>1. n \in Int /\ (n < 0 \/ n \notin Ints => bad)
    BY <1>6, <1>7
  <2>2. wallet' = SetGold(wallet, n)
    BY <1>1
  <2> HIDE DEF n
  <2>3. SetGold(wallet, n) \in Wallets(wrapped \/ bad)
    BY <1>2, <1>6, <2>1, SetGoldFacts
  <2> QED
    BY <1>1, <2>2, <2>3
<1>9. bag' \in Ints
  <2>1. Wrap(lot) \in Ints
    BY <1>4, WrapFacts
  <2>2. bag + Wrap(lot) \in Int
    BY <1>2, <2>1 DEF Ints
  <2> QED
    BY <1>1, <2>2, WrapFacts
<1>10. ops' \in 0..MaxOps /\ wrapped' \in BOOLEAN
  BY <1>1, <1>2, <1>6, CountOpFacts DEF EcoInv, EcoTypes
<1>11. EcoTypes'
  BY <1>1, <1>8, <1>9, <1>10 DEF EcoInv, EcoTypes, binder, activity, calendar
<1> QED
  BY <1>1, <1>11, SameRecords, SamePity DEF EcoInv, activity

LEMMA SaveDeckInv ==
    ASSUME EcoInv, NEW d \in DeckIds, NEW active \in BOOLEAN, SaveDeck(d, active)
    PROVE  EcoInv'
<1>1. /\ decks' = SavedDecks(d, active) /\ activeDeck' \in {d, activeDeck} /\ CountOp
      /\ UNCHANGED <<goods, shelf, activity, calendar>>
  BY DEF SaveDeck
<1>2. decks' \in [DeckIds -> {"none", "plain", "active"}] /\ ops' \in 0..MaxOps
  BY <1>1, CountOpFacts DEF SavedDecks, EcoInv, EcoTypes
<1>3. EcoTypes'
  BY <1>1, <1>2 DEF EcoInv, EcoTypes, goods, shelf, activity, calendar
<1> QED
  BY <1>1, <1>3, SameRecords, SamePity DEF EcoInv, goods, shelf, activity

LEMMA SettleRewardsInv ==
    ASSUME EcoInv, NEW win \in BOOLEAN, NEW better \in BOOLEAN, NEW graze \in 0..1,
           SettleRewards(win, graze, better)
    PROVE  EcoInv'
<1> DEFINE keys == IF win THEN 1 ELSE 0
<1>1. /\ wallet' = Add(Add(Add(wallet, "points", 1), "chest_keys", keys), "card_dust", graze)
      /\ board' = Progressed(win, better) /\ CountOp
      /\ UNCHANGED <<chests, level, shots, pity, shelf, binder, claims, paid, calendar>>
  BY DEF SettleRewards
<1>2. wallet \in Wallets(wrapped) /\ {"points", "chest_keys", "card_dust"} \subseteq Currencies \ {"gold"} /\ keys \in Nat /\ graze \in Nat
  BY DEF EcoInv, EcoTypes, Currencies
<1> HIDE DEF keys
<1>3. wallet' \in Wallets(wrapped)
  <2>1. Add(wallet, "points", 1) \in Wallets(wrapped)
    BY <1>2, AddFacts
  <2>2. Add(Add(wallet, "points", 1), "chest_keys", keys) \in Wallets(wrapped)
    BY <1>2, <2>1, AddFacts
  <2> QED
    BY <1>1, <1>2, <2>2, AddFacts
<1>4. board' \in [ClaimKinds -> {"closed", "open", "claimed"}] /\ ops' \in 0..MaxOps
  BY <1>1, CountOpFacts DEF Progressed, EcoInv, EcoTypes, ClaimKinds
<1>5. EcoTypes'
  BY <1>1, <1>3, <1>4 DEF EcoInv, EcoTypes, shelf, binder, calendar
<1> QED
  BY <1>1, <1>5, SameRecords, SamePity DEF EcoInv, shelf

(* A claim that is paid is in claims from then on.                         *)
LEMMA ClaimActivityInv ==
    ASSUME EcoInv, NEW k \in ClaimKinds, ClaimActivity(k)
    PROVE  EcoInv'
<1> DEFINE keys == IF k = "leaderboard" THEN 1 ELSE 0
<1>1. /\ k \notin claims
      /\ wallet' = Add(Add(wallet, "points", 1), "chest_keys", keys)
      /\ board' = [board EXCEPT ![k] = "claimed"]
      /\ claims' = claims \cup {k}
      /\ paid' = [paid EXCEPT ![k] = @ + 1]
      /\ CountOp
      /\ UNCHANGED <<chests, level, shots, pity, shelf, binder, calendar>>
  BY DEF ClaimActivity, SettledClaim, ClaimReward
<1>2. wallet \in Wallets(wrapped) /\ {"points", "chest_keys"} \subseteq Currencies \ {"gold"} /\ keys \in Nat
  BY DEF EcoInv, EcoTypes, Currencies
<1> HIDE DEF keys
<1>3. wallet' \in Wallets(wrapped) /\ ops' \in 0..MaxOps
  <2>1. Add(wallet, "points", 1) \in Wallets(wrapped)
    BY <1>2, AddFacts
  <2> QED
    BY <1>1, <1>2, <2>1, AddFacts, CountOpFacts DEF EcoInv, EcoTypes
<1>4. paid \in [ClaimKinds -> Nat] /\ board \in [ClaimKinds -> {"closed", "open", "claimed"}] /\ claims \subseteq ClaimKinds
  BY DEF EcoInv, EcoTypes
<1>5. paid' \in [ClaimKinds -> Nat] /\ board' \in [ClaimKinds -> {"closed", "open", "claimed"}] /\ claims' \subseteq ClaimKinds
  BY <1>1, <1>4
<1>6. EcoTypes'
  BY <1>1, <1>3, <1>5 DEF EcoInv, EcoTypes, shelf, binder, calendar
<1>7. \A c \in ClaimKinds : paid'[c] = (IF c \in claims' THEN 1 ELSE 0)
  <2>1. \A c \in ClaimKinds : paid[c] = (IF c \in claims THEN 1 ELSE 0)
    BY DEF EcoInv, GrantedOnce
  <2> QED
    BY <1>1, <1>4, <2>1
<1>8. GrantedOnce'
  BY <1>1, <1>7 DEF EcoInv, GrantedOnce, shelf, calendar
<1>9. RoundInv'
  BY <1>1 DEF EcoInv, RoundInv, calendar, Claimed
<1> QED
  BY <1>1, <1>6, <1>8, <1>9, SamePity DEF EcoInv

(* A check-in: the day is claimed for the first time, and all claimed days *)
(* are before it.                                                          *)
LEMMA ClaimCheckinInv ==
    ASSUME EcoInv, ClaimCheckin
    PROVE  EcoInv'
<1> DEFINE d == NextCheckinDay
           ticket == IF d \in TicketDays THEN 1 ELSE 0
           n == Cardinality(Claimed(claimedDays))
<1>1. cycleDay \in 1..CycleDays /\ CycleDays \in Nat \ {0} /\ day \in 0..MaxDay /\ MaxDay \in Nat /\ streak \in Nat
      /\ lastDay \in -1..MaxDay /\ claimedDays \in [0..MaxDay -> 0..CycleDays]
  BY EcoConstants DEF EcoInv, EcoTypes
<1>2. d = cycleDay
  BY <1>1 DEF NextCheckinDay
<1>3. /\ lastDay # day
      /\ wallet' = Add(SetGold(wallet, wallet["gold"] + CheckinGold[d]), "ticket", ticket)
      /\ wrapped' = (wrapped \/ wallet["gold"] + CheckinGold[d] \notin Ints)
      /\ streak' \in {streak + 1, 1}
      /\ lastDay' = day
      /\ claimedDays' = [claimedDays EXCEPT ![day] = d]
      /\ cycleDay' = Advance(d)
      /\ CountOp
      /\ UNCHANGED <<chests, level, shots, pity, receipts, delivered, bag, binder, activity, day>>
  BY DEF ClaimCheckin, CheckinReward
<1>4. /\ ticket \in Nat /\ CheckinGold[d] \in Nat /\ "ticket" \in Currencies \ {"gold"}
      /\ wallet \in Wallets(wrapped) /\ wrapped \in BOOLEAN
  BY <1>1, <1>2, EcoConstants DEF Currencies, EcoInv, EcoTypes
<1> HIDE DEF ticket, d
<1>5. wallet' \in Wallets(wrapped') /\ ops' \in 0..MaxOps /\ wrapped' \in BOOLEAN
  <2> DEFINE gold == wallet["gold"] + CheckinGold[d]
             bad == gold \notin Ints
  <2>1. wallet["gold"] \in Ints /\ "gold" \in Currencies /\ (wallet["gold"] < 0 => wrapped)
    BY <1>4 DEF Wallets, Currencies
  <2>2. gold \in Int /\ bad \in BOOLEAN
    <3>1. wallet["gold"] \in Int
      BY <2>1, IntsFacts
    <3>2. gold \in Int
      BY <1>4, <3>1
    <3> QED
      BY <3>2
  <2>3. gold < 0 => wrapped
    <3>1. wallet["gold"] \in Int
      BY <2>1, IntsFacts
    <3>2. gold < 0 => wallet["gold"] < 0
      BY <1>4, <3>1
    <3> QED
      BY <2>1, <3>2
  <2>4. wrapped' = (wrapped \/ bad) /\ wallet' = Add(SetGold(wallet, gold), "ticket", ticket)
    BY <1>3
  <2> HIDE DEF gold, bad
  <2>5. gold < 0 \/ gold \notin Ints => wrapped'
    BY <2>3, <2>4 DEF bad
  <2>6. wrapped' \in BOOLEAN /\ (wrapped \/ wrapped') = wrapped'
    BY <1>4, <2>2, <2>4
  <2>7. SetGold(wallet, gold) \in Wallets(wrapped \/ wrapped')
    BY <1>4, <2>2, <2>5, <2>6, SetGoldFacts
  <2>8. SetGold(wallet, gold) \in Wallets(wrapped')
    BY <2>6, <2>7
  <2>9. wallet' \in Wallets(wrapped')
    BY <1>4, <2>4, <2>8, AddFacts
  <2> QED
    BY <1>3, <2>6, <2>9, CountOpFacts DEF EcoInv, EcoTypes
<1>6. cycleDay' \in 1..CycleDays /\ streak' \in Nat /\ lastDay' \in -1..MaxDay
  BY <1>1, <1>2, <1>3 DEF Advance
<1>7. claimedDays' \in [0..MaxDay -> 0..CycleDays]
  <2>1. d \in 0..CycleDays
    BY <1>1, <1>2
  <2> QED
    BY <1>1, <1>3, <2>1
<1>8. EcoTypes'
  BY <1>3, <1>5, <1>6, <1>7 DEF EcoInv, EcoTypes, binder, activity
<1>9. \A x \in Claimed(claimedDays) : x < day
  <2>1. lastDay < day
    BY <1>1, <1>3 DEF EcoInv, RoundInv
  <2>2. \A x \in Claimed(claimedDays) : x <= lastDay /\ x \in Int
    BY <1>1 DEF EcoInv, RoundInv, Claimed
  <2> QED
    BY <1>1, <2>1, <2>2
<1>10. Claimed(claimedDays') = Claimed(claimedDays) \cup {day} /\ day \notin Claimed(claimedDays)
  <2>1. d # 0
    BY <1>1, <1>2
  <2>2. claimedDays'[day] = d /\ \A x \in 0..MaxDay : x # day => claimedDays'[x] = claimedDays[x]
    BY <1>1, <1>3
  <2>3. day \notin Claimed(claimedDays)
    BY <1>1, <1>9
  <2> QED
    BY <1>1, <2>1, <2>2, <2>3 DEF Claimed
<1>11. IsFiniteSet(Claimed(claimedDays)) /\ n \in Nat
  <2>1. IsFiniteSet(0..MaxDay)
    BY <1>1, FS_Interval
  <2>2. Claimed(claimedDays) \subseteq 0..MaxDay
    BY DEF Claimed
  <2>3. IsFiniteSet(Claimed(claimedDays))
    BY <2>1, <2>2, FS_Subset
  <2> QED
    BY <2>3, FS_CardinalityType
<1>12. Cardinality(Claimed(claimedDays')) = n + 1
  BY <1>10, <1>11, FS_AddElement
<1> HIDE DEF n
<1>13. d = (n % CycleDays) + 1
  BY <1>2 DEF EcoInv, RoundInv, n
<1>14. cycleDay' = ((n + 1) % CycleDays) + 1
  <2>1. /\ n % CycleDays \in 0..(CycleDays - 1)
        /\ (n + 1) % CycleDays = IF n % CycleDays = CycleDays - 1 THEN 0 ELSE (n % CycleDays) + 1
    BY <1>1, <1>11, ModNext
  <2> DEFINE m == n % CycleDays
             m1 == (n + 1) % CycleDays
  <2>2. m \in 0..(CycleDays - 1) /\ m1 = (IF m = CycleDays - 1 THEN 0 ELSE m + 1) /\ d = m + 1
    BY <1>13, <2>1
  <2> HIDE DEF m, m1
  <2>3. cycleDay' = m1 + 1
    BY <1>1, <1>3, <2>2 DEF Advance
  <2> QED
    BY <2>3 DEF m1
<1>15. RoundInv'
  <2>1. \A x \in Claimed(claimedDays') : x <= day
    <3>1. \A x \in Claimed(claimedDays) : x <= day
      <4>1. \A x \in Claimed(claimedDays) : x \in Int
        BY DEF Claimed
      <4> QED
        BY <1>1, <1>9, <4>1
    <3>2. day <= day
      BY <1>1
    <3> QED
      BY <1>10, <3>1, <3>2
  <2>2. lastDay' <= day'
    BY <1>1, <1>3
  <2>3. cycleDay' = (Cardinality(Claimed(claimedDays')) % CycleDays) + 1
    BY <1>12, <1>14
  <2> QED
    BY <1>3, <2>1, <2>2, <2>3 DEF RoundInv
<1>16. ASSUME NEW x \in 0..MaxDay, claimedDays'[x] # 0
       PROVE  claimedDays'[x] = (Cardinality({y \in 0..(x - 1) : claimedDays'[y] # 0}) % CycleDays) + 1
  <2>1. x \in Claimed(claimedDays')
    BY <1>16 DEF Claimed
  <2>2. CASE x = day
    <3>1. claimedDays'[x] = d
      BY <1>1, <1>3, <2>2
    <3>2. {y \in 0..(x - 1) : claimedDays'[y] # 0} = Claimed(claimedDays)
      <4>1. \A y \in 0..(x - 1) : y \in 0..MaxDay /\ y # day
        BY <1>1, <2>2
      <4>2. \A y \in 0..MaxDay : y # day => claimedDays'[y] = claimedDays[y]
        BY <1>1, <1>3
      <4>3. \A y \in Claimed(claimedDays) : y \in 0..MaxDay /\ claimedDays[y] # 0 /\ y \in 0..(x - 1) /\ y # day
        BY <1>1, <1>9, <2>2 DEF Claimed
      <4> QED
        BY <4>1, <4>2, <4>3 DEF Claimed
    <3> QED
      BY <1>13, <3>1, <3>2 DEF n
  <2>3. CASE x # day
    <3>1. x \in Claimed(claimedDays) /\ x < day
      BY <1>9, <1>10, <2>1, <2>3
    <3>2. claimedDays'[x] = claimedDays[x] /\ \A y \in 0..(x - 1) : claimedDays'[y] = claimedDays[y]
      <4>1. \A y \in 0..(x - 1) : y \in 0..MaxDay /\ y # day
        BY <1>1, <3>1
      <4> QED
        BY <1>1, <1>3, <2>3, <4>1
    <3>3. {y \in 0..(x - 1) : claimedDays'[y] # 0} = {y \in 0..(x - 1) : claimedDays[y] # 0}
      BY <3>2
    <3>4. claimedDays[x] = (Cardinality({y \in 0..(x - 1) : claimedDays[y] # 0}) % CycleDays) + 1
      BY <1>16, <3>2 DEF EcoInv, GrantedOnce
    <3> QED
      BY <3>2, <3>3, <3>4
  <2> QED
    BY <2>2, <2>3
<1>17. GrantedOnce'
  BY <1>3, <1>16 DEF EcoInv, GrantedOnce, activity
<1> QED
  BY <1>3, <1>8, <1>15, <1>17, SamePity DEF EcoInv

LEMMA NextDayInv ==
    ASSUME EcoInv, NextDay
    PROVE  EcoInv'
<1>1. /\ day < MaxDay /\ day' = day + 1
      /\ UNCHANGED <<goods, shelf, binder, activity, lastDay, cycleDay, streak, claimedDays, ops>>
  BY DEF NextDay
<1>2. day \in 0..MaxDay /\ MaxDay \in Nat /\ lastDay \in -1..MaxDay
  BY EcoConstants DEF EcoInv, EcoTypes
<1>3. day' \in 0..MaxDay
  BY <1>1, <1>2
<1>4. EcoTypes'
  BY <1>1, <1>3 DEF EcoInv, EcoTypes, goods, shelf, binder, activity
<1>5. GrantedOnce'
  BY <1>1 DEF EcoInv, GrantedOnce, shelf, activity
<1>6. RoundInv'
  <2>1. lastDay' <= day'
    BY <1>1, <1>2 DEF EcoInv, RoundInv
  <2> QED
    BY <1>1, <2>1 DEF EcoInv, RoundInv, Claimed
<1> QED
  BY <1>1, <1>4, <1>5, <1>6, SamePity DEF EcoInv, goods

LEMMA EcoInitInv == EcoInit => EcoInv
<1> SUFFICES ASSUME EcoInit PROVE EcoInv
  OBVIOUS
<1>1. EcoTypes
  <2>1. wallet \in Wallets(wrapped)
    BY EcoConstants DEF EcoInit, Wallets
  <2>2. bag \in Ints /\ wrapped \in BOOLEAN
    BY IntsFacts DEF EcoInit
  <2> QED
    BY <2>1, <2>2, EcoConstants DEF EcoInit, GachaStart, EcoTypes, Receipts
<1>2. PityHolds
  BY EcoConstants DEF EcoInit, GachaStart, PityHolds
<1>3. GrantedOnce
  BY DEF EcoInit, GrantedOnce
<1>4. RoundInv
  <2>1. Claimed(claimedDays) = {}
    BY DEF EcoInit, Claimed
  <2>2. Cardinality(Claimed(claimedDays)) = 0
    BY <2>1, FS_EmptySet
  <2>3. 0 % CycleDays = 0
    BY EcoConstants
  <2>4. lastDay = -1 /\ day = 0 /\ cycleDay = 1
    BY DEF EcoInit
  <2>5. lastDay <= day
    BY <2>4
  <2>6. \A x \in Claimed(claimedDays) : x <= lastDay
    BY <2>1
  <2>7. cycleDay = (Cardinality(Claimed(claimedDays)) % CycleDays) + 1
    BY <2>2, <2>3, <2>4
  <2> QED
    BY <2>5, <2>6, <2>7 DEF RoundInv
<1> QED
  BY <1>1, <1>2, <1>3, <1>4 DEF EcoInv

LEMMA EcoNextInv == EcoInv /\ [EcoNext]_ecoVars => EcoInv'
<1> SUFFICES ASSUME EcoInv, [EcoNext]_ecoVars PROVE EcoInv'
  OBVIOUS
<1>1. CASE Spending
  BY <1>1, GachaPullInv, ExchangeFaithInv, OpenChestInv, UpgradeCardInv, PurchaseShopProductInv, PurchaseShopItemInv
     DEF Spending
<1>2. CASE Earning
  BY <1>2, SettleRewardsInv, ClaimActivityInv, ClaimCheckinInv DEF Earning
<1>3. CASE \E d \in DeckIds, active \in BOOLEAN : SaveDeck(d, active)
  BY <1>3, SaveDeckInv
<1>4. CASE NextDay
  BY <1>4, NextDayInv
<1>5. CASE UNCHANGED ecoVars
  <2>1. EcoTypes'
    BY <1>5 DEF ecoVars, goods, shelf, binder, activity, calendar, EcoInv, EcoTypes
  <2> QED
    BY <1>5, <2>1, SameRecords, SamePity DEF ecoVars, goods, shelf, activity, EcoInv
<1> QED
  BY <1>1, <1>2, <1>3, <1>4, <1>5 DEF EcoNext

(* EcoInv is an invariant of a profile.                                    *)
THEOREM ProfileInvariant == EcoSpec => []EcoInv
BY EcoInitInv, EcoNextInv, PTL DEF EcoSpec

(* A player never draws longer than the rules say without a rare or an     *)
(* epic, through any mixture of single pulls, ten-pulls and chests         *)
(* (applyGachaPity, applyChestPity).                                       *)
THEOREM PityIsKept == EcoSpec => []PityHolds
<1>1. EcoInv => PityHolds
  BY DEF EcoInv
<1> QED
  BY <1>1, ProfileInvariant, PTL

(* A nonce delivers once, an activity pays once, and the daily rewards     *)
(* follow the round, for any number of days and requests                   *)
(* (PurchaseShopProduct, ClaimActivity, ClaimCheckin).                     *)
THEOREM GrantsAreUnique == EcoSpec => []GrantedOnce
<1>1. EcoInv => GrantedOnce
  BY DEF EcoInv
<1> QED
  BY <1>1, ProfileInvariant, PTL

LEMMA EcoInvImplies == EcoInv => EcoTypeOK
<1> SUFFICES ASSUME EcoInv PROVE EcoTypeOK
  OBVIOUS
<1>1. \A n \in Nonces : receipts[n] = NoRequest \/ receipts[n] \in (DOMAIN Catalog) \X (1..MaxQuantity)
  <2>1. receipts \in [Nonces -> Receipts]
    BY DEF EcoInv, EcoTypes
  <2> QED
    BY <2>1 DEF Receipts
<1>2. /\ wallet \in [Currencies -> Int] /\ wallet["gold"] \in Ints
      /\ \A c \in Currencies : wallet[c] < 0 => c = "gold" /\ wrapped
  BY DEF EcoInv, EcoTypes, Wallets
<1> QED
  BY <1>1, <1>2 DEF EcoInv, EcoTypes, EcoTypeOK

-----------------------------------------------------------------------------
(* WorldBoss: what the matches took together.                              *)

Some(s) == CHOOSE x \in s : TRUE

(* The recursion behind MapThenSumSet, on the members of D.                *)
SumRule(f, D, it) ==
    it = [s \in D |-> IF s = {} THEN 0 ELSE f[Some(s)].applied + it[s \ {Some(s)}]]

SumRun(f, S) == CHOOSE it : SumRule(f, SUBSET S, it)

AppliedSum(f, S) == MapThenSumSet(LAMBDA m : f[m].applied, S)

LEMMA AppliedSumRun == ASSUME NEW f, NEW S PROVE AppliedSum(f, S) = SumRun(f, S)[S]
BY DEF AppliedSum, MapThenSumSet, MapThenFoldSet, SumRun, SumRule, Some

LEMMA SomeFacts ==
    ASSUME NEW S, IsFiniteSet(S), NEW s \in SUBSET S, s # {}
    PROVE  /\ Some(s) \in s /\ s \ {Some(s)} \in SUBSET S
           /\ Cardinality(s) \in Nat /\ Cardinality(s \ {Some(s)}) = Cardinality(s) - 1
<1>1. Some(s) \in s
  BY DEF Some
<1>2. IsFiniteSet(s)
  BY FS_Subset
<1> QED
  BY <1>1, <1>2, FS_RemoveElement, FS_CardinalityType

LEMMA SumExists ==
    ASSUME NEW f, NEW S, IsFiniteSet(S)
    PROVE  \E it : SumRule(f, SUBSET S, it)
<1> DEFINE Small(n) == {s \in SUBSET S : Cardinality(s) <= n}
           T == {n \in Nat : ~\E it : SumRule(f, Small(n), it)}
<1>1. ASSUME T # {} PROVE FALSE
  <2>1. PICK n \in T : \A y \in T : n <= y
    BY <1>1, LeastOf
  <2>2. n \in Nat /\ ~\E it : SumRule(f, Small(n), it)
    BY <2>1
  <2>3. ASSUME NEW s \in Small(n), s # {}
        PROVE  s \ {Some(s)} \in SUBSET S /\ Cardinality(s \ {Some(s)}) <= n - 1 /\ n # 0
    <3>1. Cardinality(s) \in Nat /\ Cardinality(s \ {Some(s)}) = Cardinality(s) - 1 /\ s \ {Some(s)} \in SUBSET S
      BY <2>3, SomeFacts
    <3>2. Cardinality(s \ {Some(s)}) \in Nat
      BY <3>1, FS_Subset, FS_CardinalityType
    <3>3. Cardinality(s) <= n
      OBVIOUS
    <3> QED
      BY <2>2, <3>1, <3>2, <3>3
  <2>4. n # 0
    <3> SUFFICES ASSUME n = 0 PROVE FALSE
      OBVIOUS
    <3>1. \A s \in Small(n) : s = {}
      BY <2>3
    <3>2. SumRule(f, Small(n), [s \in Small(n) |-> 0])
      <4> HIDE DEF Small
      <4> QED
        BY <3>1 DEF SumRule
    <3> QED
      BY <2>2, <3>2
  <2>5. n - 1 \in Nat /\ n - 1 \notin T
    <3> HIDE DEF T
    <3> QED
      BY <2>1, <2>2, <2>4
  <2>6. PICK it : SumRule(f, Small(n - 1), it)
    BY <2>5
  <2> DEFINE next == [s \in Small(n) |-> IF s = {} THEN 0 ELSE f[Some(s)].applied + it[s \ {Some(s)}]]
  <2>7. \A s \in Small(n - 1) : s \in Small(n)
    <3>1. \A s \in SUBSET S : Cardinality(s) \in Nat
      BY FS_Subset, FS_CardinalityType
    <3> QED
      BY <2>2, <3>1
  <2>8. \A s \in Small(n) : s # {} => s \ {Some(s)} \in Small(n - 1)
    BY <2>3
  <2> HIDE DEF Small
  <2>9. \A s \in Small(n - 1) : it[s] = IF s = {} THEN 0 ELSE f[Some(s)].applied + it[s \ {Some(s)}]
    BY <2>6 DEF SumRule
  <2>10. \A s \in Small(n - 1) : next[s] = it[s]
    BY <2>7, <2>9
  <2>11. \A s \in Small(n) : next[s] = IF s = {} THEN 0 ELSE f[Some(s)].applied + next[s \ {Some(s)}]
    <3>1. \A s \in Small(n) : next[s] = IF s = {} THEN 0 ELSE f[Some(s)].applied + it[s \ {Some(s)}]
      OBVIOUS
    <3> HIDE DEF next
    <3> QED
      BY <2>8, <2>10, <3>1
  <2>12. SumRule(f, Small(n), next)
    <3>1. next = [s \in Small(n) |-> next[s]]
      OBVIOUS
    <3> HIDE DEF next
    <3> QED
      BY <2>11, <3>1 DEF SumRule
  <2> QED
    BY <2>2, <2>12
<1>2. Cardinality(S) \in Nat
  BY FS_CardinalityType
<1>3. PICK it : SumRule(f, Small(Cardinality(S)), it)
  BY <1>1, <1>2
<1>4. Small(Cardinality(S)) = SUBSET S
  BY FS_Subset
<1> QED
  BY <1>3, <1>4

LEMMA SumRunFacts ==
    ASSUME NEW f, NEW S, IsFiniteSet(S)
    PROVE  \A s \in SUBSET S : SumRun(f, S)[s] =
              IF s = {} THEN 0 ELSE f[Some(s)].applied + SumRun(f, S)[s \ {Some(s)}]
<1> DEFINE it == SumRun(f, S)
<1>1. SumRule(f, SUBSET S, it)
  BY SumExists DEF SumRun
<1> HIDE DEF it
<1>2. \A s \in SUBSET S : it[s] = IF s = {} THEN 0 ELSE f[Some(s)].applied + it[s \ {Some(s)}]
  BY <1>1 DEF SumRule
<1> QED
  BY <1>2 DEF it

(* The order of the sum makes no difference.                               *)
LEMMA SumTakesOut ==
    ASSUME NEW f, NEW S, IsFiniteSet(S), \A x \in S : f[x].applied \in Nat
    PROVE  \A s \in SUBSET S : /\ SumRun(f, S)[s] \in Nat
                               /\ \A x \in s : SumRun(f, S)[s] = f[x].applied + SumRun(f, S)[s \ {x}]
<1> DEFINE it == SumRun(f, S)
           Good(s) == it[s] \in Nat /\ \A x \in s : it[s] = f[x].applied + it[s \ {x}]
           T == {n \in Nat : \E s \in SUBSET S : Cardinality(s) = n /\ ~Good(s)}
<1>1. \A s \in SUBSET S : it[s] = IF s = {} THEN 0 ELSE f[Some(s)].applied + it[s \ {Some(s)}]
  BY SumRunFacts
<1>2. \A s \in SUBSET S : IsFiniteSet(s) /\ Cardinality(s) \in Nat
  BY FS_Subset, FS_CardinalityType
<1> HIDE DEF it
<1>3. ASSUME T # {} PROVE FALSE
  <2>1. PICK n \in T : \A y \in T : n <= y
    BY <1>3, LeastOf
  <2>2. PICK s \in SUBSET S : Cardinality(s) = n /\ ~Good(s)
    BY <2>1
  <2>3. \A t \in SUBSET S : Cardinality(t) < n => Good(t)
    <3> HIDE DEF Good
    <3>1. n \in Nat
      BY <2>1
    <3>2. \A t \in SUBSET S : Cardinality(t) \notin T => Good(t)
      BY <1>2
    <3>3. \A y \in Nat : y < n => y \notin T
      BY <2>1, <3>1
    <3> HIDE DEF T
    <3> QED
      BY <1>2, <3>2, <3>3
  <2>4. s # {}
    <3> SUFFICES ASSUME s = {} PROVE FALSE
      OBVIOUS
    <3>1. it[s] = 0
      BY <1>1
    <3> QED
      BY <2>2, <3>1
  <2> DEFINE c == Some(s)
  <2>5. c \in s /\ c \in S /\ s \ {c} \in SUBSET S /\ Cardinality(s \ {c}) < n
    BY <2>2, <2>4, SomeFacts
  <2>6. it[s] = f[c].applied + it[s \ {c}]
    BY <1>1, <2>4
  <2> HIDE DEF c
  <2>7. it[s \ {c}] \in Nat /\ \A x \in s \ {c} : it[s \ {c}] = f[x].applied + it[(s \ {c}) \ {x}]
    BY <2>3, <2>5
  <2>8. it[s] \in Nat
    BY <2>5, <2>6, <2>7
  <2>9. ASSUME NEW x \in s PROVE it[s] = f[x].applied + it[s \ {x}]
    <3>1. CASE x = c
      BY <2>6, <3>1
    <3>2. CASE x # c
      <4>1. s \ {x} \in SUBSET S /\ Cardinality(s \ {x}) < n /\ c \in s \ {x} /\ x \in s \ {c} /\ x \in S
        <5>1. Cardinality(s \ {x}) = Cardinality(s) - 1
          BY <1>2, FS_RemoveElement
        <5> QED
          BY <1>2, <2>2, <2>5, <3>2, <5>1
      <4>2. it[s \ {x}] = f[c].applied + it[(s \ {x}) \ {c}] /\ it[s \ {x}] \in Nat
        BY <2>3, <4>1
      <4>3. it[s \ {c}] = f[x].applied + it[(s \ {c}) \ {x}]
        BY <2>7, <4>1
      <4>4. (s \ {x}) \ {c} = (s \ {c}) \ {x}
        OBVIOUS
      <4> DEFINE w == it[(s \ {c}) \ {x}]
                 a == f[x].applied
                 b == f[c].applied
                 u == it[s \ {x}]
                 v == it[s \ {c}]
      <4>5. a \in Nat /\ b \in Nat /\ w \in Nat
        <5>1. (s \ {c}) \ {x} \in SUBSET S /\ Cardinality((s \ {c}) \ {x}) < n
          <6>1. Cardinality((s \ {c}) \ {x}) = Cardinality(s \ {c}) - 1
            BY <1>2, <2>5, <4>1, FS_RemoveElement
          <6>2. Cardinality(s \ {c}) \in Nat /\ n \in Nat
            BY <1>2, <2>1, <2>5
          <6> QED
            BY <2>5, <6>1, <6>2
        <5>2. w \in Nat
          BY <2>3, <5>1
        <5> QED
          BY <2>5, <4>1, <5>2
      <4>6. u = b + w /\ v = a + w /\ it[s] = b + v
        BY <2>6, <4>2, <4>3, <4>4
      <4> HIDE DEF a, b, u, v, w
      <4>7. it[s] = a + u
        BY <4>5, <4>6
      <4> QED
        BY <4>7 DEF a, u
    <3> QED
      BY <3>1, <3>2
  <2> QED
    BY <2>2, <2>8, <2>9
<1>4. \A s \in SUBSET S : Good(s)
  <2> HIDE DEF Good
  <2> QED
    BY <1>2, <1>3
<1> QED
  BY <1>4 DEF it

(* Matches that report the same have the same sum.                         *)
LEMMA SumDependsOnApplied ==
    ASSUME NEW f, NEW g, NEW S, IsFiniteSet(S), NEW R \in SUBSET S
    PROVE  (\A x \in R : f[x].applied = g[x].applied) => SumRun(f, S)[R] = SumRun(g, S)[R]
<1> DEFINE a == SumRun(f, S)
           b == SumRun(g, S)
           T == {n \in Nat : \E s \in SUBSET R : Cardinality(s) = n /\ a[s] # b[s]}
<1>0. \A s \in SUBSET S : a[s] = IF s = {} THEN 0 ELSE f[Some(s)].applied + a[s \ {Some(s)}]
  BY SumRunFacts
<1>1. \A s \in SUBSET S : b[s] = IF s = {} THEN 0 ELSE g[Some(s)].applied + b[s \ {Some(s)}]
  BY SumRunFacts
<1> SUFFICES ASSUME \A x \in R : f[x].applied = g[x].applied
             PROVE  a[R] = b[R]
  OBVIOUS
<1>2. \A s \in SUBSET S : IsFiniteSet(s) /\ Cardinality(s) \in Nat
  BY FS_Subset, FS_CardinalityType
<1> HIDE DEF a, b
<1>3. ASSUME T # {} PROVE FALSE
  <2>1. PICK n \in T : \A y \in T : n <= y
    BY <1>3, LeastOf
  <2>2. PICK s \in SUBSET R : Cardinality(s) = n /\ a[s] # b[s]
    BY <2>1
  <2>3. s # {} /\ s \in SUBSET S
    BY <1>0, <1>1, <2>2
  <2>4. Some(s) \in s /\ s \ {Some(s)} \in SUBSET R /\ Cardinality(s \ {Some(s)}) = n - 1
    BY <2>2, <2>3, SomeFacts
  <2>5. Cardinality(s \ {Some(s)}) \in Nat /\ n \in Nat
    BY <1>2, <2>1, <2>4
  <2>6. n - 1 \notin T
    <3> HIDE DEF T
    <3> QED
      BY <2>1, <2>4, <2>5
  <2>7. a[s \ {Some(s)}] = b[s \ {Some(s)}]
    BY <2>4, <2>5, <2>6
  <2>8. f[Some(s)].applied = g[Some(s)].applied
    BY <2>4
  <2> QED
    BY <1>0, <1>1, <2>2, <2>3, <2>7, <2>8
<1> QED
  BY <1>2, <1>3 DEF a, b

(* One match reports k more, the others what they did.                     *)
LEMMA SumGrows ==
    ASSUME NEW f, NEW g, NEW S, IsFiniteSet(S), NEW m \in S, NEW k \in Nat,
           \A x \in S : f[x].applied \in Nat /\ g[x].applied \in Nat,
           \A x \in S : x # m => g[x].applied = f[x].applied,
           g[m].applied = f[m].applied + k
    PROVE  AppliedSum(f, S) \in Nat /\ AppliedSum(g, S) = AppliedSum(f, S) + k
<1> DEFINE a == SumRun(f, S)
           b == SumRun(g, S)
<1>1. S \in SUBSET S /\ S \ {m} \in SUBSET S
  OBVIOUS
<1>2. a[S] = f[m].applied + a[S \ {m}] /\ a[S \ {m}] \in Nat /\ b[S] = g[m].applied + b[S \ {m}]
  BY <1>1, SumTakesOut
<1>3. a[S \ {m}] = b[S \ {m}]
  BY <1>1, SumDependsOnApplied
<1>4. AppliedSum(f, S) = a[S] /\ AppliedSum(g, S) = b[S]
  BY AppliedSumRun
<1> HIDE DEF a, b
<1>5. f[m].applied \in Nat
  OBVIOUS
<1> QED
  BY <1>2, <1>3, <1>4, <1>5

LEMMA SumOfNothing ==
    ASSUME NEW f, NEW S, IsFiniteSet(S), \A x \in S : f[x].applied = 0
    PROVE  AppliedSum(f, S) = 0
<1> DEFINE a == SumRun(f, S)
           T == {n \in Nat : \E s \in SUBSET S : Cardinality(s) = n /\ a[s] # 0}
<1>1. \A s \in SUBSET S : a[s] = IF s = {} THEN 0 ELSE f[Some(s)].applied + a[s \ {Some(s)}]
  BY SumRunFacts
<1>2. \A s \in SUBSET S : IsFiniteSet(s) /\ Cardinality(s) \in Nat
  BY FS_Subset, FS_CardinalityType
<1>3. AppliedSum(f, S) = a[S]
  BY AppliedSumRun
<1> HIDE DEF a
<1>4. ASSUME T # {} PROVE FALSE
  <2>1. PICK n \in T : \A y \in T : n <= y
    BY <1>4, LeastOf
  <2>2. PICK s \in SUBSET S : Cardinality(s) = n /\ a[s] # 0
    BY <2>1
  <2>3. s # {}
    BY <1>1, <2>2
  <2>4. Some(s) \in s /\ s \ {Some(s)} \in SUBSET S /\ Cardinality(s \ {Some(s)}) = n - 1
    BY <2>2, <2>3, SomeFacts
  <2>5. Cardinality(s \ {Some(s)}) \in Nat /\ n \in Nat
    BY <1>2, <2>1, <2>4
  <2>6. n - 1 \notin T
    <3> HIDE DEF T
    <3> QED
      BY <2>1, <2>4, <2>5
  <2>7. a[s \ {Some(s)}] = 0
    BY <2>4, <2>5, <2>6
  <2>8. f[Some(s)].applied = 0
    BY <2>4
  <2> QED
    BY <1>1, <2>2, <2>3, <2>7, <2>8
<1>5. S \in SUBSET S
  OBVIOUS
<1> QED
  BY <1>2, <1>3, <1>4, <1>5

-----------------------------------------------------------------------------
(* WorldBoss: the ledger.                                                  *)

Fights == [st : {"none", "live", "settled", "stuck"}, players : SUBSET Users, cap : 0..BossMaxHP,
           damage : 0..MaxDamage, applied : 0..BossMaxHP, finalized : BOOLEAN, defeated : BOOLEAN,
           endedAt : BOOLEAN, accepted : SUBSET Users, rematch : BossMatches \cup {NoBossMatch}]

(* A match that is not finalized has taken nothing and has not been told   *)
(* that it won, and an id not yet minted has no match.                     *)
FightInv ==
    \A m \in BossMatches :
       /\ ~fight[m].finalized => fight[m].applied = 0 /\ ~fight[m].defeated
       /\ fight[m].st = "none" => ~fight[m].finalized

BossInv == BossTypeOK /\ FightInv /\ BossLedger

LEMMA BossConstants ==
    /\ IsFiniteSet(BossMatches) /\ NoBossMatch \notin BossMatches
    /\ BossMaxHP \in Nat /\ BossMaxHP > 0 /\ MaxDamage \in Nat /\ MaxDays \in Nat
BY WorldBossAssumptions

LEMMA FightTypes ==
    ASSUME BossTypeOK, NEW m \in BossMatches
    PROVE  fight[m] \in Fights
BY DEF BossTypeOK, Fights

(* Steps that leave what was taken alone.                                  *)
LEMMA SameLedger ==
    ASSUME BossInv, BossTypeOK', UNCHANGED <<hp, defeatedBy>>,
           \A m \in BossMatches : fight'[m].applied = fight[m].applied /\ fight'[m].defeated = fight[m].defeated
    PROVE  BossLedger'
<1>1. BossMaxHP - hp = AppliedSum(fight, BossMatches)
  BY DEF BossInv, BossLedger, AppliedSum
<1>2. AppliedSum(fight, BossMatches) = AppliedSum(fight', BossMatches)
  <2>1. BossMatches \in SUBSET BossMatches
    OBVIOUS
  <2>2. SumRun(fight, BossMatches)[BossMatches] = SumRun(fight', BossMatches)[BossMatches]
    BY <2>1, BossConstants, SumDependsOnApplied
  <2> QED
    BY <2>2, AppliedSumRun
<1>3. BossMaxHP - hp' = AppliedSum(fight', BossMatches)
  BY <1>1, <1>2
<1>4. (hp' = 0 <=> defeatedBy' # NoBossMatch) /\ \A m \in BossMatches : fight'[m].defeated <=> defeatedBy' = m
  BY DEF BossInv, BossLedger
<1> QED
  BY <1>3, <1>4 DEF BossLedger, AppliedSum, MapThenSumSet, MapThenFoldSet

(* A match is finalized: what it takes leaves the boss, once.              *)
LEMMA FinalizeInv ==
    ASSUME BossInv, NEW m \in BossMatches, NEW ended \in Fights, Finalize(m, ended),
           ended.st # "none", ended.applied = fight[m].applied, ended.defeated = fight[m].defeated,
           ended.finalized = fight[m].finalized, UNCHANGED <<used, bossDay, waiting>>
    PROVE  BossInv'
<1>1. hp \in 0..BossMaxHP /\ BossMaxHP \in Nat /\ fight \in [BossMatches -> Fights]
      /\ defeatedBy \in BossMatches \cup {NoBossMatch}
  BY BossConstants DEF BossInv, BossTypeOK, Fights
<1>2. CASE ended.finalized
  <2>1. UNCHANGED <<hp, defeatedBy>> /\ fight' = [fight EXCEPT ![m] = ended]
    BY <1>2 DEF Finalize
  <2>2. BossTypeOK'
    <3>1. fight' \in [BossMatches -> Fights]
      BY <1>1, <2>1
    <3> QED
      BY <2>1, <3>1 DEF BossInv, BossTypeOK, Fights
  <2>3. \A x \in BossMatches : fight'[x] = IF x = m THEN ended ELSE fight[x]
    BY <1>1, <2>1
  <2>4. FightInv'
    BY <1>2, <2>3 DEF BossInv, FightInv
  <2>5. BossLedger'
    BY <2>1, <2>2, <2>3, SameLedger
  <2> QED
    BY <2>2, <2>4, <2>5 DEF BossInv
<1>3. CASE ~ended.finalized
  <2> DEFINE damage == Smaller(ended.damage, ended.cap)
             took == Smaller(hp, damage)
             kill == hp > 0 /\ hp = took /\ defeatedBy = NoBossMatch
             r == [ended EXCEPT !.finalized = TRUE, !.applied = took, !.defeated = kill]
  <2>1. hp' = hp - took /\ defeatedBy' = (IF kill THEN m ELSE defeatedBy) /\ fight' = [fight EXCEPT ![m] = r]
    BY <1>3 DEF Finalize
  <2>2. damage \in Nat
    <3>1. ended.damage \in 0..MaxDamage /\ ended.cap \in 0..BossMaxHP
      BY DEF Fights
    <3> QED
      BY <3>1, BossConstants DEF Smaller
  <2>3. took \in 0..BossMaxHP /\ took <= hp
    <3> HIDE DEF damage
    <3> QED
      BY <1>1, <2>2 DEF Smaller
  <2>4. kill \in BOOLEAN
    OBVIOUS
  <2>5. r.applied = took /\ r.defeated = kill /\ r.finalized = TRUE /\ r.st = ended.st /\ r \in Fights
    <3> HIDE DEF took, kill
    <3> QED
      BY <2>3, <2>4 DEF Fights
  <2>6. kill <=> hp > 0 /\ hp = took /\ defeatedBy = NoBossMatch
    OBVIOUS
  <2> HIDE DEF r, took, kill
  <2>7. \A x \in BossMatches : fight'[x] = IF x = m THEN r ELSE fight[x]
    BY <1>1, <2>1
  <2>8. BossTypeOK'
    <3>1. fight' \in [BossMatches -> Fights]
      BY <1>1, <2>1, <2>5
    <3>2. hp' \in 0..BossMaxHP
      BY <1>1, <2>1, <2>3
    <3>3. defeatedBy' \in BossMatches \cup {NoBossMatch}
      BY <1>1, <2>1
    <3> QED
      BY <3>1, <3>2, <3>3 DEF BossInv, BossTypeOK, Fights
  <2>9. FightInv'
    BY <2>5, <2>7 DEF BossInv, FightInv
  <2>10. fight[m].applied = 0 /\ ~fight[m].defeated
    BY <1>3 DEF BossInv, FightInv
  <2>11. BossMaxHP - hp' = AppliedSum(fight', BossMatches)
    <3>1. BossMaxHP - hp = AppliedSum(fight, BossMatches)
      BY DEF BossInv, BossLedger, AppliedSum
    <3>2. \A x \in BossMatches : fight[x].applied \in Nat /\ fight'[x].applied \in Nat
      <4>1. \A x \in BossMatches : fight[x] \in Fights /\ fight'[x] \in Fights
        BY <1>1, <2>5, <2>7
      <4>2. \A y \in Fights : y.applied \in Nat
        BY BossConstants DEF Fights
      <4> QED
        BY <4>1, <4>2
    <3>3. fight'[m].applied = took /\ \A x \in BossMatches : x # m => fight'[x].applied = fight[x].applied
      BY <2>5, <2>7
    <3>4. took \in Nat
      BY <1>1, <2>3
    <3>5. fight'[m].applied = fight[m].applied + took
      BY <2>10, <3>3, <3>4
    <3>6. AppliedSum(fight', BossMatches) = AppliedSum(fight, BossMatches) + took
      BY <3>2, <3>3, <3>4, <3>5, BossConstants, SumGrows
    <3> QED
      BY <1>1, <2>1, <3>1, <3>4, <3>6
  <2>12. (hp = 0 <=> defeatedBy # NoBossMatch) /\ \A x \in BossMatches : fight[x].defeated <=> defeatedBy = x
    BY DEF BossInv, BossLedger
  <2>13. hp' = 0 <=> defeatedBy' # NoBossMatch
    <3>1. hp' = 0 <=> hp = took
      BY <1>1, <2>1, <2>3
    <3>2. hp = 0 => ~kill
      BY <1>1, <2>6
    <3>3. hp # 0 => hp > 0 /\ defeatedBy = NoBossMatch
      BY <1>1, <2>12
    <3>4. hp = 0 => hp = took
      BY <1>1, <2>3
    <3> QED
      BY <2>1, <2>6, <2>12, <3>1, <3>2, <3>3, <3>4, BossConstants
  <2>14. \A x \in BossMatches : fight'[x].defeated <=> defeatedBy' = x
    BY <2>1, <2>5, <2>6, <2>7, <2>10, <2>12, BossConstants
  <2>15. BossLedger'
    BY <2>11, <2>13, <2>14 DEF BossLedger, AppliedSum, MapThenSumSet, MapThenFoldSet
  <2> QED
    BY <2>8, <2>9, <2>15 DEF BossInv
<1> QED
  BY <1>2, <1>3

LEMMA SettleFightInv == ASSUME BossInv, NEW m \in BossMatches, SettleFight(m) PROVE BossInv'
<1>1. PICK d \in 0..MaxDamage : Finalize(m, [fight[m] EXCEPT !.st = "settled", !.endedAt = TRUE, !.damage = d])
  BY DEF SettleFight
<1> DEFINE ended == [fight[m] EXCEPT !.st = "settled", !.endedAt = TRUE, !.damage = d]
<1>2. fight[m] \in Fights
  BY FightTypes DEF BossInv
<1>3. /\ ended \in Fights /\ ended.st # "none" /\ ended.applied = fight[m].applied
      /\ ended.defeated = fight[m].defeated /\ ended.finalized = fight[m].finalized
  BY <1>2 DEF Fights
<1> HIDE DEF ended
<1>4. Finalize(m, ended) /\ UNCHANGED <<used, bossDay, waiting>>
  BY <1>1 DEF ended, SettleFight
<1> QED
  BY <1>3, <1>4, FinalizeInv

LEMMA FleeFightInv == ASSUME BossInv, NEW m \in BossMatches, FleeFight(m) PROVE BossInv'
<1>1. PICK d \in 0..MaxDamage : Finalize(m, [fight[m] EXCEPT !.st = "settled", !.damage = d])
  BY DEF FleeFight
<1> DEFINE ended == [fight[m] EXCEPT !.st = "settled", !.damage = d]
<1>2. fight[m] \in Fights
  BY FightTypes DEF BossInv
<1>3. /\ ended \in Fights /\ ended.st # "none" /\ ended.applied = fight[m].applied
      /\ ended.defeated = fight[m].defeated /\ ended.finalized = fight[m].finalized
  BY <1>2 DEF Fights
<1> HIDE DEF ended
<1>4. Finalize(m, ended) /\ UNCHANGED <<used, bossDay, waiting>>
  BY <1>1 DEF ended, FleeFight
<1> QED
  BY <1>3, <1>4, FinalizeInv

LEMMA ExpireFightInv == ASSUME BossInv, NEW m \in BossMatches, ExpireFight(m) PROVE BossInv'
<1> DEFINE ended == [fight[m] EXCEPT !.st = "settled", !.endedAt = TRUE]
<1>1. fight[m] \in Fights
  BY FightTypes DEF BossInv
<1>2. /\ ended \in Fights /\ ended.st # "none" /\ ended.applied = fight[m].applied
      /\ ended.defeated = fight[m].defeated /\ ended.finalized = fight[m].finalized
  BY <1>1 DEF Fights
<1> HIDE DEF ended
<1>3. Finalize(m, ended) /\ UNCHANGED <<used, bossDay, waiting>>
  BY DEF ended, ExpireFight
<1> QED
  BY <1>2, <1>3, FinalizeInv

(* Steps that change only what the ledger does not read.                   *)
LEMMA OtherChange ==
    ASSUME BossInv, UNCHANGED <<hp, defeatedBy>>, fight' \in [BossMatches -> Fights],
           used' \in [Users -> Nat], bossDay' \in 0..MaxDays, waiting' \subseteq Users,
           \A m \in BossMatches :
              \/ /\ fight'[m].applied = fight[m].applied /\ fight'[m].defeated = fight[m].defeated
                 /\ fight'[m].finalized = fight[m].finalized /\ (fight'[m].st = "none" => fight[m].st = "none")
              \/ /\ fight[m].st = "none" /\ fight'[m].applied = 0 /\ fight'[m].defeated = FALSE
                 /\ fight'[m].finalized = FALSE
    PROVE  BossInv'
<1>1. BossTypeOK'
  BY DEF BossInv, BossTypeOK, Fights
<1>2. \A m \in BossMatches : fight[m] \in Fights
  BY FightTypes DEF BossInv
<1>3. \A m \in BossMatches : fight'[m].applied = fight[m].applied /\ fight'[m].defeated = fight[m].defeated
  BY <1>2 DEF BossInv, FightInv, Fights
<1>4. FightInv'
  BY DEF BossInv, FightInv
<1>5. BossLedger'
  BY <1>1, <1>3, SameLedger
<1> QED
  BY <1>1, <1>4, <1>5 DEF BossInv

LEMMA BeginFightFacts ==
    ASSUME BossInv, NEW f \in [BossMatches -> Fights], NEW n \in BossMatches, NEW players \in SUBSET Users
    PROVE  /\ BeginFight(f, n, players) \in [BossMatches -> Fights]
           /\ \A x \in BossMatches : x # n => BeginFight(f, n, players)[x] = f[x]
           /\ BeginFight(f, n, players)[n].applied = 0 /\ BeginFight(f, n, players)[n].defeated = FALSE
           /\ BeginFight(f, n, players)[n].finalized = FALSE
<1> DEFINE r == [NoFight EXCEPT !.st = "live", !.players = players, !.cap = hp]
<1>1. hp \in 0..BossMaxHP /\ BossMaxHP \in Nat /\ MaxDamage \in Nat
  BY BossConstants DEF BossInv, BossTypeOK
<1>2. NoFight \in Fights /\ NoFight.applied = 0 /\ NoFight.defeated = FALSE /\ NoFight.finalized = FALSE
  BY <1>1 DEF NoFight, Fights
<1>3. r \in Fights /\ r.applied = 0 /\ r.defeated = FALSE /\ r.finalized = FALSE
  BY <1>1, <1>2 DEF Fights
<1>4. BeginFight(f, n, players) = [f EXCEPT ![n] = r]
  BY DEF BeginFight
<1> HIDE DEF r
<1> QED
  BY <1>3, <1>4

LEMMA MintedFacts == MatchesLeft => Minted \in BossMatches /\ fight[Minted].st = "none"
BY DEF MatchesLeft, Minted, Used

LEMMA ConsumeFacts == ASSUME BossInv, NEW players PROVE Consume(players) \in [Users -> Nat]
BY DEF Consume, BossInv, BossTypeOK

LEMMA JoinBossQueueInv == ASSUME BossInv, NEW u \in Users, JoinBossQueue(u) PROVE BossInv'
<1> DEFINE party == waiting \cup {u}
<1>1. fight \in [BossMatches -> Fights] /\ used \in [Users -> Nat] /\ bossDay \in 0..MaxDays /\ party \in SUBSET Users
  BY DEF BossInv, BossTypeOK, Fights
<1>2. UNCHANGED <<hp, defeatedBy, bossDay>>
  BY DEF JoinBossQueue
<1>3. CASE Cardinality(party) < PartySize
  <2>1. waiting' = party /\ UNCHANGED <<used, fight>>
    BY <1>3 DEF JoinBossQueue
  <2> QED
    BY <1>1, <1>2, <2>1, OtherChange
<1>4. CASE ~(Cardinality(party) < PartySize)
  <2>1. /\ MatchesLeft /\ fight' = BeginFight(fight, Minted, party)
        /\ used' = Consume(party) /\ waiting' = {}
    BY <1>4 DEF JoinBossQueue
  <2> HIDE DEF party
  <2>2. Minted \in BossMatches /\ fight[Minted].st = "none"
    BY <2>1, MintedFacts
  <2>3. used' \in [Users -> Nat]
    BY <2>1, ConsumeFacts
  <2> DEFINE n == Minted
  <2>4. n \in BossMatches /\ fight[n].st = "none" /\ fight' = BeginFight(fight, n, party)
    BY <2>1, <2>2
  <2> HIDE DEF n
  <2>5. /\ fight' \in [BossMatches -> Fights]
        /\ \A x \in BossMatches : x # n => fight'[x] = fight[x]
        /\ fight'[n].applied = 0 /\ fight'[n].defeated = FALSE /\ fight'[n].finalized = FALSE
    BY <1>1, <2>4, BeginFightFacts
  <2>6. waiting' \subseteq Users /\ bossDay' \in 0..MaxDays
    BY <1>1, <1>2, <2>1
  <2> QED
    BY <1>2, <2>3, <2>4, <2>5, <2>6, OtherChange
<1> QED
  BY <1>3, <1>4

LEMMA RematchFightInv ==
    ASSUME BossInv, NEW m \in BossMatches, NEW u \in Users, RematchFight(m, u)
    PROVE  BossInv'
<1> DEFINE all == fight[m].accepted \cup {u}
<1>1. /\ fight \in [BossMatches -> Fights] /\ used \in [Users -> Nat] /\ bossDay \in 0..MaxDays /\ waiting \subseteq Users
  BY DEF BossInv, BossTypeOK, Fights
<1>2. fight[m] \in Fights /\ fight[m].st = "settled" /\ all \in SUBSET Users /\ fight[m].players \in SUBSET Users
  <2>1. fight[m] \in Fights
    BY <1>1
  <2>2. fight[m].accepted \in SUBSET Users /\ fight[m].players \in SUBSET Users
    BY <2>1 DEF Fights
  <2> QED
    BY <2>1, <2>2 DEF RematchFight
<1>3. UNCHANGED <<hp, defeatedBy, bossDay, waiting>>
  BY DEF RematchFight
<1>4. waiting' \subseteq Users /\ bossDay' \in 0..MaxDays
  BY <1>1, <1>3
<1>5. CASE all # fight[m].players
  <2>1. fight' = [fight EXCEPT ![m].accepted = all] /\ UNCHANGED used
    BY <1>5 DEF RematchFight
  <2> HIDE DEF all
  <2> DEFINE r == [fight[m] EXCEPT !.accepted = all]
  <2>2. r \in Fights /\ r.applied = fight[m].applied /\ r.defeated = fight[m].defeated
        /\ r.finalized = fight[m].finalized /\ r.st = fight[m].st
    BY <1>2 DEF Fights
  <2>3. fight' = [fight EXCEPT ![m] = r]
    BY <2>1
  <2> HIDE DEF r
  <2>4. fight' \in [BossMatches -> Fights] /\ \A x \in BossMatches : fight'[x] = IF x = m THEN r ELSE fight[x]
    BY <1>1, <2>2, <2>3
  <2> QED
    BY <1>1, <1>3, <1>4, <2>1, <2>2, <2>4, OtherChange
<1>6. CASE all = fight[m].players
  <2> DEFINE n == Minted
             r == [fight[m] EXCEPT !.accepted = all, !.rematch = n]
             f == [fight EXCEPT ![m] = r]
  <2>1. /\ MatchesLeft /\ used' = Consume(fight[m].players)
        /\ fight' = BeginFight([fight EXCEPT ![m].accepted = all, ![m].rematch = n], n, fight[m].players)
    BY <1>6 DEF RematchFight
  <2>2. n \in BossMatches /\ fight[n].st = "none"
    BY <2>1, MintedFacts
  <2> HIDE DEF n, all
  <2>3. [fight EXCEPT ![m].accepted = all, ![m].rematch = n] = f
    <3>1. fight[m] \in Fights /\ m \in BossMatches
      BY <1>2
    <3> QED
      BY <1>1, <3>1
  <2>4. r \in Fights /\ r.applied = fight[m].applied /\ r.defeated = fight[m].defeated
        /\ r.finalized = fight[m].finalized /\ r.st = fight[m].st
    BY <1>2, <2>2 DEF Fights
  <2> HIDE DEF r
  <2>5. f \in [BossMatches -> Fights] /\ \A x \in BossMatches : f[x] = IF x = m THEN r ELSE fight[x]
    BY <1>1, <2>4
  <2> HIDE DEF f
  <2>6. fight' = BeginFight(f, n, fight[m].players)
    BY <2>1, <2>3
  <2>7. /\ fight' \in [BossMatches -> Fights]
        /\ \A x \in BossMatches : x # n => fight'[x] = f[x]
        /\ fight'[n].applied = 0 /\ fight'[n].defeated = FALSE /\ fight'[n].finalized = FALSE
    BY <1>2, <2>2, <2>5, <2>6, BeginFightFacts
  <2>8. used' \in [Users -> Nat]
    BY <2>1, ConsumeFacts
  <2>9. ASSUME NEW x \in BossMatches
        PROVE  \/ /\ fight'[x].applied = fight[x].applied /\ fight'[x].defeated = fight[x].defeated
                  /\ fight'[x].finalized = fight[x].finalized /\ (fight'[x].st = "none" => fight[x].st = "none")
               \/ /\ fight[x].st = "none" /\ fight'[x].applied = 0 /\ fight'[x].defeated = FALSE
                  /\ fight'[x].finalized = FALSE
    BY <2>2, <2>4, <2>5, <2>7
  <2> QED
    BY <1>3, <1>4, <2>7, <2>8, <2>9, OtherChange
<1> QED
  BY <1>5, <1>6

LEMMA CallbackFightInv == ASSUME BossInv, NEW m \in BossMatches, CallbackFight(m) PROVE BossInv'
<1>1. PICK d \in 0..MaxDamage : fight' = [fight EXCEPT ![m].st = "settled", ![m].endedAt = TRUE, ![m].damage = d]
  BY DEF CallbackFight
<1>2. /\ fight \in [BossMatches -> Fights] /\ used \in [Users -> Nat] /\ bossDay \in 0..MaxDays /\ waiting \subseteq Users
  BY DEF BossInv, BossTypeOK, Fights
<1> DEFINE r == [fight[m] EXCEPT !.st = "settled", !.endedAt = TRUE, !.damage = d]
<1>3. fight[m] \in Fights
  BY <1>2
<1>4. r \in Fights /\ r.applied = fight[m].applied /\ r.defeated = fight[m].defeated
      /\ r.finalized = fight[m].finalized /\ r.st = "settled"
  BY <1>3 DEF Fights
<1>5. fight' = [fight EXCEPT ![m] = r]
  BY <1>1, <1>2, <1>3
<1> HIDE DEF r
<1>6. fight' \in [BossMatches -> Fights] /\ \A x \in BossMatches : fight'[x] = IF x = m THEN r ELSE fight[x]
  BY <1>2, <1>4, <1>5
<1>7. UNCHANGED <<hp, defeatedBy, used, bossDay, waiting>>
  BY DEF CallbackFight
<1> QED
  BY <1>2, <1>4, <1>6, <1>7, OtherChange

LEMMA FailedSettleInv == ASSUME BossInv, NEW m \in BossMatches, FailedSettle(m) PROVE BossInv'
<1>1. /\ fight \in [BossMatches -> Fights] /\ used \in [Users -> Nat] /\ bossDay \in 0..MaxDays /\ waiting \subseteq Users
  BY DEF BossInv, BossTypeOK, Fights
<1> DEFINE r == [fight[m] EXCEPT !.st = "stuck", !.endedAt = TRUE]
<1>2. fight[m] \in Fights
  BY <1>1
<1>3. r \in Fights /\ r.applied = fight[m].applied /\ r.defeated = fight[m].defeated
      /\ r.finalized = fight[m].finalized /\ r.st = "stuck"
  BY <1>2 DEF Fights
<1>4. fight' = [fight EXCEPT ![m] = r]
  BY <1>1, <1>2 DEF FailedSettle
<1> HIDE DEF r
<1>5. fight' \in [BossMatches -> Fights] /\ \A x \in BossMatches : fight'[x] = IF x = m THEN r ELSE fight[x]
  BY <1>1, <1>3, <1>4
<1>6. UNCHANGED <<hp, defeatedBy, used, bossDay, waiting>>
  BY DEF FailedSettle
<1> QED
  BY <1>1, <1>3, <1>5, <1>6, OtherChange

LEMMA BossInitInv == BossInit => BossInv
<1> SUFFICES ASSUME BossInit PROVE BossInv
  OBVIOUS
<1>1. \A m \in BossMatches : fight[m] = NoFight
  BY DEF BossInit
<1>2. NoFight \in Fights /\ NoFight.applied = 0 /\ NoFight.defeated = FALSE /\ NoFight.finalized = FALSE
  BY BossConstants DEF NoFight, Fights
<1>3. fight \in [BossMatches -> Fights]
  BY <1>2 DEF BossInit
<1>4. hp \in 0..BossMaxHP
  BY BossConstants DEF BossInit
<1>5. BossTypeOK
  BY <1>3, <1>4, BossConstants DEF BossInit, BossTypeOK, Fights
<1>6. FightInv
  BY <1>1, <1>2 DEF FightInv
<1>7. BossMaxHP - hp = AppliedSum(fight, BossMatches)
  <2>1. AppliedSum(fight, BossMatches) = 0
    BY <1>1, <1>2, BossConstants, SumOfNothing
  <2> QED
    BY <2>1, BossConstants DEF BossInit
<1>8. (hp = 0 <=> defeatedBy # NoBossMatch) /\ \A m \in BossMatches : fight[m].defeated <=> defeatedBy = m
  BY <1>1, <1>2, BossConstants DEF BossInit
<1> QED
  BY <1>5, <1>6, <1>7, <1>8 DEF BossInv, BossLedger, AppliedSum

LEMMA BossNextInv == BossInv /\ [BossNext]_bossVars => BossInv'
<1> SUFFICES ASSUME BossInv, [BossNext]_bossVars PROVE BossInv'
  OBVIOUS
<1>1. /\ fight \in [BossMatches -> Fights] /\ used \in [Users -> Nat] /\ bossDay \in 0..MaxDays /\ waiting \subseteq Users
  BY DEF BossInv, BossTypeOK, Fights
<1>2. ASSUME NEW u \in Users, CancelBossTicket(u) PROVE BossInv'
  <2>1. waiting' \subseteq Users /\ UNCHANGED <<hp, defeatedBy, used, bossDay, fight>>
    BY <1>1, <1>2 DEF CancelBossTicket
  <2> QED
    BY <1>1, <2>1, OtherChange
<1>3. CASE Midnight
  <2>1. used' \in [Users -> Nat] /\ UNCHANGED <<hp, defeatedBy, waiting, fight>>
    BY <1>3 DEF Midnight
  <2>2. bossDay' \in 0..MaxDays
    BY <1>1, <1>3, BossConstants DEF Midnight
  <2> QED
    BY <1>1, <2>1, <2>2, OtherChange
<1>4. CASE UNCHANGED bossVars
  <2>1. UNCHANGED <<hp, defeatedBy, used, bossDay, waiting, fight>>
    BY <1>4 DEF bossVars
  <2> QED
    BY <1>1, <2>1, OtherChange
<1> QED
  BY <1>2, <1>3, <1>4, JoinBossQueueInv, SettleFightInv, FleeFightInv, CallbackFightInv, FailedSettleInv,
     ExpireFightInv, RematchFightInv DEF BossNext

(* However many parties fight the boss at once, are settled, flee, are     *)
(* swept or fight again, what the boss has lost is what the matches were   *)
(* told they took, and it falls once (finalizeModeResultLocked).           *)
THEOREM BossLosesOnce == BossSpec => []BossLedger
<1>1. BossInv => BossLedger
  BY DEF BossInv
<1> QED
  BY <1>1, BossInitInv, BossNextInv, PTL DEF BossSpec

-----------------------------------------------------------------------------
(* BattlePlay: hands.                                                      *)

Dealt == [hand : Seq(Pool), pending : Seq(Pool), cursor : Nat]
HandFits(s) == s \in Dealt /\ Len(s.hand) <= HandLimit

(* What a seat holds beyond what it has drawn from its deck.               *)
Beyond(s) == Len(s.hand) + Len(s.pending) - s.cursor

LEMMA PlayConstants ==
    /\ HandLimit \in Nat /\ HandLimit > 0 /\ ChoiceTicks \in Nat /\ CardCooldown \in Nat
    /\ MaxTick \in Nat /\ MaxRounds \in Nat /\ MaxEnergy \in Nat /\ StartEnergy \in 0..MaxEnergy
    /\ \A u \in Fighting : DeckOf[u] \in Seq(Pool)
    /\ CardCost \in [Pool -> Nat] /\ CardDraws \in [Pool -> Nat] /\ CardGain \in [Pool -> Nat]
    /\ NoFighter \notin Fighting /\ NoCard \notin Pool
BY BattlePlayAssumptions

LEMMA SeatFields ==
    ASSUME NEW s, HandFits(s)
    PROVE  /\ s.hand \in Seq(Pool) /\ s.pending \in Seq(Pool) /\ s.cursor \in Nat
           /\ Len(s.hand) \in Nat /\ Len(s.pending) \in Nat /\ Len(s.hand) <= HandLimit /\ Beyond(s) \in Int
BY DEF HandFits, Dealt, Beyond

LEMMA SeatOf ==
    ASSUME NEW h \in Seq(Pool), NEW p \in Seq(Pool), NEW k \in Nat, NEW a \in Nat, NEW b \in Nat,
           a = Len(h), b = Len(p), a <= HandLimit,
           NEW d, d = [hand |-> h, pending |-> p, cursor |-> k]
    PROVE  HandFits(d) /\ Beyond(d) = a + b - k
<1>1. d \in Dealt /\ d.hand = h /\ d.pending = p /\ d.cursor = k
  BY DEF Dealt
<1> QED
  BY <1>1 DEF HandFits, Beyond

LEMMA SeatChanges ==
    ASSUME NEW s \in Dealt, NEW h, NEW p, NEW k
    PROVE  /\ [s EXCEPT !.hand = h, !.cursor = k] = [hand |-> h, pending |-> s.pending, cursor |-> k]
           /\ [s EXCEPT !.hand = h, !.pending = p] = [hand |-> h, pending |-> p, cursor |-> s.cursor]
           /\ [s EXCEPT !.hand = h] = [hand |-> h, pending |-> s.pending, cursor |-> s.cursor]
           /\ [s EXCEPT !.pending = p] = [hand |-> s.hand, pending |-> p, cursor |-> s.cursor]
<1>1. s = [hand |-> s.hand, pending |-> s.pending, cursor |-> s.cursor]
  BY DEF Dealt
<1> DEFINE x == s.hand
           y == s.pending
           z == s.cursor
<1>2. s = [hand |-> x, pending |-> y, cursor |-> z]
  BY <1>1
<1> HIDE DEF x, y, z
<1> DEFINE t == [s EXCEPT !.hand = h]
<1>3. t = [hand |-> h, pending |-> y, cursor |-> z]
  BY <1>2
<1>4. [s EXCEPT !.hand = h, !.cursor = k] = [hand |-> h, pending |-> y, cursor |-> k]
  <2>1. [s EXCEPT !.hand = h, !.cursor = k] = [t EXCEPT !.cursor = k]
    OBVIOUS
  <2> HIDE DEF t
  <2>2. [t EXCEPT !.cursor = k] = [hand |-> h, pending |-> y, cursor |-> k]
    BY <1>3
  <2> QED
    BY <2>1, <2>2
<1>5. [s EXCEPT !.hand = h, !.pending = p] = [hand |-> h, pending |-> p, cursor |-> z]
  <2>1. [s EXCEPT !.hand = h, !.pending = p] = [t EXCEPT !.pending = p]
    OBVIOUS
  <2> HIDE DEF t
  <2>2. [t EXCEPT !.pending = p] = [hand |-> h, pending |-> p, cursor |-> z]
    BY <1>3
  <2> QED
    BY <2>1, <2>2
<1>6. [s EXCEPT !.pending = p] = [hand |-> x, pending |-> p, cursor |-> z]
  BY <1>2
<1> QED
  BY <1>3, <1>4, <1>5, <1>6 DEF x, y, z

LEMMA DrawHeld ==
    ASSUME NEW u \in Fighting, NEW s, HandFits(s)
    PROVE  HandFits(DrawServerCard(s, u)) /\ Beyond(DrawServerCard(s, u)) = Beyond(s)
<1> DEFINE d == DrawServerCard(s, u)
           deck == DeckOf[u]
           k == Len(deck)
           c == deck[(s.cursor % k) + 1]
<1>1. /\ s.hand \in Seq(Pool) /\ s.pending \in Seq(Pool) /\ s.cursor \in Nat
      /\ Len(s.hand) \in Nat /\ Len(s.pending) \in Nat /\ Len(s.hand) <= HandLimit
  BY SeatFields
<1>2. HandLimit \in Nat /\ deck \in Seq(Pool) /\ k \in Nat
  BY PlayConstants
<1>3. CASE Len(s.hand) >= HandLimit \/ deck = <<>>
  BY <1>3 DEF DrawServerCard
<1>4. CASE ~(Len(s.hand) >= HandLimit \/ deck = <<>>)
  <2>1. k > 0
    BY <1>2, <1>4
  <2>2. c \in Pool
    <3>1. (s.cursor % k) + 1 \in 1..k
      BY <1>1, <1>2, <2>1
    <3> QED
      BY <1>2, <3>1
  <2> HIDE DEF c
  <2>3. d = [s EXCEPT !.hand = Append(s.hand, c), !.cursor = s.cursor + 1]
    BY <1>4 DEF DrawServerCard, c
  <2>4. d = [hand |-> Append(s.hand, c), pending |-> s.pending, cursor |-> s.cursor + 1]
    BY <2>3, SeatChanges DEF HandFits
  <2>5. Append(s.hand, c) \in Seq(Pool) /\ Len(Append(s.hand, c)) = Len(s.hand) + 1
    BY <1>1, <2>2
  <2> HIDE DEF d
  <2>6. Len(s.hand) + 1 <= HandLimit
    BY <1>1, <1>2, <1>4
  <2>7. HandFits(d) /\ Beyond(d) = (Len(s.hand) + 1) + Len(s.pending) - (s.cursor + 1)
    <3> DEFINE h == Append(s.hand, c)
               m == s.cursor + 1
               a == Len(s.hand) + 1
    <3>1. /\ a \in Nat /\ m \in Nat /\ h \in Seq(Pool) /\ a = Len(h) /\ a <= HandLimit
          /\ d = [hand |-> h, pending |-> s.pending, cursor |-> m]
      BY <1>1, <2>4, <2>5, <2>6
    <3> HIDE DEF h, m, a
    <3>2. HandFits(d) /\ Beyond(d) = a + Len(s.pending) - m
      BY <1>1, <3>1, SeatOf
    <3> QED
      BY <3>2 DEF m, a
  <2>8. Beyond(s) = Len(s.hand) + Len(s.pending) - s.cursor
    BY DEF Beyond
  <2>9. Beyond(d) = Beyond(s)
    <3> DEFINE a == Len(s.hand)
               b == Len(s.pending)
               m == s.cursor
    <3>1. a \in Nat /\ b \in Nat /\ m \in Nat /\ Beyond(d) = (a + 1) + b - (m + 1) /\ Beyond(s) = a + b - m
      BY <1>1, <2>7, <2>8
    <3> HIDE DEF a, b, m
    <3> QED
      BY <3>1
  <2> QED
    BY <2>7, <2>9 DEF d
<1> QED
  BY <1>3, <1>4

(* The loop of draws, as far as n.                                         *)
DealRun(n, drawn, s, u) ==
    drawn = [i \in 0..n |-> IF i = 0 THEN s ELSE DrawServerCard(drawn[i - 1], u)]

LEMMA DrawExists ==
    ASSUME NEW s, NEW u, NEW k \in Nat
    PROVE  \E drawn : DealRun(k, drawn, s, u)
<1> DEFINE T == {n \in Nat : ~\E drawn : DealRun(n, drawn, s, u)}
<1>1. ASSUME T # {} PROVE FALSE
  <2>1. PICK n \in T : \A y \in T : n <= y
    BY <1>1, LeastOf
  <2>2. n # 0
    <3>1. DealRun(0, [i \in 0..0 |-> s], s, u)
      BY DEF DealRun
    <3> QED
      BY <2>1, <3>1
  <2>3. n - 1 \in Nat /\ n - 1 \notin T /\ n \in Nat
    <3>1. n \in Nat
      BY <2>1
    <3> HIDE DEF T
    <3> QED
      BY <2>1, <2>2, <3>1
  <2>4. PICK drawn : DealRun(n - 1, drawn, s, u)
    BY <2>3
  <2> DEFINE next == [i \in 0..n |-> IF i = n THEN DrawServerCard(drawn[n - 1], u) ELSE drawn[i]]
  <2>5. \A i \in 0..(n - 1) : next[i] = drawn[i]
    BY <2>3
  <2>6. \A i \in 0..(n - 1) : drawn[i] = IF i = 0 THEN s ELSE DrawServerCard(drawn[i - 1], u)
    BY <2>3, <2>4 DEF DealRun
  <2>7. ASSUME NEW i \in 0..n PROVE next[i] = IF i = 0 THEN s ELSE DrawServerCard(next[i - 1], u)
    <3>1. CASE i = n
      <4>1. next[n - 1] = drawn[n - 1]
        BY <2>2, <2>3, <2>5
      <4>2. next[n] = DrawServerCard(drawn[n - 1], u)
        BY <2>3
      <4> HIDE DEF next
      <4> QED
        BY <2>2, <3>1, <4>1, <4>2
    <3>2. CASE i # n
      <4>1. i \in 0..(n - 1) /\ (i # 0 => i - 1 \in 0..(n - 1))
        BY <2>3, <3>2
      <4> HIDE DEF next
      <4> QED
        BY <2>5, <2>6, <4>1
    <3> QED
      BY <3>1, <3>2
  <2>8. DealRun(n, next, s, u)
    <3>1. next = [i \in 0..n |-> next[i]]
      OBVIOUS
    <3> HIDE DEF next
    <3> QED
      BY <2>7, <3>1 DEF DealRun
  <2> QED
    BY <2>1, <2>8
<1> QED
  BY <1>1

LEMMA DrawManyHeld ==
    ASSUME NEW u \in Fighting, NEW s, HandFits(s), NEW n \in Nat
    PROVE  HandFits(DrawMany(n, s, u)) /\ Beyond(DrawMany(n, s, u)) = Beyond(s)
<1> DEFINE drawn == CHOOSE f : DealRun(n, f, s, u)
<1>1. DealRun(n, drawn, s, u)
  BY DrawExists
<1>2. DrawMany(n, s, u) = drawn[n]
  BY DEF DrawMany, DealRun
<1> HIDE DEF drawn
<1>3. drawn[0] = s /\ \A i \in 1..n : drawn[i] = DrawServerCard(drawn[i - 1], u)
  <2>1. 0 \in 0..n /\ \A i \in 1..n : i \in 0..n /\ i # 0
    OBVIOUS
  <2> QED
    BY <1>1, <2>1 DEF DealRun
<1> DEFINE Good(i) == HandFits(drawn[i]) /\ Beyond(drawn[i]) = Beyond(s)
           T == {i \in 0..n : ~Good(i)}
<1>4. Good(0)
  BY <1>3
<1>5. ASSUME NEW i \in 1..n, Good(i - 1) PROVE Good(i)
  BY <1>3, <1>5, DrawHeld
<1> HIDE DEF Good
<1>6. T = {}
  <2> SUFFICES ASSUME T # {} PROVE FALSE
    OBVIOUS
  <2>1. T \in SUBSET Nat
    OBVIOUS
  <2>2. PICK i \in T : \A y \in T : i <= y
    BY <2>1, LeastOf
  <2>3. i \in 1..n /\ i - 1 \in 0..n
    BY <1>4, <2>2
  <2>4. Good(i - 1)
    BY <2>2, <2>3
  <2> QED
    BY <1>5, <2>2, <2>3, <2>4
<1>7. Good(n)
  BY <1>6
<1> QED
  BY <1>2, <1>7 DEF Good

LEMMA InitialFits ==
    ASSUME NEW u \in Fighting
    PROVE  HandFits(InitialHand(u)) /\ Beyond(InitialHand(u)) = 0
<1> DEFINE deck == DeckOf[u]
           n == Lesser(HandLimit, Len(deck))
           q == SubSeq(deck, 1, n)
<1>1. deck \in Seq(Pool) /\ Len(deck) \in Nat /\ HandLimit \in Nat
  BY PlayConstants
<1>2. n \in 0..Len(deck) /\ n \in Nat /\ n <= HandLimit
  BY <1>1 DEF Lesser
<1> HIDE DEF n, deck
<1>3. q \in Seq(Pool) /\ Len(q) = n
  BY <1>1, <1>2, SubSeqProperties
<1> DEFINE s == [hand |-> q, pending |-> <<>>, cursor |-> n]
<1>4. InitialHand(u) = s
  BY DEF InitialHand, n, deck
<1>5. s \in Dealt /\ s.hand = q /\ s.pending = <<>> /\ s.cursor = n
  BY <1>2, <1>3 DEF Dealt
<1> HIDE DEF s, q
<1>6. Beyond(s) = 0
  <2>1. Len(s.hand) = n /\ Len(s.pending) = 0
    BY <1>3, <1>5
  <2> QED
    BY <1>2, <1>5, <2>1 DEF Beyond
<1> QED
  BY <1>2, <1>3, <1>4, <1>5, <1>6 DEF HandFits

LEMMA GrantHeld ==
    ASSUME NEW s, HandFits(s), NEW c \in Pool
    PROVE  HandFits(GrantCardToPlayer(s, c)) /\ Beyond(GrantCardToPlayer(s, c)) = Beyond(s) + 1
<1> DEFINE d == GrantCardToPlayer(s, c)
<1>1. /\ s.hand \in Seq(Pool) /\ s.pending \in Seq(Pool) /\ s.cursor \in Nat
      /\ Len(s.hand) \in Nat /\ Len(s.pending) \in Nat /\ Len(s.hand) <= HandLimit /\ HandLimit \in Nat
  BY SeatFields, PlayConstants
<1>2. CASE Len(s.hand) < HandLimit
  <2>1. d = [s EXCEPT !.hand = Append(s.hand, c)]
    BY <1>2 DEF GrantCardToPlayer
  <2>2. d = [hand |-> Append(s.hand, c), pending |-> s.pending, cursor |-> s.cursor]
    BY <2>1, SeatChanges DEF HandFits
  <2>3. Append(s.hand, c) \in Seq(Pool) /\ Len(Append(s.hand, c)) = Len(s.hand) + 1
    BY <1>1
  <2> HIDE DEF d
  <2>4. Len(s.hand) + 1 <= HandLimit
    BY <1>1, <1>2
  <2>5. HandFits(d) /\ Beyond(d) = (Len(s.hand) + 1) + Len(s.pending) - s.cursor
    <3> DEFINE h == Append(s.hand, c)
               a == Len(s.hand) + 1
    <3>1. /\ a \in Nat /\ h \in Seq(Pool) /\ a = Len(h) /\ a <= HandLimit
          /\ d = [hand |-> h, pending |-> s.pending, cursor |-> s.cursor]
      BY <1>1, <2>2, <2>3, <2>4
    <3> HIDE DEF h, a
    <3>2. HandFits(d) /\ Beyond(d) = a + Len(s.pending) - s.cursor
      BY <1>1, <3>1, SeatOf, SMTT(30)
    <3> QED
      BY <3>2 DEF a
  <2>6. Beyond(d) = Beyond(s) + 1
    <3>1. Beyond(s) = Len(s.hand) + Len(s.pending) - s.cursor
      BY DEF Beyond
    <3> QED
      BY <1>1, <2>5, <3>1
  <2> QED
    BY <2>5, <2>6 DEF d
<1>3. CASE ~(Len(s.hand) < HandLimit)
  <2>1. d = [s EXCEPT !.pending = Append(s.pending, c)]
    BY <1>3 DEF GrantCardToPlayer
  <2>2. d = [hand |-> s.hand, pending |-> Append(s.pending, c), cursor |-> s.cursor]
    BY <2>1, SeatChanges DEF HandFits
  <2>3. Append(s.pending, c) \in Seq(Pool) /\ Len(Append(s.pending, c)) = Len(s.pending) + 1
    BY <1>1
  <2> HIDE DEF d
  <2>4. HandFits(d) /\ Beyond(d) = Len(s.hand) + (Len(s.pending) + 1) - s.cursor
    <3> DEFINE p == Append(s.pending, c)
               b == Len(s.pending) + 1
    <3>1. /\ b \in Nat /\ p \in Seq(Pool) /\ b = Len(p)
          /\ d = [hand |-> s.hand, pending |-> p, cursor |-> s.cursor]
      BY <1>1, <2>2, <2>3
    <3> HIDE DEF p, b
    <3>2. HandFits(d) /\ Beyond(d) = Len(s.hand) + b - s.cursor
      BY <1>1, <3>1, SeatOf
    <3> QED
      BY <3>2 DEF b
  <2>5. Beyond(d) = Beyond(s) + 1
    <3>1. Beyond(s) = Len(s.hand) + Len(s.pending) - s.cursor
      BY DEF Beyond
    <3> QED
      BY <1>1, <2>4, <3>1, SMTT(30)
  <2> QED
    BY <2>4, <2>5 DEF d
<1> QED
  BY <1>2, <1>3

LEMMA TailOf ==
    ASSUME NEW q \in Seq(Pool), NEW n \in 0..Len(q)
    PROVE  SubSeq(q, n + 1, Len(q)) \in Seq(Pool) /\ Len(SubSeq(q, n + 1, Len(q))) = Len(q) - n
<1> DEFINE k == Len(q)
           back == SubSeq(q, n + 1, k)
<1>1. k \in Nat /\ n \in Nat
  OBVIOUS
<1>2. DOMAIN back = 1..((k + 1) - (n + 1)) /\ back = [i \in 1..((k + 1) - (n + 1)) |-> q[i + (n + 1) - 1]]
  OBVIOUS
<1> HIDE DEF back
<1>3. (k + 1) - (n + 1) = k - n /\ k - n \in Nat
  BY <1>1
<1>4. \A i \in 1..(k - n) : q[i + (n + 1) - 1] \in Pool
  BY <1>1
<1>5. back \in [1..(k - n) -> Pool]
  BY <1>2, <1>3, <1>4
<1>6. back \in Seq(Pool) /\ Len(back) = k - n
  BY <1>2, <1>3, <1>5
<1> QED
  BY <1>6 DEF back

LEMMA PromoteHeld ==
    ASSUME NEW s, HandFits(s)
    PROVE  HandFits(PromotePendingGrants(s)) /\ Beyond(PromotePendingGrants(s)) = Beyond(s)
<1> DEFINE k == Len(s.pending)
           n == Lesser(k, HandLimit - Len(s.hand))
           front == SubSeq(s.pending, 1, n)
           back == SubSeq(s.pending, n + 1, k)
           d == [s EXCEPT !.hand = s.hand \o front, !.pending = back]
<1>1. /\ s.hand \in Seq(Pool) /\ s.pending \in Seq(Pool) /\ s.cursor \in Nat
      /\ Len(s.hand) \in Nat /\ k \in Nat /\ Len(s.hand) <= HandLimit /\ HandLimit \in Nat
  BY SeatFields, PlayConstants
<1>2. PromotePendingGrants(s) = d
  BY DEF PromotePendingGrants
<1>3. n \in 0..k /\ n \in Nat /\ n <= HandLimit - Len(s.hand)
  <2>1. HandLimit - Len(s.hand) \in Nat
    BY <1>1
  <2>2. \A a \in Nat, b \in Nat : Lesser(a, b) \in 0..a /\ Lesser(a, b) \in Nat /\ Lesser(a, b) <= b
    BY DEF Lesser
  <2> HIDE DEF k
  <2> QED
    BY <1>1, <2>1, <2>2
<1> HIDE DEF n
<1>4. front \in Seq(Pool) /\ Len(front) = n
  <2> HIDE DEF k
  <2>1. n \in 0..Len(s.pending)
    BY <1>3 DEF k
  <2> QED
    BY <1>1, <1>3, <2>1, SubSeqProperties
<1>5. back \in Seq(Pool) /\ Len(back) = k - n
  BY <1>1, <1>3, TailOf
<1> HIDE DEF front, back
<1>6. s.hand \o front \in Seq(Pool) /\ Len(s.hand \o front) = Len(s.hand) + n
  BY <1>1, <1>4, ConcatProperties
<1>7. d = [hand |-> s.hand \o front, pending |-> back, cursor |-> s.cursor]
  <2> DEFINE h == s.hand \o front
  <2>1. s \in Dealt /\ d = [s EXCEPT !.hand = h, !.pending = back]
    BY DEF HandFits
  <2> HIDE DEF h, d
  <2>2. d = [hand |-> h, pending |-> back, cursor |-> s.cursor]
    BY <2>1, SeatChanges
  <2> QED
    BY <2>2 DEF h
<1> HIDE DEF d, k
<1>8. Len(s.hand) + n <= HandLimit
  BY <1>1, <1>3
<1>9. HandFits(d) /\ Beyond(d) = (Len(s.hand) + n) + (k - n) - s.cursor
  <2> DEFINE h == s.hand \o front
             a == Len(s.hand) + n
             b == k - n
  <2>1. /\ a \in Nat /\ b \in Nat /\ h \in Seq(Pool) /\ a = Len(h) /\ b = Len(back) /\ a <= HandLimit
        /\ d = [hand |-> h, pending |-> back, cursor |-> s.cursor]
    BY <1>1, <1>3, <1>5, <1>6, <1>7, <1>8
  <2> HIDE DEF h, a, b
  <2>2. HandFits(d) /\ Beyond(d) = a + b - s.cursor
    BY <1>1, <1>5, <2>1, SeatOf
  <2> QED
    BY <2>2 DEF a, b
<1>10. Beyond(d) = Beyond(s)
  <2>1. Beyond(s) = Len(s.hand) + k - s.cursor
    BY DEF Beyond, k
  <2> QED
    BY <1>1, <1>3, <1>9, <2>1
<1> QED
  BY <1>2, <1>9, <1>10

LEMMA PlayedHeld ==
    ASSUME NEW u \in Fighting, NEW s, HandFits(s), NEW i \in DOMAIN s.hand
    PROVE  HandFits(Played(s, i, u)) /\ Beyond(Played(s, i, u)) = Beyond(s) - 1 /\ s.hand[i] \in Pool
<1> DEFINE q == s.hand
           k == Len(q)
           front == SubSeq(q, 1, i - 1)
           back == SubSeq(q, i + 1, k)
           freed == [s EXCEPT !.hand = Without(s.hand, i)]
<1>1. /\ q \in Seq(Pool) /\ s.pending \in Seq(Pool) /\ s.cursor \in Nat
      /\ k \in Nat /\ Len(s.pending) \in Nat /\ k <= HandLimit /\ HandLimit \in Nat
  BY SeatFields, PlayConstants
<1>2. i \in 1..k /\ q[i] \in Pool
  BY <1>1
<1>3. front \in Seq(Pool) /\ Len(front) = i - 1
  <2>1. i - 1 \in 0..k
    BY <1>1, <1>2
  <2>2. \A j \in 1..(i - 1) : q[j] \in Pool
    BY <1>1, <1>2
  <2> QED
    BY <1>1, <1>2, <2>1, <2>2, SubSeqProperties
<1>4. back \in Seq(Pool) /\ Len(back) = k - i
  <2>1. i \in 0..k
    BY <1>2
  <2> QED
    BY <1>1, <2>1, TailOf
<1>5. Without(q, i) = front \o back
  BY DEF Without
<1> HIDE DEF front, back
<1>6. Without(q, i) \in Seq(Pool) /\ Len(Without(q, i)) = k - 1
  <2>1. front \o back \in Seq(Pool) /\ Len(front \o back) = Len(front) + Len(back)
    BY <1>3, <1>4, ConcatProperties
  <2> HIDE DEF k
  <2> QED
    BY <1>1, <1>2, <1>3, <1>4, <1>5, <2>1
<1>7. freed = [hand |-> Without(q, i), pending |-> s.pending, cursor |-> s.cursor]
  BY SeatChanges DEF HandFits
<1>8. HandFits(freed) /\ Beyond(freed) = Beyond(s) - 1
  <2> HIDE DEF freed
  <2>1. k - 1 <= HandLimit
    BY <1>1
  <2>2. HandFits(freed) /\ Beyond(freed) = (k - 1) + Len(s.pending) - s.cursor
    <3>1. k - 1 \in Nat
      BY <1>1, <1>2
    <3> QED
      BY <1>1, <1>6, <1>7, <2>1, <3>1, SeatOf
  <2>3. Beyond(s) = k + Len(s.pending) - s.cursor
    BY DEF Beyond
  <2> HIDE DEF k
  <2> QED
    BY <1>1, <2>2, <2>3
<1> DEFINE filled == DrawServerCard(PromotePendingGrants(freed), u)
<1> HIDE DEF freed
<1>9. HandFits(filled) /\ Beyond(filled) = Beyond(s) - 1
  BY <1>8, PromoteHeld, DrawHeld
<1>10. Played(s, i, u) = DrawMany(CardDraws[q[i]], filled, u)
  BY DEF Played, freed
<1>11. CardDraws[q[i]] \in Nat
  BY <1>2, PlayConstants
<1> HIDE DEF filled, q
<1> QED
  BY <1>2, <1>9, <1>10, <1>11, DrawManyHeld DEF q

-----------------------------------------------------------------------------
(* BattlePlay: picks.                                                      *)

Picker == Fighting \cup {NoFighter}
DraftType ==
    [boss : DraftBosses \cup {NoBoss}, first : Picker, second : Picker, firstTick : 0..MaxTick,
     offer : SUBSET Pool, picks : [Fighting -> Pool \cup {NoCard}], granted : BOOLEAN, deadline : Nat]

(* Only the pickers hold a card, each one of the offer, and different ones. *)
PicksWell(p, offer, f, s) ==
    /\ p \in [Fighting -> Pool \cup {NoCard}]
    /\ \A u \in Fighting : p[u] # NoCard => p[u] \in offer /\ u \in {f, s}
    /\ \A u, v \in Fighting : u # v /\ p[u] # NoCard => p[u] # p[v]

(* The first picker beat the boss first.                                   *)
OrderWell(f, s, ft, df) ==
    /\ df \in [Fighting -> Int]
    /\ f \in Fighting => df[f] = ft
    /\ s # NoFighter =>
          /\ f \in Fighting /\ s \in Fighting /\ f # s
          /\ df[f] < df[s] \/ (df[f] = df[s] /\ Rank(f) < Rank(s))

RoundWell(d, df) ==
    /\ d \in DraftType
    /\ ~d.granted => d.first \in Fighting
    /\ PicksWell(d.picks, d.offer, d.first, d.second)
    /\ OrderWell(d.first, d.second, d.firstTick, df)

LEMMA FightingFinite == IsFiniteSet(Fighting)
<1> DEFINE n == Len(Fighters)
<1>1. Fighters \in Seq(Fighting)
  BY BattlePlayAssumptions
<1>2. n \in Nat /\ DOMAIN Fighters = 1..n
  BY <1>1
<1>3. Fighting = {Fighters[i] : i \in 1..n}
  BY <1>2 DEF Fighting
<1> HIDE DEF n
<1>4. IsFiniteSet(1..n)
  BY <1>2, FS_Interval
<1>5. Fighters \in Surjection(1..n, Fighting)
  <2>1. Fighters \in [1..n -> Fighting]
    BY <1>1, <1>2
  <2>2. \A u \in Fighting : \E i \in 1..n : Fighters[i] = u
    BY <1>3
  <2> QED
    BY <2>1, <2>2 DEF Surjection
<1> QED
  BY <1>4, <1>5, FS_Surjection

LEMMA RankFacts ==
    /\ \A u \in Fighting : Rank(u) \in Nat
    /\ \A u, v \in Fighting : u # v => Rank(u) # Rank(v)
<1>1. Fighters \in Seq(Fighting)
  BY BattlePlayAssumptions
<1>2. \A i \in DOMAIN Fighters : i \in Nat
  BY <1>1
<1>3. \A u \in Fighting : Rank(u) \in DOMAIN Fighters /\ Fighters[Rank(u)] = u
  <2> TAKE u \in Fighting
  <2>1. \E i \in DOMAIN Fighters : Fighters[i] = u
    BY DEF Fighting
  <2> QED
    BY <2>1 DEF Rank
<1> QED
  BY <1>2, <1>3

LEMMA OnePickMore ==
    ASSUME NEW p, NEW offer \in SUBSET Pool, NEW f, NEW s, PicksWell(p, offer, f, s),
           NEW u \in Fighting, u \in {f, s}, NEW c \in offer, \A v \in Fighting : v # u => p[v] # c
    PROVE  PicksWell([p EXCEPT ![u] = c], offer, f, s)
<1> DEFINE g == [p EXCEPT ![u] = c]
<1>1. p \in [Fighting -> Pool \cup {NoCard}] /\ c \in Pool /\ c # NoCard
  BY PlayConstants DEF PicksWell
<1>2. g \in [Fighting -> Pool \cup {NoCard}]
  BY <1>1
<1>3. g[u] = c /\ \A v \in Fighting : v # u => g[v] = p[v]
  BY <1>1
<1> HIDE DEF g
<1>4. \A v \in Fighting : g[v] # NoCard => g[v] \in offer /\ v \in {f, s}
  BY <1>1, <1>3 DEF PicksWell
<1>5. ASSUME NEW v \in Fighting, NEW w \in Fighting, v # w, g[v] # NoCard PROVE g[v] # g[w]
  <2>1. CASE v = u
    BY <1>3, <1>5, <2>1
  <2>2. CASE w = u
    BY <1>3, <1>5, <2>2
  <2>3. CASE v # u /\ w # u
    BY <1>3, <1>5, <2>3 DEF PicksWell
  <2> QED
    BY <2>1, <2>2, <2>3
<1>6. PicksWell(g, offer, f, s)
  BY <1>2, <1>4, <1>5 DEF PicksWell
<1> QED
  BY <1>6 DEF g

(* A second picker joins, or takes the first place.                        *)
LEMMA PicksWiden ==
    ASSUME NEW p, NEW offer, NEW f, PicksWell(p, offer, f, NoFighter), NEW g, NEW h, f \in {g, h}
    PROVE  PicksWell(p, offer, g, h)
<1>1. \A u \in Fighting : u \in {f, NoFighter} => u \in {g, h}
  BY PlayConstants
<1> QED
  BY <1>1 DEF PicksWell

LEMMA AutoPicksWell ==
    ASSUME NEW p, draft.offer \in SUBSET Pool, NEW f, NEW s, PicksWell(p, draft.offer, f, s),
           NEW u \in Picker, u \in {f, s}, NEW g \in AutoDraftPick(p, u)
    PROVE  PicksWell(g, draft.offer, f, s)
<1>1. CASE g = p
  BY <1>1
<1>2. CASE g # p
  <2>1. /\ u # NoFighter
        /\ g \in {[p EXCEPT ![u] = c] : c \in draft.offer \ Taken(p)}
    BY <1>2 DEF AutoDraftPick
  <2>2. PICK c \in draft.offer \ Taken(p) : g = [p EXCEPT ![u] = c]
    BY <2>1
  <2>3. u \in Fighting
    BY <2>1 DEF Picker
  <2>4. c \in draft.offer /\ c # NoCard
    BY <2>2, PlayConstants
  <2>5. \A v \in Fighting : p[v] # c
    BY <2>2, <2>4 DEF Taken
  <2> QED
    BY <2>2, <2>3, <2>4, <2>5, OnePickMore
<1> QED
  BY <1>1, <1>2

(* What grantDraftLocked leaves.                                           *)
LEMMA Grants ==
    ASSUME NEW d \in DraftType, PicksWell(d.picks, d.offer, d.first, d.second), NEW seats, NEW pl,
           \A u \in Fighting : HandFits(seats[u]) /\ pl[u] \in Nat /\ won[u] \in Nat /\ Beyond(seats[u]) + pl[u] = won[u],
           NEW k \in Nat, \A u \in Fighting : won[u] + 1 <= k,
           GrantDraft(d, seats)
    PROVE  /\ draft' = [d EXCEPT !.granted = TRUE]
           /\ seat' \in [Fighting -> Dealt] /\ won' \in [Fighting -> Nat]
           /\ \A u \in Fighting : /\ HandFits(seat'[u]) /\ Beyond(seat'[u]) + pl[u] = won'[u] /\ won'[u] <= k
<1> DEFINE Gets(u) == d.picks[u] # NoCard /\ u \in {d.first, d.second}
<1>1. /\ draft' = [d EXCEPT !.granted = TRUE]
      /\ seat' = [u \in Fighting |-> IF Gets(u) THEN GrantCardToPlayer(seats[u], d.picks[u]) ELSE seats[u]]
      /\ won' = [u \in Fighting |-> won[u] + IF Gets(u) THEN 1 ELSE 0]
  BY DEF GrantDraft, Granted
<1>2. \A u \in Fighting : Gets(u) => d.picks[u] \in Pool
  BY DEF DraftType, PicksWell
<1> HIDE DEF Gets
<1>3. ASSUME NEW u \in Fighting
      PROVE  /\ HandFits(seat'[u]) /\ Beyond(seat'[u]) + pl[u] = won'[u] /\ won'[u] <= k /\ won'[u] \in Nat
  <2>1. HandFits(seats[u]) /\ pl[u] \in Nat /\ won[u] \in Nat /\ Beyond(seats[u]) + pl[u] = won[u] /\ won[u] + 1 <= k
        /\ Beyond(seats[u]) \in Int
    BY SeatFields
  <2>2. CASE Gets(u)
    <3>1. seat'[u] = GrantCardToPlayer(seats[u], d.picks[u]) /\ won'[u] = won[u] + 1
      BY <1>1, <2>2
    <3>2. HandFits(seat'[u]) /\ Beyond(seat'[u]) = Beyond(seats[u]) + 1
      BY <1>2, <2>1, <2>2, <3>1, GrantHeld
    <3> QED
      BY <2>1, <3>1, <3>2
  <2>3. CASE ~Gets(u)
    <3>1. seat'[u] = seats[u] /\ won'[u] = won[u] + 0
      BY <1>1, <2>3
    <3> QED
      BY <2>1, <3>1
  <2> QED
    BY <2>2, <2>3
<1>4. seat' \in [Fighting -> Dealt]
  <2>1. \A u \in Fighting : seat'[u] \in Dealt
    BY <1>3 DEF HandFits
  <2> QED
    BY <1>1, <2>1
<1>5. won' \in [Fighting -> Nat]
  BY <1>1, <1>3
<1> QED
  BY <1>1, <1>3, <1>4, <1>5

(* A round closed by its picks, and one closed with other picks.           *)
LEMMA RoundChanges ==
    ASSUME NEW d, NEW df, RoundWell(d, df), NEW g, PicksWell(g, d.offer, d.first, d.second)
    PROVE  LET e == [d EXCEPT !.picks = g]
           IN /\ RoundWell(e, df) /\ e \in DraftType /\ PicksWell(e.picks, e.offer, e.first, e.second)
              /\ e.granted = d.granted /\ e.second = d.second /\ e.first = d.first
              /\ RoundWell([e EXCEPT !.granted = TRUE], df) /\ [e EXCEPT !.granted = TRUE].granted = TRUE
<1> DEFINE e == [d EXCEPT !.picks = g]
           h == [e EXCEPT !.granted = TRUE]
<1>1. d \in DraftType /\ g \in [Fighting -> Pool \cup {NoCard}]
  BY DEF RoundWell, PicksWell
<1>2. /\ e \in DraftType /\ e.picks = g /\ e.offer = d.offer /\ e.first = d.first /\ e.second = d.second
      /\ e.firstTick = d.firstTick /\ e.granted = d.granted
  BY <1>1 DEF DraftType
<1>3. RoundWell(e, df)
  <2> HIDE DEF e
  <2> QED
    BY <1>2 DEF RoundWell
<1> HIDE DEF e
<1>4. /\ h \in DraftType /\ h.picks = e.picks /\ h.offer = e.offer /\ h.first = e.first /\ h.second = e.second
      /\ h.firstTick = e.firstTick /\ h.granted = TRUE
  BY <1>2 DEF DraftType
<1>5. RoundWell(h, df)
  <2> HIDE DEF h
  <2> QED
    BY <1>3, <1>4 DEF RoundWell
<1> QED
  BY <1>2, <1>3, <1>4, <1>5 DEF e, h

-----------------------------------------------------------------------------
(* BattlePlay: the invariant.                                              *)

(* No card is lost or doubled, and an open round has granted none yet.     *)
HandsWell ==
    /\ rounds \in 0..MaxRounds
    /\ seat \in [Fighting -> Dealt] /\ plays \in [Fighting -> Nat] /\ won \in [Fighting -> Nat]
    /\ \A u \in Fighting : /\ HandFits(seat[u]) /\ Beyond(seat[u]) + plays[u] = won[u]
                           /\ won[u] <= rounds /\ (~draft.granted => won[u] + 1 <= rounds)

TicksWell ==
    /\ matchTick \in 0..MaxTick
    /\ lastTick \in [Fighting -> -1..MaxTick]
    /\ energy \in [Fighting -> 0..MaxEnergy]
    /\ cooldown \in [Fighting -> [Pool -> 0..(MaxTick + CardCooldown)]]

PlayCore == HandsWell /\ RoundWell(draft, defeats) /\ TicksWell

LEMMA NoDraftWell == RoundWell(NoDraft, [u \in Fighting |-> -1]) /\ NoDraft.granted = TRUE
<1> DEFINE none == [u \in Fighting |-> NoCard]
           df == [u \in Fighting |-> -1]
<1>1. none \in [Fighting -> Pool \cup {NoCard}] /\ \A u \in Fighting : none[u] = NoCard
  OBVIOUS
<1>2. NoDraft = [boss |-> NoBoss, first |-> NoFighter, second |-> NoFighter, firstTick |-> 0,
                 offer |-> {}, picks |-> none, granted |-> TRUE, deadline |-> 0]
  BY DEF NoDraft
<1> HIDE DEF none
<1>3. /\ NoDraft \in DraftType /\ NoDraft.picks = none /\ NoDraft.offer = {} /\ NoDraft.first = NoFighter
      /\ NoDraft.second = NoFighter /\ NoDraft.firstTick = 0 /\ NoDraft.granted = TRUE
  <2>1. 0 \in 0..MaxTick
    BY PlayConstants
  <2> QED
    BY <1>1, <1>2, <2>1 DEF DraftType, Picker
<1>4. PicksWell(none, {}, NoFighter, NoFighter)
  BY <1>1 DEF PicksWell
<1>5. df \in [Fighting -> Int]
  OBVIOUS
<1>6. OrderWell(NoFighter, NoFighter, 0, df)
  <2> HIDE DEF df
  <2> QED
    BY <1>5, PlayConstants DEF OrderWell
<1> QED
  BY <1>3, <1>4, <1>6 DEF RoundWell

LEMMA PlayInitCore == PlayInit => PlayCore
<1> SUFFICES ASSUME PlayInit PROVE PlayCore
  OBVIOUS
<1>1. RoundWell(draft, defeats) /\ draft.granted = TRUE
  BY NoDraftWell DEF PlayInit
<1>2. TicksWell
  <2>1. 0 \in 0..MaxTick /\ -1 \in -1..MaxTick /\ StartEnergy \in 0..MaxEnergy /\ 0 \in 0..(MaxTick + CardCooldown)
    BY PlayConstants
  <2>2. matchTick \in 0..MaxTick /\ lastTick \in [Fighting -> -1..MaxTick]
    BY <2>1 DEF PlayInit
  <2>3. energy \in [Fighting -> 0..MaxEnergy]
    BY <2>1 DEF PlayInit
  <2>4. cooldown \in [Fighting -> [Pool -> 0..(MaxTick + CardCooldown)]]
    BY <2>1 DEF PlayInit
  <2> QED
    BY <2>2, <2>3, <2>4 DEF TicksWell
<1>3. HandsWell
  <2>1. seat = [u \in Fighting |-> InitialHand(u)] /\ plays = [u \in Fighting |-> 0] /\ won = [u \in Fighting |-> 0] /\ rounds = 0
    BY DEF PlayInit
  <2>2. \A u \in Fighting : HandFits(seat[u]) /\ Beyond(seat[u]) = 0 /\ seat[u] \in Dealt
    BY <2>1, InitialFits DEF HandFits
  <2>3. plays \in [Fighting -> Nat] /\ won \in [Fighting -> Nat] /\ seat \in [Fighting -> Dealt]
    <3>1. plays \in [Fighting -> Nat] /\ won \in [Fighting -> Nat]
      BY <2>1
    <3>2. seat \in [Fighting -> Dealt]
      BY <2>1, <2>2
    <3> QED
      BY <3>1, <3>2
  <2>4. \A u \in Fighting : plays[u] = 0 /\ won[u] = 0
    BY <2>1
  <2>5. 0 \in 0..MaxRounds
    BY PlayConstants
  <2>6. \A u \in Fighting : Beyond(seat[u]) + plays[u] = won[u] /\ won[u] <= rounds
    BY <2>1, <2>2, <2>4
  <2> QED
    BY <1>1, <2>1, <2>2, <2>3, <2>5, <2>6 DEF HandsWell
<1> QED
  BY <1>1, <1>2, <1>3 DEF PlayCore

LEMMA OpenRoundInv ==
    ASSUME PlayCore, NEW u \in Fighting, NEW b \in DraftBosses, NEW t \in 0..MaxTick, ~OpenRound, OpenDraftRound(u, b, t),
           UNCHANGED <<matchTick, lastTick, seat, energy, cooldown, plays, won>>
    PROVE  PlayCore'
<1>1. rounds < MaxRounds /\ rounds' = rounds + 1 /\ defeats' = [v \in Fighting |-> IF v = u THEN t ELSE -1]
  BY DEF OpenDraftRound
<1>2. PICK offer \in Offers : draft' = [NoDraft EXCEPT !.boss = b, !.first = u, !.firstTick = t, !.offer = offer,
                                   !.granted = FALSE, !.deadline = t + ChoiceTicks]
  BY DEF OpenDraftRound
<1> DEFINE none == [v \in Fighting |-> NoCard]
           d == [boss |-> b, first |-> u, second |-> NoFighter, firstTick |-> t,
                 offer |-> offer, picks |-> none, granted |-> FALSE, deadline |-> t + ChoiceTicks]
<1>3. none \in [Fighting -> Pool \cup {NoCard}] /\ \A v \in Fighting : none[v] = NoCard
  OBVIOUS
<1>4. draft' = d
  BY <1>2 DEF NoDraft
<1>5. offer \in SUBSET Pool
  BY DEF Offers, kSubset
<1> HIDE DEF none
<1>6. /\ d \in DraftType /\ d.picks = none /\ d.offer = offer /\ d.first = u
      /\ d.second = NoFighter /\ d.firstTick = t /\ d.granted = FALSE
  <2>1. t + ChoiceTicks \in Nat
    BY PlayConstants
  <2> QED
    BY <1>3, <1>5, <2>1 DEF DraftType, Picker
<1> HIDE DEF d
<1>7. PicksWell(none, offer, u, NoFighter)
  BY <1>3 DEF PicksWell
<1>8. OrderWell(u, NoFighter, t, defeats')
  <2>1. defeats' \in [Fighting -> Int] /\ defeats'[u] = t
    BY <1>1, PlayConstants
  <2> QED
    BY <2>1 DEF OrderWell
<1>9. RoundWell(draft', defeats')
  BY <1>4, <1>6, <1>7, <1>8 DEF RoundWell
<1>10. HandsWell'
  <2>1. rounds \in 0..MaxRounds /\ \A v \in Fighting : won[v] \in Nat /\ won[v] <= rounds
    BY DEF PlayCore, HandsWell
  <2>2. rounds' \in 0..MaxRounds /\ \A v \in Fighting : won[v] + 1 <= rounds' /\ won[v] <= rounds'
    BY <1>1, <2>1, PlayConstants
  <2> QED
    BY <2>2 DEF PlayCore, HandsWell
<1>11. TicksWell'
  BY DEF PlayCore, TicksWell
<1> QED
  BY <1>9, <1>10, <1>11 DEF PlayCore

LEMMA SecondReportInv ==
    ASSUME PlayCore, NEW u \in Fighting, NEW t \in 0..MaxTick, OpenRound, draft.second = NoFighter, u # draft.first,
           draft' = SecondDefeat(u, t), defeats' = [defeats EXCEPT ![u] = t],
           UNCHANGED <<matchTick, lastTick, seat, energy, cooldown, plays, won, rounds>>
    PROVE  PlayCore'
<1> DEFINE f == draft.first
           ft == draft.firstTick
<1>1. /\ draft \in DraftType /\ f \in Fighting /\ PicksWell(draft.picks, draft.offer, f, NoFighter)
      /\ defeats \in [Fighting -> Int] /\ defeats[f] = ft /\ ~draft.granted
  BY DEF PlayCore, RoundWell, OrderWell, OpenRound
<1>2. ft \in Int /\ t \in Int /\ draft.granted \in BOOLEAN
  BY <1>1, PlayConstants DEF DraftType
<1>3. defeats' \in [Fighting -> Int] /\ defeats'[u] = t /\ defeats'[f] = ft
  BY <1>1, <1>2
<1>4. Rank(u) \in Nat /\ Rank(f) \in Nat /\ Rank(u) # Rank(f)
  BY <1>1, RankFacts
<1>5. u # NoFighter /\ f # NoFighter
  BY <1>1, PlayConstants
<1>6. t + ChoiceTicks \in Nat
  BY PlayConstants
<1>7. CASE t < ft \/ (t = ft /\ Rank(u) < Rank(f))
  <2>1. /\ draft' \in DraftType /\ draft'.first = u /\ draft'.second = f /\ draft'.firstTick = t
        /\ draft'.picks = draft.picks /\ draft'.offer = draft.offer /\ draft'.granted = draft.granted
    <3>1. CASE t < ft
      <4>1. draft' = [draft EXCEPT !.second = f, !.first = u, !.firstTick = t, !.deadline = t + ChoiceTicks]
        BY <3>1 DEF SecondDefeat
      <4> DEFINE a == [draft EXCEPT !.second = f]
                 b == [a EXCEPT !.first = u]
                 c == [b EXCEPT !.firstTick = t]
      <4>2. draft' = [c EXCEPT !.deadline = t + ChoiceTicks]
        BY <4>1
      <4>3. /\ a \in DraftType /\ a.second = f /\ a.picks = draft.picks /\ a.offer = draft.offer /\ a.granted = draft.granted
        BY <1>1 DEF DraftType, Picker
      <4> HIDE DEF a
      <4>4. /\ b \in DraftType /\ b.first = u /\ b.second = f /\ b.picks = draft.picks /\ b.offer = draft.offer /\ b.granted = draft.granted
        BY <4>3 DEF DraftType, Picker
      <4> HIDE DEF b
      <4>5. /\ c \in DraftType /\ c.firstTick = t /\ c.first = u /\ c.second = f /\ c.picks = draft.picks
            /\ c.offer = draft.offer /\ c.granted = draft.granted
        BY <4>4 DEF DraftType
      <4> HIDE DEF c
      <4> QED
        BY <1>6, <4>2, <4>5 DEF DraftType
    <3>2. CASE t = ft /\ Rank(u) < Rank(f)
      <4>1. ~(t < ft)
        BY <1>2, <3>2
      <4>2. draft' = [draft EXCEPT !.second = f, !.first = u]
        BY <3>2, <4>1 DEF SecondDefeat
      <4> DEFINE a == [draft EXCEPT !.second = f]
      <4>3. draft' = [a EXCEPT !.first = u]
        BY <4>2
      <4>4. /\ a \in DraftType /\ a.second = f /\ a.picks = draft.picks /\ a.offer = draft.offer
            /\ a.granted = draft.granted /\ a.firstTick = ft
        BY <1>1 DEF DraftType, Picker
      <4> HIDE DEF a, f, ft
      <4>5. /\ draft' \in DraftType /\ draft'.first = u /\ draft'.second = f /\ draft'.firstTick = ft
            /\ draft'.picks = draft.picks /\ draft'.offer = draft.offer /\ draft'.granted = draft.granted
        BY <4>3, <4>4 DEF DraftType, Picker
      <4> QED
        BY <3>2, <4>5
    <3> QED
      BY <1>7, <3>1, <3>2
  <2>2. PicksWell(draft'.picks, draft'.offer, draft'.first, draft'.second)
    <3> HIDE DEF f
    <3> QED
      BY <1>1, <2>1, PicksWiden
  <2>3. OrderWell(draft'.first, draft'.second, draft'.firstTick, defeats')
    <3>1. u # f
      OBVIOUS
    <3> HIDE DEF f, ft
    <3>2. defeats'[u] < defeats'[f] \/ (defeats'[u] = defeats'[f] /\ Rank(u) < Rank(f))
      BY <1>3, <1>7
    <3>3. OrderWell(u, f, t, defeats')
      BY <1>1, <1>3, <3>1, <3>2 DEF OrderWell
    <3> QED
      BY <2>1, <3>3
  <2> QED
    <3>1. RoundWell(draft', defeats')
      BY <2>1, <2>2, <2>3 DEF RoundWell
    <3>2. HandsWell' /\ TicksWell'
      BY <2>1 DEF PlayCore, HandsWell, TicksWell
    <3> QED
      BY <3>1, <3>2 DEF PlayCore
<1>8. CASE ~(t < ft \/ (t = ft /\ Rank(u) < Rank(f)))
  <2>1. draft' = [draft EXCEPT !.second = u]
    BY <1>8 DEF SecondDefeat
  <2>2. /\ draft' \in DraftType /\ draft'.first = f /\ draft'.second = u /\ draft'.firstTick = ft
        /\ draft'.picks = draft.picks /\ draft'.offer = draft.offer /\ draft'.granted = draft.granted
    BY <1>1, <2>1 DEF DraftType, Picker
  <2>3. PicksWell(draft'.picks, draft'.offer, draft'.first, draft'.second)
    <3> HIDE DEF f
    <3> QED
      BY <1>1, <2>2, PicksWiden
  <2>4. OrderWell(draft'.first, draft'.second, draft'.firstTick, defeats')
    <3>1. ft < t \/ (ft = t /\ Rank(f) < Rank(u))
      BY <1>2, <1>4, <1>8
    <3> HIDE DEF f, ft
    <3>2. u # f
      BY DEF f
    <3> QED
      BY <1>1, <1>3, <1>5, <2>2, <3>1, <3>2 DEF OrderWell
  <2> QED
    <3>1. RoundWell(draft', defeats')
      BY <1>1, <2>2, <2>3, <2>4 DEF RoundWell
    <3>2. HandsWell' /\ TicksWell'
      BY <2>2 DEF PlayCore, HandsWell, TicksWell
    <3> QED
      BY <3>1, <3>2 DEF PlayCore
<1> QED
  BY <1>7, <1>8

LEMMA SelectInv ==
    ASSUME PlayCore, NEW u \in Fighting, NEW c \in Pool, SelectRoundCard(u, c)
    PROVE  PlayCore'
<1> DEFINE g == [draft.picks EXCEPT ![u] = c]
           d == [draft EXCEPT !.picks = g]
<1>1. /\ MayPick(u, c)
      /\ IF DraftAllPicked(d) THEN GrantDraft(d, seat) ELSE draft' = d /\ UNCHANGED <<seat, won>>
      /\ UNCHANGED <<matchTick, lastTick, energy, cooldown, rounds, plays, defeats>>
  BY DEF SelectRoundCard
<1>2. RoundWell(draft, defeats) /\ HandsWell
  BY DEF PlayCore
<1>3. PicksWell(draft.picks, draft.offer, draft.first, draft.second) /\ draft.offer \in SUBSET Pool
  BY <1>2 DEF RoundWell, DraftType
<1>4. c \in draft.offer /\ c # NoCard /\ ~draft.granted
  BY <1>1, PlayConstants DEF MayPick, OpenRound
<1>5. u \in {draft.first, draft.second} /\ \A v \in Fighting : v # u => draft.picks[v] # c
  <2> DEFINE P == {v \in Fighting : draft.picks[v] # NoCard}
  <2>1. IsFiniteSet(P)
    <3>1. P \in SUBSET Fighting
      OBVIOUS
    <3> QED
      BY <3>1, FightingFinite, FS_Subset
  <2>2. \/ u = draft.first /\ Cardinality(P) = 0
        \/ u # draft.first /\ u = draft.second /\ c # draft.picks[draft.first]
    BY <1>1 DEF MayPick
  <2>3. CASE u = draft.first /\ Cardinality(P) = 0
    <3>1. P = {}
      <4> HIDE DEF P
      <4> QED
        BY <2>1, <2>3, FS_EmptySet
    <3> QED
      BY <1>4, <2>3, <3>1
  <2>4. CASE u # draft.first /\ u = draft.second /\ c # draft.picks[draft.first]
    <3>1. \A v \in Fighting : v # u => v = draft.first \/ draft.picks[v] = NoCard
      BY <1>3, <2>4 DEF PicksWell
    <3> QED
      BY <1>4, <2>4, <3>1
  <2> QED
    BY <2>2, <2>3, <2>4
<1>6. PicksWell(g, draft.offer, draft.first, draft.second)
  BY <1>3, <1>4, <1>5, OnePickMore
<1> HIDE DEF g
<1>7. /\ RoundWell(d, defeats) /\ d \in DraftType /\ PicksWell(d.picks, d.offer, d.first, d.second)
      /\ d.granted = draft.granted
      /\ RoundWell([d EXCEPT !.granted = TRUE], defeats) /\ [d EXCEPT !.granted = TRUE].granted = TRUE
  BY <1>2, <1>6, RoundChanges
<1> HIDE DEF d
<1>8. TicksWell'
  BY <1>1 DEF PlayCore, TicksWell
<1>9. CASE DraftAllPicked(d)
  <2>1. GrantDraft(d, seat)
    BY <1>1, <1>9
  <2>2. \A v \in Fighting : HandFits(seat[v]) /\ plays[v] \in Nat /\ won[v] \in Nat /\ Beyond(seat[v]) + plays[v] = won[v]
    BY <1>2 DEF HandsWell
  <2>3. rounds \in Nat /\ \A v \in Fighting : won[v] + 1 <= rounds
    BY <1>2, <1>4, PlayConstants DEF HandsWell
  <2>4. /\ draft' = [d EXCEPT !.granted = TRUE]
        /\ seat' \in [Fighting -> Dealt] /\ won' \in [Fighting -> Nat]
        /\ \A v \in Fighting : /\ HandFits(seat'[v]) /\ Beyond(seat'[v]) + plays[v] = won'[v] /\ won'[v] <= rounds
    BY <1>7, <2>1, <2>2, <2>3, Grants
  <2>5. RoundWell(draft', defeats') /\ draft'.granted = TRUE
    BY <1>1, <1>7, <2>4
  <2>6. HandsWell'
    BY <1>1, <1>2, <2>4, <2>5 DEF HandsWell
  <2> QED
    BY <1>8, <2>5, <2>6 DEF PlayCore
<1>10. CASE ~DraftAllPicked(d)
  <2>1. draft' = d /\ seat' = seat /\ won' = won
    BY <1>1, <1>10
  <2>2. RoundWell(draft', defeats')
    BY <1>1, <1>7, <2>1
  <2>3. HandsWell'
    BY <1>1, <1>2, <1>7, <2>1 DEF HandsWell
  <2> QED
    BY <1>8, <2>2, <2>3 DEF PlayCore
<1> QED
  BY <1>9, <1>10

(* The seats after an input, before the deadline of the draft is looked at. *)
SeatsAfter(u, t, i) == IF ~MayPlay(u, i, t) THEN seat ELSE [seat EXCEPT ![u] = Played(seat[u], i, u)]

LEMMA SeatsPlayed ==
    ASSUME PlayCore, NEW u \in Fighting, NEW t, NEW i, SubmitInput(u, t, i)
    PROVE  /\ SeatsAfter(u, t, i) \in [Fighting -> Dealt] /\ plays' \in [Fighting -> Nat]
           /\ \A v \in Fighting : /\ HandFits(SeatsAfter(u, t, i)[v])
                                  /\ Beyond(SeatsAfter(u, t, i)[v]) + plays'[v] = won[v]
<1> DEFINE seats == SeatsAfter(u, t, i)
<1>1. /\ seat \in [Fighting -> Dealt] /\ plays \in [Fighting -> Nat] /\ won \in [Fighting -> Nat]
      /\ \A v \in Fighting : HandFits(seat[v]) /\ Beyond(seat[v]) + plays[v] = won[v]
  BY DEF PlayCore, HandsWell
<1>2. CASE ~MayPlay(u, i, t)
  <2>1. seats = seat /\ plays' = [plays EXCEPT ![u] = plays[u] + 0]
    BY <1>2 DEF SeatsAfter, SubmitInput
  <2> HIDE DEF seats
  <2>2. plays' = plays
    <3>1. plays[u] \in Nat
      BY <1>1
    <3>2. plays[u] + 0 = plays[u]
      BY <3>1
    <3> QED
      BY <1>1, <2>1, <3>2
  <2> QED
    BY <1>1, <2>1, <2>2 DEF seats
<1>3. CASE MayPlay(u, i, t)
  <2> DEFINE s == Played(seat[u], i, u)
  <2>1. seats = [seat EXCEPT ![u] = s] /\ plays' = [plays EXCEPT ![u] = plays[u] + 1]
    BY <1>3 DEF SeatsAfter, SubmitInput
  <2>2. i \in DOMAIN seat[u].hand /\ HandFits(seat[u])
    BY <1>1, <1>3 DEF MayPlay
  <2>3. HandFits(s) /\ Beyond(s) = Beyond(seat[u]) - 1
    BY <2>2, PlayedHeld
  <2>4. s \in Dealt /\ plays[u] \in Nat /\ won[u] \in Nat /\ Beyond(seat[u]) \in Int /\ Beyond(seat[u]) + plays[u] = won[u]
    BY <1>1, <2>2, <2>3, SeatFields DEF HandFits
  <2> HIDE DEF s, seats
  <2>5. seats \in [Fighting -> Dealt] /\ plays' \in [Fighting -> Nat]
    BY <1>1, <2>1, <2>4
  <2>6. ASSUME NEW v \in Fighting PROVE HandFits(seats[v]) /\ Beyond(seats[v]) + plays'[v] = won[v]
    <3>1. CASE v = u
      <4>1. seats[v] = s /\ plays'[v] = plays[u] + 1
        BY <1>1, <2>1, <3>1
      <4>2. Beyond(s) + (plays[u] + 1) = won[u]
        BY <2>3, <2>4
      <4> QED
        BY <2>3, <3>1, <4>1, <4>2
    <3>2. CASE v # u
      BY <1>1, <2>1, <3>2
    <3> QED
      BY <3>1, <3>2
  <2> QED
    BY <2>5, <2>6 DEF seats
<1> QED
  BY <1>2, <1>3

LEMMA InputTicks ==
    ASSUME PlayCore, NEW u \in Fighting, NEW t \in 0..MaxTick, NEW i, SubmitInput(u, t, i)
    PROVE  TicksWell'
<1>1. /\ matchTick \in 0..MaxTick /\ lastTick \in [Fighting -> -1..MaxTick]
      /\ energy \in [Fighting -> 0..MaxEnergy] /\ cooldown \in [Fighting -> [Pool -> 0..(MaxTick + CardCooldown)]]
  BY DEF PlayCore, TicksWell
<1>2. MaxTick \in Nat /\ MaxEnergy \in Nat /\ CardCooldown \in Nat /\ t \in Nat
  BY PlayConstants
<1>3. matchTick' \in 0..MaxTick
  BY <1>1, <1>2 DEF SubmitInput, Bigger
<1>4. lastTick' \in [Fighting -> -1..MaxTick]
  <2>1. t \in -1..MaxTick /\ lastTick' = [lastTick EXCEPT ![u] = t]
    BY <1>2 DEF SubmitInput
  <2> QED
    BY <1>1, <2>1
<1>5. Accrued(u, t) \in 0..MaxEnergy
  <2>1. lastTick[u] \in Int /\ energy[u] \in 0..MaxEnergy
    BY <1>1, <1>2
  <2>2. Bigger(1, t - lastTick[u]) \in Nat
    BY <1>2, <2>1 DEF Bigger
  <2> DEFINE gain == Bigger(1, t - lastTick[u])
  <2>3. gain \in Nat
    BY <2>2
  <2> HIDE DEF gain
  <2>4. Lesser(MaxEnergy, energy[u] + gain) \in 0..MaxEnergy
    BY <1>2, <2>1, <2>3 DEF Lesser
  <2> QED
    BY <2>4 DEF Accrued, gain
<1>6. MayPlay(u, i, t) => seat[u].hand[i] \in Pool
  <2>1. HandFits(seat[u])
    BY DEF PlayCore, HandsWell
  <2> QED
    BY <2>1, PlayedHeld DEF MayPlay
<1>7. energy' \in [Fighting -> 0..MaxEnergy]
  <2> DEFINE rest == IF ~MayPlay(u, i, t) THEN Accrued(u, t) ELSE Paid(u, t, seat[u].hand[i])
  <2>1. energy' = [energy EXCEPT ![u] = rest]
    BY DEF SubmitInput
  <2>2. CASE ~MayPlay(u, i, t)
    <3>1. rest \in 0..MaxEnergy
      BY <1>5, <2>2
    <3> HIDE DEF rest
    <3> QED
      BY <1>1, <2>1, <3>1
  <2>3. CASE MayPlay(u, i, t)
    <3> DEFINE cost == CardCost[seat[u].hand[i]]
               gain == CardGain[seat[u].hand[i]]
    <3>1. rest = Lesser(MaxEnergy, Accrued(u, t) - cost + gain) /\ Accrued(u, t) >= cost
      BY <2>3 DEF MayPlay, Paid
    <3>2. cost \in Nat /\ gain \in Nat
      BY <1>6, <2>3, PlayConstants
    <3> HIDE DEF rest, cost, gain
    <3>3. rest \in 0..MaxEnergy
      BY <1>2, <1>5, <3>1, <3>2 DEF Lesser
    <3> QED
      BY <1>1, <2>1, <3>3
  <2> QED
    BY <2>2, <2>3
<1>8. cooldown' \in [Fighting -> [Pool -> 0..(MaxTick + CardCooldown)]]
  <2>1. CASE ~MayPlay(u, i, t)
    <3>1. cooldown' = cooldown
      BY <2>1 DEF SubmitInput
    <3> QED
      BY <1>1, <3>1
  <2>2. CASE MayPlay(u, i, t)
    <3> DEFINE c == seat[u].hand[i]
    <3>1. cooldown' = [cooldown EXCEPT ![u][c] = t + CardCooldown] /\ c \in Pool
      BY <1>6, <2>2 DEF SubmitInput
    <3>2. t + CardCooldown \in 0..(MaxTick + CardCooldown)
      BY <1>2
    <3> HIDE DEF c
    <3> QED
      BY <1>1, <3>1, <3>2
  <2> QED
    BY <2>1, <2>2
<1> QED
  BY <1>3, <1>4, <1>7, <1>8 DEF TicksWell

LEMMA InputInv ==
    ASSUME PlayCore, NEW u \in Fighting, NEW t \in 0..MaxTick, NEW i, SubmitInput(u, t, i)
    PROVE  PlayCore'
<1> DEFINE seats == SeatsAfter(u, t, i)
<1>1. /\ IF t > matchTick THEN ResolveDraftTimeout(t, seats) ELSE seat' = seats /\ UNCHANGED <<draft, won>>
      /\ rounds' = rounds /\ defeats' = defeats
  BY DEF SubmitInput, SeatsAfter
<1>2. /\ seats \in [Fighting -> Dealt] /\ plays' \in [Fighting -> Nat]
      /\ \A v \in Fighting : HandFits(seats[v]) /\ Beyond(seats[v]) + plays'[v] = won[v]
  BY SeatsPlayed
<1> HIDE DEF seats
<1>3. TicksWell'
  BY InputTicks
<1>4. RoundWell(draft, defeats) /\ HandsWell
  BY DEF PlayCore
<1>5. CASE seat' = seats /\ UNCHANGED <<draft, won>>
  <2>1. RoundWell(draft', defeats')
    BY <1>1, <1>4, <1>5
  <2>2. HandsWell'
    BY <1>1, <1>2, <1>4, <1>5 DEF HandsWell
  <2> QED
    BY <1>3, <2>1, <2>2 DEF PlayCore
<1>6. CASE Overdue(t) /\ ResolveDraftTimeout(t, seats)
  <2>1. PICK f \in AutoDraftPick(draft.picks, draft.first) :
        \E g \in AutoDraftPick(f, draft.second) : GrantDraft([draft EXCEPT !.picks = g], seats)
    BY <1>6 DEF ResolveDraftTimeout
  <2>2. PICK g \in AutoDraftPick(f, draft.second) : GrantDraft([draft EXCEPT !.picks = g], seats)
    BY <2>1
  <2>3. /\ PicksWell(draft.picks, draft.offer, draft.first, draft.second) /\ draft.offer \in SUBSET Pool
        /\ draft.first \in Picker /\ draft.second \in Picker /\ ~draft.granted
    BY <1>4, <1>6 DEF RoundWell, DraftType, Overdue, OpenRound
  <2>4. PicksWell(f, draft.offer, draft.first, draft.second)
    BY <2>1, <2>3, AutoPicksWell
  <2>5. PicksWell(g, draft.offer, draft.first, draft.second)
    BY <2>2, <2>3, <2>4, AutoPicksWell
  <2> DEFINE d == [draft EXCEPT !.picks = g]
  <2>6. /\ d \in DraftType /\ PicksWell(d.picks, d.offer, d.first, d.second)
        /\ RoundWell([d EXCEPT !.granted = TRUE], defeats) /\ [d EXCEPT !.granted = TRUE].granted = TRUE
    BY <1>4, <2>5, RoundChanges
  <2>7. GrantDraft(d, seats)
    BY <2>2
  <2> HIDE DEF d
  <2>8. \A v \in Fighting : HandFits(seats[v]) /\ plays'[v] \in Nat /\ won[v] \in Nat /\ Beyond(seats[v]) + plays'[v] = won[v]
    BY <1>2, <1>4 DEF HandsWell
  <2>9. rounds \in Nat /\ \A v \in Fighting : won[v] + 1 <= rounds
    BY <1>4, <2>3, PlayConstants DEF HandsWell
  <2>10. /\ draft' = [d EXCEPT !.granted = TRUE]
         /\ seat' \in [Fighting -> Dealt] /\ won' \in [Fighting -> Nat]
         /\ \A v \in Fighting : /\ HandFits(seat'[v]) /\ Beyond(seat'[v]) + plays'[v] = won'[v] /\ won'[v] <= rounds
    BY <2>6, <2>7, <2>8, <2>9, Grants
  <2>11. RoundWell(draft', defeats') /\ draft'.granted = TRUE
    BY <1>1, <2>6, <2>10
  <2>12. HandsWell'
    BY <1>1, <1>2, <1>4, <2>10, <2>11 DEF HandsWell
  <2> QED
    BY <1>3, <2>11, <2>12 DEF PlayCore
<1> QED
  BY <1>1, <1>5, <1>6 DEF ResolveDraftTimeout

LEMMA PlayNextCore == PlayCore /\ [PlayNext]_playVars => PlayCore'
<1> SUFFICES ASSUME PlayCore, [PlayNext]_playVars PROVE PlayCore'
  OBVIOUS
<1>1. ASSUME NEW u \in Fighting, NEW b \in DraftBosses, NEW t \in 0..MaxTick, ReportBossDefeat(u, b, t) PROVE PlayCore'
  <2>1. UNCHANGED <<matchTick, lastTick, seat, energy, cooldown, plays, won>>
    BY <1>1 DEF ReportBossDefeat
  <2>2. CASE ~OpenRound /\ OpenDraftRound(u, b, t)
    BY <2>1, <2>2, OpenRoundInv
  <2>3. CASE /\ OpenRound /\ draft.second = NoFighter /\ u # draft.first
             /\ draft' = SecondDefeat(u, t) /\ defeats' = [defeats EXCEPT ![u] = t] /\ UNCHANGED rounds
    BY <2>1, <2>3, SecondReportInv
  <2> QED
    BY <1>1, <2>2, <2>3 DEF ReportBossDefeat
<1>2. ASSUME NEW u \in Fighting, NEW c \in Pool, SelectRoundCard(u, c) PROVE PlayCore'
  BY <1>2, SelectInv
<1>3. ASSUME NEW u \in Fighting, NEW t \in 0..MaxTick, NEW i, SubmitInput(u, t, i) PROVE PlayCore'
  BY <1>3, InputInv
<1>4. CASE UNCHANGED playVars
  BY <1>4 DEF playVars, PlayCore, HandsWell, TicksWell
<1> QED
  BY <1>1, <1>2, <1>3, <1>4 DEF PlayNext

-----------------------------------------------------------------------------
(* BattlePlay: who chooses first.                                          *)

(* The second picker holds a card before the first one only if the first   *)
(* one was reported after a pick.                                          *)
ChoiceWell ==
    draft.second # NoFighter /\ draft.first \notin late /\ draft.picks[draft.second] # NoCard
       => draft.picks[draft.first] # NoCard

PlayInv == PlayCore /\ ChoiceWell

LEMMA SecondFields ==
    ASSUME draft \in DraftType, NEW u, NEW t, draft' = SecondDefeat(u, t)
    PROVE  /\ draft'.picks = draft.picks
           /\ \/ draft'.first = u /\ draft'.second = draft.first
              \/ draft'.first = draft.first /\ draft'.second = u
<1>1. CASE draft' = [draft EXCEPT !.second = draft.first, !.first = u, !.firstTick = t, !.deadline = t + ChoiceTicks]
  BY <1>1 DEF DraftType
<1>2. CASE draft' = [draft EXCEPT !.second = draft.first, !.first = u]
  BY <1>2 DEF DraftType
<1>3. CASE draft' = [draft EXCEPT !.second = u]
  BY <1>3 DEF DraftType
<1> QED
  BY <1>1, <1>2, <1>3 DEF SecondDefeat

LEMMA SecondReportChoice ==
    ASSUME PlayCore, NEW u \in Fighting, NEW t, OpenRound, draft.second = NoFighter, u # draft.first,
           draft' = SecondDefeat(u, t), late' = IF Taken(draft.picks) = {} THEN late ELSE late \cup {u}
    PROVE  ChoiceWell'
<1> DEFINE f == draft.first
<1>1. draft \in DraftType /\ f \in Fighting /\ \A v \in Fighting : draft.picks[v] # NoCard => v \in {f, NoFighter}
  BY DEF PlayCore, RoundWell, PicksWell, OpenRound
<1>2. draft'.picks = draft.picks /\ ((draft'.first = u /\ draft'.second = f) \/ (draft'.first = f /\ draft'.second = u))
  BY <1>1, SecondFields
<1>3. CASE draft'.first = u /\ draft'.second = f
  <2>1. draft.picks[f] # NoCard => Taken(draft.picks) # {}
    BY <1>1 DEF Taken
  <2>2. draft.picks[f] # NoCard => u \in late'
    BY <2>1
  <2> QED
    BY <1>2, <1>3, <2>2 DEF ChoiceWell
<1>4. CASE draft'.first = f /\ draft'.second = u
  <2>1. draft.picks[u] = NoCard
    BY <1>1, PlayConstants
  <2> QED
    BY <1>2, <1>4, <2>1 DEF ChoiceWell
<1> QED
  BY <1>2, <1>3, <1>4

(* A round with other picks, open or granted.                              *)
LEMMA PicksFields ==
    ASSUME draft \in DraftType, NEW g,
           \/ draft' = [draft EXCEPT !.picks = g]
           \/ draft' = [[draft EXCEPT !.picks = g] EXCEPT !.granted = TRUE]
    PROVE  draft'.picks = g /\ draft'.first = draft.first /\ draft'.second = draft.second
<1> DEFINE e == [draft EXCEPT !.picks = g]
<1>1. e.picks = g /\ e.first = draft.first /\ e.second = draft.second /\ DOMAIN e = DOMAIN draft
  BY DEF DraftType
<1>2. DOMAIN draft = {"boss", "first", "second", "firstTick", "offer", "picks", "granted", "deadline"}
  BY DEF DraftType
<1>3. draft' = e \/ draft' = [e EXCEPT !.granted = TRUE]
  OBVIOUS
<1> HIDE DEF e
<1>4. CASE draft' = e
  BY <1>1, <1>4
<1>5. CASE draft' = [e EXCEPT !.granted = TRUE]
  BY <1>1, <1>2, <1>5
<1> QED
  BY <1>3, <1>4, <1>5

LEMMA SelectChoice ==
    ASSUME PlayCore, ChoiceWell, NEW u \in Fighting, NEW c \in Pool, SelectRoundCard(u, c)
    PROVE  ChoiceWell'
<1> DEFINE p == draft.picks
           g == [draft.picks EXCEPT ![u] = c]
           P == {v \in Fighting : draft.picks[v] # NoCard}
<1>1. /\ draft \in DraftType /\ draft.first \in Fighting /\ draft.second \in Picker /\ p \in [Fighting -> Pool \cup {NoCard}]
      /\ \A v \in Fighting : p[v] # NoCard => v \in {draft.first, draft.second}
      /\ draft.second # NoFighter => draft.first # draft.second
  BY DEF PlayCore, RoundWell, PicksWell, OrderWell, DraftType, SelectRoundCard, MayPick, OpenRound
<1>2. late' = late /\ (draft' = [draft EXCEPT !.picks = g] \/ draft' = [[draft EXCEPT !.picks = g] EXCEPT !.granted = TRUE])
  BY DEF SelectRoundCard, GrantDraft, Granted
<1>3. draft'.picks = g /\ draft'.first = draft.first /\ draft'.second = draft.second
  BY <1>1, <1>2, PicksFields
<1>4. c # NoCard
  BY PlayConstants
<1>5. g[u] = c /\ \A v \in Fighting : v # u => g[v] = p[v]
  BY <1>1
<1>6. u = draft.first \/ (u = draft.second /\ Cardinality(P) = 1)
  BY DEF SelectRoundCard, MayPick
<1> HIDE DEF g
<1>7. CASE u = draft.first
  BY <1>3, <1>4, <1>5, <1>7 DEF ChoiceWell
<1>8. CASE u # draft.first /\ u = draft.second /\ Cardinality(P) = 1
  <2>1. CASE p[draft.first] # NoCard
    BY <1>1, <1>3, <1>5, <1>8, <2>1 DEF ChoiceWell
  <2>2. CASE p[draft.first] = NoCard
    <3>1. P # {}
      BY <1>8, FS_EmptySet
    <3>2. p[u] # NoCard
      BY <1>1, <1>8, <2>2, <3>1
    <3>3. draft.second # NoFighter
      BY <1>8, PlayConstants
    <3>4. draft.first \in late
      BY <1>8, <2>2, <3>2, <3>3 DEF ChoiceWell
    <3> QED
      BY <1>2, <1>3, <3>4 DEF ChoiceWell
  <2> QED
    BY <2>1, <2>2
<1> QED
  BY <1>6, <1>7, <1>8

LEMMA InputChoice ==
    ASSUME PlayCore, ChoiceWell, NEW u \in Fighting, NEW t, NEW i, SubmitInput(u, t, i)
    PROVE  ChoiceWell'
<1> DEFINE seats == SeatsAfter(u, t, i)
<1>1. /\ IF t > matchTick THEN ResolveDraftTimeout(t, seats) ELSE seat' = seats /\ UNCHANGED <<draft, won>>
      /\ late' = late
  BY DEF SubmitInput, SeatsAfter
<1> HIDE DEF seats
<1>2. CASE draft' = draft
  BY <1>1, <1>2 DEF ChoiceWell
<1>3. CASE Overdue(t) /\ ResolveDraftTimeout(t, seats)
  <2>1. PICK f \in AutoDraftPick(draft.picks, draft.first) :
        \E g \in AutoDraftPick(f, draft.second) : GrantDraft([draft EXCEPT !.picks = g], seats)
    BY <1>3 DEF ResolveDraftTimeout
  <2>2. PICK g \in AutoDraftPick(f, draft.second) : GrantDraft([draft EXCEPT !.picks = g], seats)
    BY <2>1
  <2>3. /\ draft \in DraftType /\ draft.first \in Fighting /\ draft.second \in Picker
        /\ draft.picks \in [Fighting -> Pool \cup {NoCard}] /\ draft.offer \in SUBSET Pool
        /\ draft.second # NoFighter => draft.first # draft.second /\ draft.second \in Fighting
    BY <1>3 DEF PlayCore, RoundWell, DraftType, OrderWell, Overdue, OpenRound
  <2>4. draft'.picks = g /\ draft'.first = draft.first /\ draft'.second = draft.second
    <3>1. draft' = [[draft EXCEPT !.picks = g] EXCEPT !.granted = TRUE]
      BY <2>2 DEF GrantDraft, Granted
    <3> QED
      BY <2>3, <3>1, PicksFields
  <2>5. draft.first # NoFighter /\ NoCard \notin draft.offer
    BY <2>3, PlayConstants
  <2>6. f \in [Fighting -> Pool \cup {NoCard}] /\ (f[draft.first] # NoCard \/ (f = draft.picks /\ draft.offer \ Taken(f) = {}))
    <3>1. CASE draft.picks[draft.first] # NoCard \/ draft.offer \ Taken(draft.picks) = {}
      BY <2>1, <2>3, <2>5, <3>1 DEF AutoDraftPick
    <3>2. CASE ~(draft.picks[draft.first] # NoCard \/ draft.offer \ Taken(draft.picks) = {})
      <4>1. PICK c \in draft.offer \ Taken(draft.picks) : f = [draft.picks EXCEPT ![draft.first] = c]
        BY <2>1, <2>5, <3>2 DEF AutoDraftPick
      <4>2. c \in Pool /\ c # NoCard
        BY <2>3, <2>5
      <4> QED
        BY <2>3, <4>1, <4>2
    <3> QED
      BY <3>1, <3>2
  <2>7. CASE f[draft.first] # NoCard
    <3>1. g = f \/ (draft.second # NoFighter /\ \E c : g = [f EXCEPT ![draft.second] = c])
      BY <2>2 DEF AutoDraftPick
    <3>2. g[draft.first] # NoCard
      BY <2>3, <2>6, <2>7, <3>1
    <3> QED
      BY <2>4, <3>2 DEF ChoiceWell
  <2>8. CASE f = draft.picks /\ draft.offer \ Taken(f) = {}
    <3>1. g = draft.picks
      BY <2>2, <2>8 DEF AutoDraftPick
    <3> QED
      BY <1>1, <2>4, <3>1 DEF ChoiceWell
  <2> QED
    BY <2>6, <2>7, <2>8
<1> QED
  BY <1>1, <1>2, <1>3 DEF ResolveDraftTimeout

LEMMA PlayInitInv == PlayInit => PlayInv
<1> SUFFICES ASSUME PlayInit PROVE ChoiceWell
  BY PlayInitCore DEF PlayInv
<1>1. draft.second = NoFighter
  BY DEF PlayInit, NoDraft
<1> QED
  BY <1>1 DEF ChoiceWell

LEMMA PlayNextInv == PlayInv /\ [PlayNext]_playVars => PlayInv'
<1> SUFFICES ASSUME PlayCore, ChoiceWell, [PlayNext]_playVars PROVE ChoiceWell'
  BY PlayNextCore DEF PlayInv
<1>1. ASSUME NEW u \in Fighting, NEW b \in DraftBosses, NEW t \in 0..MaxTick, ReportBossDefeat(u, b, t) PROVE ChoiceWell'
  <2>1. CASE OpenDraftRound(u, b, t)
    <3>1. PICK offer \in Offers : draft' = [NoDraft EXCEPT !.boss = b, !.first = u, !.firstTick = t, !.offer = offer,
                                       !.granted = FALSE, !.deadline = t + ChoiceTicks]
      BY <2>1 DEF OpenDraftRound
    <3>2. draft'.second = NoFighter
      BY <3>1 DEF NoDraft
    <3> QED
      BY <3>2 DEF ChoiceWell
  <2>2. CASE /\ OpenRound /\ draft.second = NoFighter /\ u # draft.first
             /\ draft' = SecondDefeat(u, t) /\ late' = IF Taken(draft.picks) = {} THEN late ELSE late \cup {u}
    BY <2>2, SecondReportChoice
  <2> QED
    BY <1>1, <2>1, <2>2 DEF ReportBossDefeat
<1>2. ASSUME NEW u \in Fighting, NEW c \in Pool, SelectRoundCard(u, c) PROVE ChoiceWell'
  BY <1>2, SelectChoice
<1>3. ASSUME NEW u \in Fighting, NEW t \in 0..MaxTick, NEW i, SubmitInput(u, t, i) PROVE ChoiceWell'
  BY <1>3, InputChoice
<1>4. CASE UNCHANGED playVars
  BY <1>4 DEF playVars, ChoiceWell
<1> QED
  BY <1>1, <1>2, <1>3, <1>4 DEF PlayNext

LEMMA PlayInvImplies == PlayInv => PlayTypeOK /\ DraftHolds
<1> SUFFICES ASSUME PlayCore, ChoiceWell PROVE PlayTypeOK /\ DraftHolds
  BY DEF PlayInv
<1>1. DraftIsFair
  <2> SUFFICES ASSUME draft.second # NoFighter PROVE DraftIsFair
    BY DEF DraftIsFair
  <2>1. \/ defeats[draft.first] < defeats[draft.second]
        \/ defeats[draft.first] = defeats[draft.second] /\ Rank(draft.first) < Rank(draft.second)
    BY DEF PlayCore, RoundWell, OrderWell
  <2>2. /\ \A u \in Fighting : draft.picks[u] # NoCard => draft.picks[u] \in draft.offer
        /\ \A u, v \in Fighting : u # v /\ draft.picks[u] # NoCard => draft.picks[u] # draft.picks[v]
    BY DEF PlayCore, RoundWell, PicksWell
  <2>3. Taken(draft.picks) \subseteq draft.offer
    BY <2>2 DEF Taken
  <2>4. draft.first \notin late /\ draft.picks[draft.second] # NoCard => draft.picks[draft.first] # NoCard
    BY DEF ChoiceWell
  <2> QED
    BY <2>1, <2>2, <2>3, <2>4 DEF DraftIsFair
<1>2. CardsConserved
  <2> SUFFICES ASSUME NEW u \in Fighting
               PROVE  /\ Len(seat[u].hand) + Len(seat[u].pending) + plays[u] = seat[u].cursor + won[u]
                      /\ won[u] <= rounds
    BY DEF CardsConserved
  <2>1. HandFits(seat[u]) /\ plays[u] \in Nat /\ won[u] \in Nat /\ Beyond(seat[u]) + plays[u] = won[u] /\ won[u] <= rounds
    BY DEF PlayCore, HandsWell
  <2> DEFINE a == Len(seat[u].hand)
             b == Len(seat[u].pending)
             k == seat[u].cursor
  <2>2. a \in Nat /\ b \in Nat /\ k \in Nat /\ Beyond(seat[u]) = a + b - k
    BY <2>1, SeatFields DEF Beyond
  <2> HIDE DEF a, b, k
  <2>3. a + b + plays[u] = k + won[u]
    BY <2>1, <2>2
  <2> QED
    BY <2>1, <2>3 DEF a, b, k
<1>3. PlayTypeOK
  <2>1. \A u \in Fighting :
          /\ Len(seat[u].hand) \in 0..HandLimit
          /\ \A q \in {seat[u].hand, seat[u].pending} : \A i \in DOMAIN q : q[i] \in Pool
    <3> TAKE u \in Fighting
    <3>1. HandFits(seat[u])
      BY DEF PlayCore, HandsWell
    <3>2. seat[u].hand \in Seq(Pool) /\ seat[u].pending \in Seq(Pool) /\ Len(seat[u].hand) \in Nat /\ Len(seat[u].hand) <= HandLimit
      BY <3>1, SeatFields
    <3>3. Len(seat[u].hand) \in 0..HandLimit
      BY <3>2, PlayConstants
    <3> QED
      BY <3>2, <3>3
  <2>2. /\ draft.picks \in [Fighting -> Pool \cup {NoCard}]
        /\ {draft.first, draft.second} \subseteq Fighting \cup {NoFighter}
    BY DEF PlayCore, RoundWell, DraftType, Picker
  <2>3. rounds \in 0..MaxRounds
    BY DEF PlayCore, HandsWell
  <2> QED
    BY <2>1, <2>2, <2>3 DEF PlayCore, TicksWell, PlayTypeOK
<1> QED
  BY <1>1, <1>2, <1>3 DEF DraftHolds

(* However reports, picks, inputs and deadlines interleave, the first      *)
(* picker of a round is the player who beat the boss first and nobody      *)
(* chooses before him, unless he was reported only after the other had     *)
(* chosen; the players of a round end up with different cards of its       *)
(* offer, and no card is lost or doubled (recordDraftDefeatLocked,         *)
(* applyMixedPoolDraftPickLocked, grantDraftLocked, promotePendingGrants), *)
(* for any decks, hand limit and number of players.                        *)
THEOREM DraftsHold == PlaySpec => []DraftHolds
BY PlayInitInv, PlayNextInv, PlayInvImplies, PTL DEF PlaySpec

-----------------------------------------------------------------------------
(* ModeActions                                                             *)

LEMMA ModeConstants ==
    /\ IsFiniteSet(Seats) /\ Cardinality(Seats) <= SelectionCap
    /\ RoundTicks \in Nat \ {0} /\ MatchTicks \in Nat \ {0} /\ SelectionCap \in Nat \ {0}
    /\ ActionCap \in Nat \ {0} /\ EventCap \in Nat \ {0} /\ PageSize \in Nat \ {0}
    /\ GiftBudget \in Nat \ {0} /\ MaxActions \in Nat /\ MaxEvents \in Nat /\ DOMAIN SeatDeck = Seats
    /\ GiftCost \in [DOMAIN GiftCost -> Nat \ {0}]
BY ModeActionsAssumptions

Picked == [round : Nat, user : Seats, id : Nat]

(* The log holds the last numbers given out, without a gap.                *)
LogInv ==
    /\ eventSeq \in Nat /\ eventSeq <= MaxEvents
    /\ log \in Seq(Nat)
    /\ Len(log) <= eventSeq
    /\ \A i \in 1..Len(log) : log[i] = (eventSeq - Len(log)) + i
    /\ cursor \in 0..eventSeq
    /\ DOMAIN page = {"after", "events", "oldest"}
    /\ NoSilentGap

RetainedInv ==
    /\ seq \in 0..MaxActions
    /\ retained = {s \in 1..seq : s > seq - ActionCap}

(* A seat has one selection a round, and none is from the future.          *)
SelectionInv ==
    /\ tick \in 0..MatchTicks
    /\ selections \subseteq Picked /\ live \subseteq Picked
    /\ IsFiniteSet(selections)
    /\ Cardinality(selections) <= SelectionCap
    /\ \A x, y \in selections : x.round = y.round /\ x.user = y.user => x = y
    /\ \A x \in live : x.round <= CurrentRound
    /\ \A x \in live : x.round = CurrentRound => x \in selections

IdsInv == \A x \in selections \cup live \cup transfers : x.id \in 1..seq

PlainInv ==
    /\ mode \in {"battle_royale", "boss"}
    /\ phase \in {"loading", "running", "ended"}
    /\ online \subseteq Seats /\ ready \subseteq Seats
    /\ charges \in [Seats -> 0..GiftBudget]
    /\ transfers \subseteq [card : UNION {SeatDeck[u] : u \in Seats}, from : Seats, to : Seats, id : Nat]
    /\ \A s, t \in transfers : s.card = t.card => s = t

ModeInv == LogInv /\ RetainedInv /\ SelectionInv /\ IdsInv /\ PlainInv

LEMMA RoundFacts ==
    ASSUME NEW t \in Nat
    PROVE  t \div RoundTicks \in Nat /\ t \div RoundTicks <= (t + 1) \div RoundTicks /\ (t + 1) \div RoundTicks \in Nat
<1>1. RoundTicks \in Nat \ {0} /\ t + 1 \in Nat
  BY ModeConstants
<1>2. t \div RoundTicks \in Nat
  BY <1>1
<1>3. t \div RoundTicks <= (t + 1) \div RoundTicks
  BY <1>1
<1>4. (t + 1) \div RoundTicks \in Nat
  BY <1>1
<1> QED
  BY <1>2, <1>3, <1>4

(* appendMatchEventLocked continues the numbers.                           *)
LEMMA AppendMatchEventsInv ==
    ASSUME LogInv, NEW m \in Nat, AppendMatchEvents(m), UNCHANGED <<cursor, page>>
    PROVE  LogInv'
<1> DEFINE n == Len(log)
           e == eventSeq
           tail == [i \in 1..m |-> e + i]
           longer == log \o tail
           b == n + m - EventCap
<1>1. n \in Nat /\ e \in Nat /\ n <= e /\ EventCap \in Nat /\ EventCap > 0 /\ n + m \in Nat
  BY ModeConstants DEF LogInv
<1>2. eventSeq' = e + m /\ log' = Newest(longer, EventCap) /\ e + m <= MaxEvents
  BY DEF AppendMatchEvents
<1>3. longer \in Seq(Nat) /\ Len(longer) = n + m /\ \A i \in 1..(n + m) : longer[i] = (e - n) + i
  <2>1. log \in Seq(Nat) /\ \A i \in 1..n : log[i] = (e - n) + i
    BY DEF LogInv
  <2>2. tail \in Seq(Nat) /\ Len(tail) = m /\ \A i \in 1..m : tail[i] = e + i
    <3>1. \A i \in 1..m : e + i \in Nat
      BY <1>1
    <3> QED
      BY <3>1
  <2> HIDE DEF tail, e
  <2>3. longer \in Seq(Nat) /\ Len(longer) = n + m
    <3>1. longer \in Seq(Nat)
      BY <2>1, <2>2
    <3>2. Len(longer) = Len(log) + Len(tail)
      BY <2>1, <2>2, ConcatProperties
    <3> QED
      BY <2>2, <3>1, <3>2
  <2>4. \A i \in 1..(n + m) : longer[i] = IF i <= n THEN log[i] ELSE tail[i - n]
    BY <2>1, <2>2
  <2> HIDE DEF longer, n
  <2>5. ASSUME NEW i \in 1..(n + m) PROVE longer[i] = (e - n) + i
    <3>1. CASE i <= n
      <4>1. i \in 1..n
        BY <1>1, <3>1
      <4> QED
        BY <2>1, <2>4, <3>1, <4>1
    <3>2. CASE ~(i <= n)
      <4>1. i - n \in 1..m /\ e + (i - n) = (e - n) + i
        BY <1>1, <3>2
      <4> QED
        BY <2>2, <2>4, <3>2, <4>1
    <3> QED
      BY <3>1, <3>2
  <2> QED
    BY <2>3, <2>5
<1> HIDE DEF longer, tail
<1>4. log' \in Seq(Nat) /\ Len(log') <= e + m /\ \A i \in 1..Len(log') : log'[i] = (e + m - Len(log')) + i
  <2> HIDE DEF n, e
  <2>1. CASE n + m > EventCap
    <3>1. log' = SubSeq(longer, b + 1, n + m)
      BY <1>1, <1>2, <1>3, <2>1 DEF Newest
    <3>2. b \in Nat /\ b + 1 \in 1..(n + m) /\ n + m - (b + 1) + 1 = EventCap
      BY <1>1, <2>1
    <3> HIDE DEF b
    <3>3. log' \in Seq(Nat) /\ Len(log') = EventCap /\ \A i \in 1..EventCap : log'[i] = longer[b + i]
      <4>1. \A i \in (b + 1)..(n + m) : longer[i] \in Nat
        BY <1>3, <3>2
      <4>2. b + 1 \in Int /\ n + m \in Int /\ b + 1 <= n + m + 1
        BY <1>1, <3>2
      <4>3. Len(log') = EventCap
        BY <1>1, <3>1, <3>2, <4>2
      <4>4. \A i \in 1..EventCap : log'[i] = longer[(b + 1) + i - 1]
        BY <1>1, <3>1, <3>2, <4>2
      <4>5. log' \in Seq(Nat)
        BY <3>1, <4>1, <4>2
      <4>6. \A i \in 1..EventCap : (b + 1) + i - 1 = b + i
        BY <3>2
      <4> QED
        BY <4>3, <4>4, <4>5, <4>6
    <3>4. \A i \in 1..EventCap : b + i \in 1..(n + m) /\ (e - n) + (b + i) = (e + m - EventCap) + i
      BY <1>1, <3>2 DEF b
    <3>5. EventCap <= e + m
      BY <1>1, <2>1
    <3> QED
      BY <1>3, <3>3, <3>4, <3>5
  <2>2. CASE ~(n + m > EventCap)
    <3>1. log' = longer
      BY <1>2, <1>3, <2>2 DEF Newest
    <3>2. Len(log') = n + m /\ \A i \in 1..(n + m) : log'[i] = (e - n) + i
      BY <1>3, <3>1
    <3>3. \A i \in 1..(n + m) : (e - n) + i = (e + m - (n + m)) + i
      BY <1>1
    <3>4. n + m <= e + m
      BY <1>1
    <3> QED
      BY <1>3, <3>1, <3>2, <3>3, <3>4
  <2> QED
    BY <2>1, <2>2
<1>5. eventSeq' \in Nat /\ eventSeq' <= MaxEvents /\ cursor' \in 0..eventSeq'
  BY <1>1, <1>2 DEF LogInv
<1>6. NoSilentGap' /\ DOMAIN page' = {"after", "events", "oldest"}
  BY DEF LogInv, NoSilentGap
<1> HIDE DEF e
<1>7. Len(log') <= eventSeq' /\ \A i \in 1..Len(log') : log'[i] = (eventSeq' - Len(log')) + i
  <2>1. Len(log') \in Nat
    BY <1>4
  <2> QED
    BY <1>1, <1>2, <1>4, <2>1
<1> QED
  BY <1>4, <1>5, <1>6, <1>7 DEF LogInv

(* The loop of MatchEvents over the first entries of the log.              *)
PageRun(n, events, after) ==
    events = [i \in 0..n |->
       IF i = 0 THEN <<>>
       ELSE IF log[i] <= after \/ Len(events[i - 1]) >= PageSize THEN events[i - 1]
       ELSE Append(events[i - 1], log[i])]

LEMMA PageExists ==
    ASSUME NEW after, NEW k \in Nat
    PROVE  \E events : PageRun(k, events, after)
<1> DEFINE Step(prev, i) == IF log[i] <= after \/ Len(prev) >= PageSize THEN prev ELSE Append(prev, log[i])
           T == {n \in Nat : ~\E events : PageRun(n, events, after)}
<1>1. ASSUME T # {} PROVE FALSE
  <2>1. PICK n \in T : \A y \in T : n <= y
    BY <1>1, LeastOf
  <2>2. n # 0
    <3>1. PageRun(0, [i \in 0..0 |-> <<>>], after)
      BY DEF PageRun
    <3> QED
      BY <2>1, <3>1
  <2>3. n - 1 \in Nat /\ n - 1 \notin T /\ n \in Nat
    <3>1. n \in Nat
      BY <2>1
    <3> HIDE DEF T
    <3> QED
      BY <2>1, <2>2, <3>1
  <2>4. PICK events : PageRun(n - 1, events, after)
    BY <2>3
  <2> DEFINE next == [i \in 0..n |-> IF i = n THEN Step(events[n - 1], n) ELSE events[i]]
  <2> HIDE DEF Step
  <2>5. \A i \in 0..(n - 1) : next[i] = events[i]
    BY <2>3
  <2>6. \A i \in 0..(n - 1) : events[i] = IF i = 0 THEN <<>> ELSE Step(events[i - 1], i)
    BY <2>3, <2>4 DEF PageRun, Step
  <2>7. ASSUME NEW i \in 0..n PROVE next[i] = IF i = 0 THEN <<>> ELSE Step(next[i - 1], i)
    <3>1. CASE i = n
      <4>1. next[n - 1] = events[n - 1]
        BY <2>2, <2>3, <2>5
      <4>2. next[n] = Step(events[n - 1], n)
        BY <2>3
      <4> HIDE DEF next
      <4> QED
        BY <2>2, <3>1, <4>1, <4>2
    <3>2. CASE i # n
      <4>1. i \in 0..(n - 1) /\ (i # 0 => i - 1 \in 0..(n - 1))
        BY <2>3, <3>2
      <4> HIDE DEF next
      <4> QED
        BY <2>5, <2>6, <4>1
    <3> QED
      BY <3>1, <3>2
  <2>8. PageRun(n, next, after)
    <3>1. next = [i \in 0..n |-> next[i]]
      OBVIOUS
    <3> HIDE DEF next
    <3> QED
      BY <2>7, <3>1 DEF PageRun, Step
  <2> QED
    BY <2>1, <2>8
<1> QED
  BY <1>1

(* An answer holds the numbers that follow the cursor, or the oldest entry *)
(* of the log when the cursor is behind it.                                *)
LEMMA PageFacts ==
    ASSUME LogInv, NEW after \in 0..eventSeq
    PROVE  \E first \in Nat :
              /\ first = IF after > eventSeq - Len(log) THEN after ELSE eventSeq - Len(log)
              /\ Len(Page(after)) \in Nat
              /\ first + Len(Page(after)) <= eventSeq
              /\ Page(after) \in Seq(Nat)
              /\ \A j \in 1..Len(Page(after)) : Page(after)[j] = first + j
<1> DEFINE n == Len(log)
           base == eventSeq - n
           first == IF after > base THEN after ELSE base
           skip == first - base
           P == PageSize
           ev == CHOOSE f : PageRun(n, f, after)
<1>1. n \in Nat /\ base \in Nat /\ eventSeq \in Nat /\ n = eventSeq - base /\ P \in Nat /\ P > 0
  BY ModeConstants DEF LogInv
<1>2. \A i \in 1..n : log[i] = base + i
  BY DEF LogInv
<1>3. PageRun(n, ev, after)
  BY <1>1, PageExists
<1>4. Page(after) = ev[n]
  BY DEF Page, PageRun
<1> HIDE DEF ev, n, base, P
<1>5. first \in Nat /\ skip \in Nat /\ first = base + skip /\ skip <= n /\ (after > base => skip = after - base)
      /\ (~(after > base) => skip = 0)
  BY <1>1
<1>6. /\ ev[0] = <<>>
      /\ \A i \in 1..n : ev[i] = IF log[i] <= after \/ Len(ev[i - 1]) >= P THEN ev[i - 1] ELSE Append(ev[i - 1], log[i])
  <2>1. 0 \in 0..n /\ \A i \in 1..n : i \in 0..n /\ i # 0
    BY <1>1
  <2> QED
    BY <1>3, <2>1 DEF PageRun, P
<1>7. \A i \in 1..n : log[i] <= after <=> i <= skip
  BY <1>1, <1>2, <1>5
<1> HIDE DEF first, skip
<1> DEFINE PageLen(i) == IF i <= skip THEN 0 ELSE IF i - skip <= P THEN i - skip ELSE P
           Good(i) == /\ ev[i] \in Seq(Nat) /\ Len(ev[i]) = PageLen(i)
                      /\ \A j \in 1..PageLen(i) : ev[i][j] = first + j
           T == {i \in 0..n : ~Good(i)}
<1>8. Good(0)
  <2>1. PageLen(0) = 0
    BY <1>5
  <2> HIDE DEF PageLen
  <2> QED
    BY <1>6, <2>1
<1>9. ASSUME NEW i \in 1..n, Good(i - 1) PROVE Good(i)
  <2> DEFINE prev == ev[i - 1]
             k == PageLen(i - 1)
  <2>1. prev \in Seq(Nat) /\ Len(prev) = k /\ \A j \in 1..k : prev[j] = first + j
    BY <1>9
  <2>2. k \in Nat
    BY <1>1, <1>5
  <2>3. CASE log[i] <= after \/ k >= P
    <3>1. ev[i] = prev
      BY <1>6, <2>1, <2>3
    <3>2. PageLen(i) = k
      <4>1. i <= skip \/ k >= P
        BY <1>7, <2>3
      <4> QED
        BY <1>1, <1>5, <4>1
    <3> HIDE DEF PageLen, k, prev
    <3> QED
      BY <2>1, <3>1, <3>2
  <2>4. CASE ~(log[i] <= after \/ k >= P)
    <3>1. ev[i] = Append(prev, log[i])
      BY <1>6, <2>1, <2>4
    <3>2. PageLen(i) = k + 1 /\ base + i = first + (k + 1)
      <4>1. i > skip /\ k < P
        BY <1>1, <1>5, <1>7, <2>2, <2>4
      <4> QED
        BY <1>1, <1>5, <4>1
    <3>3. log[i] = first + (k + 1) /\ log[i] \in Nat
      BY <1>1, <1>2, <3>2
    <3> HIDE DEF PageLen, k, prev
    <3>4. ev[i] \in Seq(Nat) /\ Len(ev[i]) = k + 1 /\ ev[i][k + 1] = log[i] /\ \A j \in 1..k : ev[i][j] = prev[j]
      BY <2>1, <2>2, <3>1, <3>3
    <3>5. \A j \in 1..(k + 1) : j \in 1..k \/ j = k + 1
      BY <2>2
    <3> QED
      BY <2>1, <3>2, <3>3, <3>4, <3>5
  <2> QED
    BY <2>3, <2>4
<1> HIDE DEF Good
<1>10. T = {}
  <2> SUFFICES ASSUME T # {} PROVE FALSE
    OBVIOUS
  <2>1. T \in SUBSET Nat
    BY <1>1
  <2>2. PICK i \in T : \A y \in T : i <= y
    BY <2>1, LeastOf
  <2>3. i \in 1..n /\ i - 1 \in 0..n
    BY <1>1, <1>8, <2>2
  <2>4. Good(i - 1)
    BY <2>2, <2>3
  <2> QED
    BY <1>9, <2>2, <2>3, <2>4
<1>11. Good(n)
  <2>1. n \in 0..n
    BY <1>1
  <2> QED
    BY <1>10, <2>1
<1>12. PageLen(n) \in Nat /\ first + PageLen(n) <= eventSeq
  BY <1>1, <1>5
<1> HIDE DEF PageLen
<1>13. Page(after) \in Seq(Nat) /\ Len(Page(after)) = PageLen(n) /\ \A j \in 1..PageLen(n) : Page(after)[j] = first + j
  BY <1>4, <1>11 DEF Good
<1>15. first = IF after > eventSeq - Len(log) THEN after ELSE eventSeq - Len(log)
  BY DEF first, base, n
<1> QED
  BY <1>5, <1>12, <1>13, <1>15

LEMMA SameSelections ==
    ASSUME SelectionInv, UNCHANGED <<tick, selections, live>>
    PROVE  SelectionInv'
BY DEF SelectionInv, CurrentRound

LEMMA MatchEventsInv ==
    ASSUME ModeInv, MatchEvents
    PROVE  ModeInv'
<1> DEFINE events == Page(cursor)
           old == IF log = <<>> THEN 0 ELSE log[1]
<1>1. /\ page' = [after |-> cursor, events |-> events, oldest |-> old]
      /\ cursor' = (IF events = <<>> THEN cursor ELSE events[Len(events)])
      /\ UNCHANGED <<mode, phase, tick, ready, online, selections, transfers, charges, seq, retained, eventSeq, log, live>>
  BY DEF MatchEvents
<1>2. LogInv /\ cursor \in 0..eventSeq /\ eventSeq \in Nat
  BY DEF ModeInv, LogInv
<1>3. PICK first \in Nat :
              /\ first = IF cursor > eventSeq - Len(log) THEN cursor ELSE eventSeq - Len(log)
              /\ Len(events) \in Nat
              /\ first + Len(events) <= eventSeq
              /\ events \in Seq(Nat)
              /\ \A j \in 1..Len(events) : events[j] = first + j
  BY <1>2, PageFacts
<1> HIDE DEF events, old
<1>4. cursor' \in 0..eventSeq'
  <2>1. CASE events = <<>>
    BY <1>1, <1>2, <2>1
  <2>2. CASE events # <<>>
    <3>1. Len(events) \in 1..Len(events)
      BY <1>3, <2>2
    <3>2. events[Len(events)] = first + Len(events)
      BY <1>3, <3>1
    <3> QED
      BY <1>1, <1>2, <1>3, <2>2, <3>2
  <2> QED
    BY <2>1, <2>2
<1>5. NoSilentGap'
  <2> SUFFICES ASSUME events # <<>>
               PROVE  /\ events[1] = cursor + 1 \/ (old > cursor + 1 /\ events[1] = old)
                      /\ \A i \in 1..(Len(events) - 1) : events[i + 1] = events[i] + 1
    BY <1>1 DEF NoSilentGap
  <2>1. 1 \in 1..Len(events)
    BY <1>3
  <2>2. events[1] = first + 1
    BY <1>3, <2>1
  <2>3. \A i \in 1..(Len(events) - 1) : events[i + 1] = events[i] + 1
    <3>1. \A i \in 1..(Len(events) - 1) : i \in 1..Len(events) /\ i + 1 \in 1..Len(events) /\ first + (i + 1) = (first + i) + 1
      <4> DEFINE k == Len(events)
      <4>1. k \in Nat /\ first \in Nat
        BY <1>3
      <4> HIDE DEF k
      <4>2. \A i \in 1..(k - 1) : i \in 1..k /\ i + 1 \in 1..k /\ first + (i + 1) = (first + i) + 1
        BY <4>1
      <4> QED
        BY <4>2 DEF k
    <3> QED
      BY <1>3, <3>1
  <2>4. CASE first = cursor
    BY <2>2, <2>3, <2>4
  <2>5. CASE first # cursor
    <3>1. first = eventSeq - Len(log) /\ first > cursor
      <4> DEFINE base == eventSeq - Len(log)
      <4>1. base \in Int /\ cursor \in Int
        BY <1>2 DEF LogInv
      <4>2. first = IF cursor > base THEN cursor ELSE base
        BY <1>3
      <4> HIDE DEF base
      <4>3. first = base /\ first > cursor
        BY <2>5, <4>1, <4>2
      <4> QED
        BY <4>3 DEF base
    <3>2. Len(log) \in Nat /\ Len(log) # 0
      <4>1. Len(log) \in Nat
        BY <1>2 DEF LogInv
      <4>2. first + 1 <= eventSeq
        BY <1>2, <1>3, <2>1
      <4> QED
        BY <1>2, <3>1, <4>1, <4>2
    <3>3. log[1] = first + 1 /\ log # <<>>
      <4>1. 1 \in 1..Len(log)
        BY <3>2
      <4>2. log[1] = (eventSeq - Len(log)) + 1
        BY <1>2, <4>1 DEF LogInv
      <4> QED
        BY <3>1, <3>2, <4>2
    <3>4. old = first + 1
      BY <3>3 DEF old
    <3> QED
      BY <1>2, <1>3, <2>2, <2>3, <3>1, <3>4
  <2> QED
    BY <2>4, <2>5
<1>6. LogInv'
  <2>1. DOMAIN page' = {"after", "events", "oldest"}
    BY <1>1
  <2> QED
    BY <1>1, <1>2, <1>4, <1>5, <2>1 DEF LogInv
<1> QED
  BY <1>1, <1>6, SameSelections DEF ModeInv, RetainedInv, IdsInv, PlainInv

(* recordModeActionLocked keeps the newest ActionCap.                      *)
LEMMA RecordModeActionInv ==
    ASSUME RetainedInv, seq < MaxActions, seq' = seq + 1, RecordModeAction
    PROVE  RetainedInv'
<1> DEFINE n == seq + 1
           kept == retained \cup {n}
<1>1. seq \in Nat /\ n \in Nat /\ n \in 0..MaxActions /\ ActionCap \in Nat /\ ActionCap > 0 /\ seq' = n /\ seq = n - 1
  BY ModeConstants DEF RetainedInv
<1>2. retained' = {s \in kept : Cardinality({t \in kept : t > s}) < ActionCap}
  BY <1>1 DEF RecordModeAction
<1>3. kept = {s \in 1..n : s > (n - 1) - ActionCap}
  <2>1. retained = {s \in 1..(n - 1) : s > (n - 1) - ActionCap}
    BY <1>1 DEF RetainedInv
  <2> HIDE DEF n
  <2>2. \A s : s \in kept <=> s \in 1..n /\ s > (n - 1) - ActionCap
    BY <1>1, <2>1
  <2> HIDE DEF kept
  <2> QED
    BY <2>2
<1> HIDE DEF kept, n
<1>4. ASSUME NEW s \in kept PROVE Cardinality({t \in kept : t > s}) = n - s
  <2>1. s \in Nat /\ s <= n /\ s >= 1
    BY <1>1, <1>3
  <2>2. {t \in kept : t > s} = (s + 1)..n
    BY <1>1, <1>3, <2>1
  <2>3. Cardinality((s + 1)..n) = IF s + 1 > n THEN 0 ELSE n - (s + 1) + 1
    BY <1>1, <2>1, FS_Interval
  <2> DEFINE k == Cardinality((s + 1)..n)
  <2>4. k = IF s + 1 > n THEN 0 ELSE n - (s + 1) + 1
    BY <2>3
  <2> HIDE DEF k
  <2>5. k = n - s
    BY <1>1, <2>1, <2>4
  <2> QED
    BY <2>2, <2>5 DEF k
<1>5. \A s \in kept : s \in Nat /\ (n - s < ActionCap <=> s > n - ActionCap)
  BY <1>1, <1>3
<1>6. retained' = {s \in kept : s > n - ActionCap}
  BY <1>2, <1>4, <1>5
<1>7. {s \in kept : s > n - ActionCap} = {s \in 1..n : s > n - ActionCap}
  BY <1>1, <1>3
<1> QED
  BY <1>1, <1>6, <1>7 DEF RetainedInv

(* What every submitted action does.                                       *)
LEMMA SubmitFacts ==
    ASSUME ModeInv, NEW u, SubmitModeAction(u)
    PROVE  /\ LogInv' /\ RetainedInv' /\ seq \in Nat /\ seq' = seq + 1
           /\ UNCHANGED <<mode, phase, tick, ready, online>>
<1>1. seq < MaxActions /\ seq' = seq + 1 /\ AppendMatchEvents(1) /\ RecordModeAction
      /\ UNCHANGED <<mode, phase, tick, ready, online, cursor, page>>
  BY DEF SubmitModeAction
<1>2. LogInv'
  BY <1>1, AppendMatchEventsInv DEF ModeInv
<1>3. RetainedInv'
  BY <1>1, RecordModeActionInv DEF ModeInv
<1>4. seq \in Nat
  BY DEF ModeInv, RetainedInv
<1> QED
  BY <1>1, <1>2, <1>3, <1>4

LEMMA OlderIds ==
    ASSUME IdsInv, seq \in Nat, seq' = seq + 1,
           \A x \in selections' \cup live' \cup transfers' :
              x \in selections \cup live \cup transfers \/ x.id = seq + 1
    PROVE  IdsInv'
<1>1. \A x \in selections \cup live \cup transfers : x.id \in 1..(seq + 1)
  BY DEF IdsInv
<1>2. seq + 1 \in 1..(seq + 1)
  OBVIOUS
<1> QED
  BY <1>1, <1>2 DEF IdsInv

LEMMA RejectModeActionInv == ASSUME ModeInv, NEW u, RejectModeAction(u) PROVE ModeInv'
<1>1. SubmitModeAction(u) /\ UNCHANGED <<selections, transfers, charges, live>>
  BY DEF RejectModeAction
<1>2. LogInv' /\ RetainedInv' /\ seq \in Nat /\ seq' = seq + 1 /\ UNCHANGED <<mode, phase, tick, ready, online>>
  BY <1>1, SubmitFacts
<1>3. IdsInv'
  BY <1>1, <1>2, OlderIds DEF ModeInv
<1>4. SelectionInv'
  BY <1>1, <1>2, SameSelections DEF ModeInv
<1>5. PlainInv'
  BY <1>1, <1>2 DEF ModeInv, PlainInv
<1> QED
  BY <1>2, <1>3, <1>4, <1>5 DEF ModeInv

LEMMA TransferCardInv ==
    ASSUME ModeInv, NEW u \in Seats, NEW to \in Seats, NEW c \in SeatDeck[u], TransferCard(u, to, c)
    PROVE  ModeInv'
<1> DEFINE new == [card |-> c, from |-> u, to |-> to, id |-> seq + 1]
<1>1. SubmitModeAction(u) /\ c \notin Transferred /\ UNCHANGED <<selections, charges, live>>
      /\ transfers' = transfers \cup {[card |-> c, from |-> u, to |-> to, id |-> seq']}
  BY DEF TransferCard
<1>2. LogInv' /\ RetainedInv' /\ seq \in Nat /\ seq' = seq + 1 /\ UNCHANGED <<mode, phase, tick, ready, online>>
  BY <1>1, SubmitFacts
<1>3. transfers' = transfers \cup {new} /\ new.id = seq + 1 /\ new.card = c
  BY <1>1, <1>2
<1>4. new \in [card : UNION {SeatDeck[v] : v \in Seats}, from : Seats, to : Seats, id : Nat]
  <2>1. c \in UNION {SeatDeck[v] : v \in Seats}
    OBVIOUS
  <2> QED
    BY <1>2, <2>1
<1> HIDE DEF new
<1>5. IdsInv'
  BY <1>1, <1>2, <1>3, OlderIds DEF ModeInv
<1>6. SelectionInv'
  BY <1>1, <1>2, SameSelections DEF ModeInv
<1>7. \A s \in transfers : s.card # c
  BY <1>1 DEF Transferred
<1>8. PlainInv'
  <2>1. \A s, t \in transfers' : s.card = t.card => s = t
    BY <1>3, <1>7 DEF ModeInv, PlainInv
  <2>2. transfers' \subseteq [card : UNION {SeatDeck[v] : v \in Seats}, from : Seats, to : Seats, id : Nat]
    BY <1>3, <1>4 DEF ModeInv, PlainInv
  <2> QED
    BY <1>1, <1>2, <2>1, <2>2 DEF ModeInv, PlainInv
<1> QED
  BY <1>2, <1>5, <1>6, <1>8 DEF ModeInv

LEMMA SendGiftInv ==
    ASSUME ModeInv, NEW u \in Seats, NEW g \in DOMAIN GiftCost, SendGift(u, g)
    PROVE  ModeInv'
<1>1. SubmitModeAction(u) /\ UNCHANGED <<selections, transfers, live>>
      /\ charges[u] + GiftCost[g] <= GiftBudget /\ charges' = [charges EXCEPT ![u] = @ + GiftCost[g]]
  BY DEF SendGift, Affordable
<1>2. LogInv' /\ RetainedInv' /\ seq \in Nat /\ seq' = seq + 1 /\ UNCHANGED <<mode, phase, tick, ready, online>>
  BY <1>1, SubmitFacts
<1>3. IdsInv'
  BY <1>1, <1>2, OlderIds DEF ModeInv
<1>4. SelectionInv'
  BY <1>1, <1>2, SameSelections DEF ModeInv
<1>5. charges' \in [Seats -> 0..GiftBudget]
  <2>1. charges \in [Seats -> 0..GiftBudget] /\ GiftCost[g] \in Nat /\ GiftBudget \in Nat
    BY ModeConstants DEF ModeInv, PlainInv
  <2>2. charges[u] + GiftCost[g] \in 0..GiftBudget
    BY <1>1, <2>1
  <2> QED
    BY <1>1, <2>1, <2>2
<1>6. PlainInv'
  BY <1>1, <1>2, <1>5 DEF ModeInv, PlainInv
<1> QED
  BY <1>2, <1>3, <1>4, <1>6 DEF ModeInv

(* What is left after evictEarliestRoundSelectionsLocked: within the cap,  *)
(* and the round being played is complete.                                 *)
LEMMA SurvivorsFacts ==
    ASSUME NEW sel \in SUBSET Picked, IsFiniteSet(sel),
           \A x, y \in sel : x.round = y.round /\ x.user = y.user => x = y,
           NEW rest \in Survivors(sel)
    PROVE  /\ rest \subseteq sel /\ IsFiniteSet(rest) /\ Cardinality(rest) <= SelectionCap
           /\ \A x \in sel : x.round = CurrentRound => x \in rest
<1> DEFINE old == {x \in sel : x.round # CurrentRound}
           current == {x \in sel : x.round = CurrentRound}
           excess == Cardinality(sel) - SelectionCap
           most == IF excess <= Cardinality(old) THEN excess ELSE Cardinality(old)
<1>1. IsFiniteSet(old) /\ IsFiniteSet(current) /\ Cardinality(old) \in Nat /\ Cardinality(current) \in Nat /\ Cardinality(sel) \in Nat
  <2>1. old \in SUBSET sel /\ current \in SUBSET sel
    OBVIOUS
  <2> HIDE DEF old, current
  <2> QED
    BY <2>1, FS_Subset, FS_CardinalityType
<1>2. SelectionCap \in Nat
  BY ModeConstants
<1>3. CASE excess <= 0
  <2>1. rest = sel
    BY <1>3 DEF Survivors
  <2>2. Cardinality(sel) <= SelectionCap
    BY <1>1, <1>2, <1>3
  <2> QED
    BY <2>1, <2>2
<1>4. CASE ~(excess <= 0)
  <2>1. PICK gone \in SUBSET old : Cardinality(gone) = most /\ rest = sel \ gone
    BY <1>4 DEF Survivors
  <2>2. rest \subseteq sel /\ \A x \in sel : x.round = CurrentRound => x \in rest
    BY <2>1
  <2>3. IsFiniteSet(rest)
    BY <2>2, FS_Subset
  <2>4. IsFiniteSet(gone) /\ Cardinality(gone) \in Nat
    BY <1>1, <2>1, FS_Subset, FS_CardinalityType
  <2>5. Cardinality(rest) = Cardinality(sel) - Cardinality(gone)
    <3>1. sel \cap gone = gone
      BY <2>1
    <3>2. Cardinality(sel \ gone) = Cardinality(sel) - Cardinality(sel \cap gone)
      BY FS_Difference
    <3> QED
      BY <2>1, <3>1, <3>2
  <2>6. CASE excess <= Cardinality(old)
    <3>1. Cardinality(gone) = Cardinality(sel) - SelectionCap
      BY <2>1, <2>6
    <3> HIDE DEF excess, most
    <3>2. Cardinality(rest) <= SelectionCap
      BY <1>1, <1>2, <2>5, <3>1
    <3> QED
      BY <2>2, <2>3, <3>2
  <2>7. CASE ~(excess <= Cardinality(old))
    <3>1. Cardinality(gone) = Cardinality(old)
      BY <2>1, <2>7
    <3> HIDE DEF excess, most
    <3>2. gone = old
      BY <1>1, <2>1, <3>1, FS_Subset
    <3>3. rest = current
      BY <2>1, <3>2
    <3>4. Cardinality(current) <= Cardinality(Seats)
      <4> DEFINE h == [x \in current |-> x.user]
      <4>1. h \in [current -> Seats]
        BY DEF Picked
      <4>2. \A x, y \in current : h[x] = h[y] => x = y
        OBVIOUS
      <4> HIDE DEF h, current
      <4>3. h \in Injection(current, Seats)
        BY <4>1, <4>2 DEF Injection, IsInjective
      <4>4. IsFiniteSet(Seats)
        BY ModeConstants
      <4>5. IsFiniteSet(current) /\ Cardinality(current) <= Cardinality(Seats)
        BY <4>3, <4>4, FS_Injection
      <4> QED
        BY <4>5
    <3>5. Cardinality(Seats) <= SelectionCap /\ Cardinality(Seats) \in Nat
      BY ModeConstants, FS_CardinalityType
    <3>6. Cardinality(rest) <= SelectionCap
      <4> HIDE DEF current
      <4> QED
        BY <1>1, <1>2, <3>3, <3>4, <3>5
    <3> QED
      BY <2>2, <2>3, <3>6
  <2> QED
    BY <2>6, <2>7
<1> QED
  BY <1>3, <1>4

LEMMA SelectRoundInv ==
    ASSUME ModeInv, NEW u \in Seats, NEW r \in Nat, SelectRound(u, r)
    PROVE  ModeInv'
<1> DEFINE new == [round |-> r, user |-> u, id |-> seq + 1]
<1>1. SubmitModeAction(u) /\ UNCHANGED <<transfers, charges>>
      /\ ~\E x \in selections : x.round = r /\ x.user = u
  BY DEF SelectRound
<1>2. LogInv' /\ RetainedInv' /\ seq \in Nat /\ seq' = seq + 1 /\ UNCHANGED <<mode, phase, tick, ready, online>>
  BY <1>1, SubmitFacts
<1>3. /\ selections' \in Survivors(selections \cup {new})
      /\ live' = IF r = CurrentRound THEN live \cup {new} ELSE live
  BY <1>2 DEF SelectRound
<1>4. new \in Picked /\ new.round = r /\ new.user = u /\ new.id = seq + 1
  BY <1>2 DEF Picked
<1> HIDE DEF new
<1>5. /\ selections \subseteq Picked /\ live \subseteq Picked /\ IsFiniteSet(selections)
      /\ \A x, y \in selections : x.round = y.round /\ x.user = y.user => x = y
      /\ \A x \in live : x.round <= CurrentRound
      /\ \A x \in live : x.round = CurrentRound => x \in selections
      /\ tick \in 0..MatchTicks
  BY DEF ModeInv, SelectionInv
<1> DEFINE sel == selections \cup {new}
<1>6. sel \in SUBSET Picked /\ IsFiniteSet(sel) /\ \A x, y \in sel : x.round = y.round /\ x.user = y.user => x = y
  <2>1. IsFiniteSet(sel)
    BY <1>5, FS_AddElement
  <2> QED
    BY <1>1, <1>4, <1>5, <2>1
<1>7. /\ selections' \subseteq sel /\ IsFiniteSet(selections') /\ Cardinality(selections') <= SelectionCap
      /\ \A x \in sel : x.round = CurrentRound => x \in selections'
  <2> HIDE DEF sel
  <2>1. selections' \in Survivors(sel)
    BY <1>3 DEF sel
  <2> QED
    BY <1>6, <2>1, SurvivorsFacts
<1>8. IdsInv'
  BY <1>1, <1>2, <1>3, <1>4, <1>7, OlderIds DEF ModeInv
<1>9. CurrentRound' = CurrentRound /\ CurrentRound \in Nat
  <2>1. tick \in Nat
    BY <1>5, ModeConstants
  <2> QED
    BY <1>2, <2>1, RoundFacts DEF CurrentRound
<1>10. SelectionInv'
  <2>1. \A x \in live' : x.round <= CurrentRound
    BY <1>3, <1>4, <1>5, <1>9
  <2>2. \A x \in live' : x.round = CurrentRound => x \in selections'
    BY <1>3, <1>4, <1>5, <1>7
  <2>3. selections' \subseteq Picked /\ live' \subseteq Picked
    BY <1>3, <1>4, <1>5, <1>6, <1>7
  <2>4. \A x, y \in selections' : x.round = y.round /\ x.user = y.user => x = y
    BY <1>6, <1>7
  <2> QED
    BY <1>2, <1>5, <1>7, <1>9, <2>1, <2>2, <2>3, <2>4 DEF SelectionInv
<1>11. PlainInv'
  BY <1>1, <1>2 DEF ModeInv, PlainInv
<1> QED
  BY <1>2, <1>8, <1>10, <1>11 DEF ModeInv

LEMMA TickAdvancesInv == ASSUME ModeInv, TickAdvances PROVE ModeInv'
<1>1. /\ tick < MatchTicks /\ tick' = tick + 1
      /\ UNCHANGED <<mode, phase, ready, online, selections, transfers, charges, seq, retained, cursor, page, live>>
  BY DEF TickAdvances, Meanwhile
<1>2. tick \in Nat /\ tick' \in 0..MatchTicks
  BY <1>1, ModeConstants DEF ModeInv, SelectionInv
<1>3. CurrentRound \in Nat /\ CurrentRound' \in Nat /\ CurrentRound <= CurrentRound'
  BY <1>1, <1>2, RoundFacts DEF CurrentRound
<1>4. SelectionInv'
  <2>1. \A x \in live : x.round \in Nat /\ x.round <= CurrentRound /\ (x.round = CurrentRound => x \in selections)
    BY DEF ModeInv, SelectionInv, Picked
  <2>2. \A x \in live : x.round <= CurrentRound' /\ (x.round = CurrentRound' => x.round = CurrentRound)
    BY <1>3, <2>1
  <2> QED
    BY <1>1, <1>2, <2>1, <2>2 DEF ModeInv, SelectionInv
<1>5. LogInv'
  <2>1. PICK n \in 0..1 : AppendMatchEvents(n)
    BY DEF TickAdvances
  <2> QED
    BY <1>1, <2>1, AppendMatchEventsInv DEF ModeInv
<1> QED
  BY <1>1, <1>4, <1>5 DEF ModeInv, RetainedInv, IdsInv, PlainInv

(* Steps that move the phase or a seat's presence and append events.       *)
LEMMA PresenceInv ==
    ASSUME ModeInv, phase' \in {"loading", "running", "ended"}, online' \subseteq Seats, ready' \subseteq Seats,
           LogInv', tick' = tick, Meanwhile
    PROVE  ModeInv'
<1>1. UNCHANGED <<mode, selections, transfers, charges, seq, retained, cursor, page, live>>
  BY DEF Meanwhile
<1> QED
  BY <1>1, SameSelections DEF ModeInv, RetainedInv, IdsInv, PlainInv

LEMMA EventsFollow ==
    ASSUME ModeInv, NEW n \in Nat, AppendMatchEvents(n), Meanwhile
    PROVE  LogInv'
BY AppendMatchEventsInv DEF ModeInv, Meanwhile

LEMMA ModeInitInv == ModeInit => ModeInv
<1> SUFFICES ASSUME ModeInit PROVE ModeInv
  OBVIOUS
<1>1. LogInv
  <2>1. log = <<>> /\ eventSeq = 0 /\ cursor = 0 /\ page = [after |-> 0, events |-> <<>>, oldest |-> 0]
    BY DEF ModeInit
  <2>2. NoSilentGap
    BY <2>1 DEF NoSilentGap
  <2>3. log \in Seq(Nat) /\ Len(log) = 0 /\ eventSeq \in Nat /\ cursor \in 0..eventSeq
    BY <2>1
  <2>4. DOMAIN page = {"after", "events", "oldest"}
    BY <2>1
  <2>5. eventSeq <= MaxEvents
    BY <2>1, ModeConstants
  <2> QED
    BY <2>1, <2>2, <2>3, <2>4, <2>5 DEF LogInv
<1>2. RetainedInv
  BY ModeConstants DEF ModeInit, RetainedInv
<1>3. SelectionInv
  <2>1. selections = {} /\ live = {} /\ tick \in 0..MatchTicks
    BY ModeConstants DEF ModeInit
  <2>2. IsFiniteSet(selections) /\ Cardinality(selections) = 0
    BY <2>1, FS_EmptySet
  <2>3. 0 <= SelectionCap
    BY ModeConstants
  <2> QED
    BY <2>1, <2>2, <2>3 DEF SelectionInv
<1>4. IdsInv
  BY DEF ModeInit, IdsInv
<1>5. PlainInv
  BY ModeConstants DEF ModeInit, PlainInv
<1> QED
  BY <1>1, <1>2, <1>3, <1>4, <1>5 DEF ModeInv

LEMMA ModeNextInv == ModeInv /\ [ModeNext]_modeVars => ModeInv'
<1> SUFFICES ASSUME ModeInv, [ModeNext]_modeVars PROVE ModeInv'
  OBVIOUS
<1>1. phase \in {"loading", "running", "ended"} /\ online \subseteq Seats /\ ready \subseteq Seats
  BY DEF ModeInv, PlainInv
<1>2. CASE MatchEnds
  <2>1. PICK n \in 0..3 : AppendMatchEvents(n)
    BY <1>2 DEF MatchEnds
  <2>2. phase' = "ended" /\ UNCHANGED <<tick, ready, online>> /\ Meanwhile
    BY <1>2 DEF MatchEnds
  <2> QED
    BY <1>1, <2>1, <2>2, EventsFollow, PresenceInv
<1>3. ASSUME NEW u \in Seats, DisconnectMatch(u) \/ ReconnectMatch(u) PROVE ModeInv'
  <2>1. online' \subseteq Seats /\ AppendMatchEvents(1) /\ UNCHANGED <<phase, tick, ready>> /\ Meanwhile
    BY <1>1, <1>3 DEF DisconnectMatch, ReconnectMatch
  <2> QED
    BY <1>1, <2>1, EventsFollow, PresenceInv
<1>7. ASSUME NEW u \in Seats, ReadyMatch(u) PROVE ModeInv'
  <2>1. ready' \subseteq Seats /\ UNCHANGED <<tick, online>> /\ Meanwhile
    BY <1>1, <1>7 DEF ReadyMatch
  <2>2. (phase' = "running" /\ AppendMatchEvents(2)) \/ (phase' = phase /\ AppendMatchEvents(1))
    BY <1>7 DEF ReadyMatch
  <2>3. LogInv'
    BY <2>1, <2>2, EventsFollow
  <2> QED
    BY <1>1, <2>1, <2>2, <2>3, PresenceInv
<1>4. CASE UNCHANGED modeVars
  <2>1. UNCHANGED <<phase, tick, ready, online, eventSeq, log>> /\ Meanwhile
    BY <1>4 DEF modeVars, Meanwhile
  <2>2. LogInv'
    BY <2>1 DEF ModeInv, LogInv, NoSilentGap, Meanwhile
  <2> QED
    BY <1>1, <2>1, <2>2, PresenceInv
<1>5. ASSUME NEW u \in Seats, NEW r \in 0..(MatchTicks \div RoundTicks), SelectRound(u, r) PROVE ModeInv'
  <2>1. MatchTicks \div RoundTicks \in Nat
    BY ModeConstants, RoundFacts
  <2>2. r \in Nat
    BY <2>1
  <2> QED
    BY <1>5, <2>2, SelectRoundInv
<1>6. CASE ModeNext
  BY <1>2, <1>3, <1>5, <1>6, <1>7, RejectModeActionInv, TransferCardInv, SendGiftInv, MatchEventsInv, TickAdvancesInv
     DEF ModeNext
<1> QED
  BY <1>4, <1>6

LEMMA ModeInvImplies == ModeInv => ModeTypeOK /\ ModeRecordHolds
<1> SUFFICES ASSUME ModeInv PROVE ModeTypeOK /\ ModeRecordHolds
  OBVIOUS
<1>1. ModeRecordHolds
  BY DEF ModeInv, LogInv, RetainedInv, SelectionInv, PlainInv, ModeRecordHolds, ModeStateKept
<1>2. selections \subseteq [round : Nat, user : Seats, id : 1..seq] /\ live \subseteq [round : Nat, user : Seats, id : 1..seq]
  BY DEF ModeInv, SelectionInv, IdsInv, Picked
<1>3. transfers \subseteq [card : UNION {SeatDeck[u] : u \in Seats}, from : Seats, to : Seats, id : 1..seq]
  BY DEF ModeInv, PlainInv, IdsInv
<1>4. log \in Seq(1..eventSeq)
  <2>1. log \in Seq(Nat) /\ Len(log) \in Nat /\ eventSeq \in Nat /\ Len(log) <= eventSeq
        /\ \A i \in 1..Len(log) : log[i] = (eventSeq - Len(log)) + i
    BY DEF ModeInv, LogInv
  <2> DEFINE n == Len(log)
  <2>2. \A i \in 1..n : (eventSeq - n) + i \in 1..eventSeq
    <3> HIDE DEF n
    <3>1. n \in Nat /\ n <= eventSeq /\ eventSeq \in Nat
      BY <2>1 DEF n
    <3> QED
      BY <3>1
  <2>3. \A i \in 1..Len(log) : log[i] \in 1..eventSeq
    BY <2>1, <2>2
  <2> QED
    BY <2>1, <2>3
<1>5. retained \subseteq 1..seq /\ seq \in 0..MaxActions
  BY DEF ModeInv, RetainedInv
<1>6. eventSeq \in 0..MaxEvents /\ cursor \in 0..eventSeq /\ DOMAIN page = {"after", "events", "oldest"}
  BY ModeConstants DEF ModeInv, LogInv
<1>7. tick \in 0..MatchTicks
  BY DEF ModeInv, SelectionInv
<1> QED
  BY <1>1, <1>2, <1>3, <1>4, <1>5, <1>6, <1>7 DEF ModeInv, PlainInv, ModeTypeOK

(* A flood of mode actions evicts nothing of the round being played and    *)
(* keeps the newest actions, a card changes hands once, and a client that  *)
(* follows the cursors is told of every gap (SubmitModeAction,             *)
(* evictEarliestRoundSelectionsLocked, MatchEvents).                       *)
THEOREM ModeRecordsHold == ModeSpec => []ModeRecordHolds
BY ModeInitInv, ModeNextInv, ModeInvImplies, PTL DEF ModeSpec

-----------------------------------------------------------------------------
(* DemUploads                                                              *)

(* The staged chunks are within the opener's range, and come from          *)
(* containers that declare as many chunks as the opener does.              *)
StagedInv ==
    \/ upload = NoUpload
    \/ /\ upload.of \in Containers
       /\ DOMAIN upload.chunks \subseteq Indices(upload.of)
       /\ \A j \in DOMAIN upload.chunks :
             /\ upload.chunks[j] \in Containers
             /\ Total[upload.chunks[j]] = Total[upload.of]

StoredInv ==
    \/ stored = NoRow
    \/ /\ {stored.sha, stored.declared} \subseteq Containers \cup {NoContainer}
       /\ stored.size \in Nat \ {0}
       /\ DOMAIN stored.chunks = 0..(stored.size - 1)
       /\ \A i \in DOMAIN stored.chunks :
             stored.chunks[i] \in Containers /\ Total[stored.chunks[i]] = stored.size
       /\ stored.chunks[0] \notin BadHeaders
       /\ stored.declared # NoContainer => stored.chunks = Whole(stored.declared)

DemInv == StagedInv /\ StoredInv /\ restarts \in 0..MaxRestarts

LEMMA DemInitInv == DemInit => DemInv
BY DemUploadsAssumptions DEF DemInit, DemInv, StagedInv, StoredInv

(* What an upload has become when a chunk that agrees with it was added.   *)
LEMMA WithFacts ==
    ASSUME StagedInv, NEW c \in Containers, NEW i \in Indices(c), Agrees(c)
    PROVE  /\ Opener(c) \in Containers
           /\ Total[Opener(c)] = Total[c]
           /\ i \in DOMAIN With(c, i)
           /\ DOMAIN With(c, i) \subseteq Indices(Opener(c))
           /\ \A j \in DOMAIN With(c, i) :
                 /\ With(c, i)[j] \in Containers
                 /\ Total[With(c, i)[j]] = Total[Opener(c)]
<1>1. CASE upload = NoUpload
  <2>1. DOMAIN upload.chunks = {}
    BY <1>1 DEF NoUpload
  <2>2. Opener(c) = c
    BY <1>1 DEF Opener
  <2>3. With(c, i) = [j \in {i} |-> c]
    BY <2>1 DEF With
  <2> QED
    BY <2>2, <2>3
<1>2. CASE upload # NoUpload
  <2>1. Opener(c) = upload.of /\ Total[upload.of] = Total[c]
    BY <1>2 DEF Opener, Agrees
  <2>2. Indices(upload.of) = Indices(c)
    BY <2>1 DEF Indices
  <2> QED
    BY <1>2, <2>1, <2>2 DEF StagedInv, With
<1> QED
  BY <1>1, <1>2

(* As many chunks as the opener declares, within its range, are all.       *)
LEMMA AllChunks ==
    ASSUME NEW o \in Containers, NEW body,
           DOMAIN body \subseteq Indices(o), Cardinality(DOMAIN body) = Total[o]
    PROVE  Total[o] \in Nat \ {0} /\ DOMAIN body = 0..(Total[o] - 1)
<1>1. Total[o] \in Nat \ {0}
  BY DemUploadsAssumptions
<1>2. IsFiniteSet(Indices(o)) /\ Cardinality(Indices(o)) = Total[o]
  <2> DEFINE n == Total[o] - 1
  <2>1. n \in Nat /\ Indices(o) = 0..n /\ n - 0 + 1 = Total[o] /\ ~(0 > n)
    BY <1>1 DEF Indices
  <2> HIDE DEF n
  <2>2. 0 \in Int /\ n \in Int
    BY <2>1
  <2>3. IsFiniteSet(0..n) /\ Cardinality(0..n) = IF 0 > n THEN 0 ELSE n - 0 + 1
    BY <2>2, FS_Interval
  <2> QED
    BY <2>1, <2>3
<1>3. DOMAIN body = Indices(o)
  BY <1>2, FS_Subset
<1> QED
  BY <1>1, <1>3 DEF Indices

(* A digest is that of the whole container it names.                       *)
LEMMA SumNames ==
    ASSUME NEW body
    PROVE  /\ Sum256(body) \in Containers \cup {NoContainer}
           /\ Sum256(body) # NoContainer => body = Whole(Sum256(body))
<1>1. ASSUME NEW c \in Containers, body = Whole(c)
      PROVE  body[0] = c
  <2>1. 0 \in Indices(c)
    BY DemUploadsAssumptions DEF Indices
  <2> QED
    BY <1>1, <2>1 DEF Whole
<1> QED
  BY <1>1, DemUploadsAssumptions DEF Sum256

LEMMA StageInv ==
    ASSUME DemInv, NEW c \in Containers, NEW i \in Indices(c), NEW rf \in BOOLEAN,
           StageChunk(c, i, rf)
    PROVE  DemInv'
<1>1. upload' = [of |-> Opener(c), chunks |-> With(c, i)] /\ stored' = stored /\ restarts' = restarts /\ Agrees(c)
  BY DEF StageChunk
<1>2. StagedInv'
  BY <1>1, WithFacts DEF DemInv, StagedInv, Indices
<1> QED
  BY <1>1, <1>2 DEF DemInv, StoredInv, Whole, Indices

LEMMA CompleteInv ==
    ASSUME DemInv, NEW c \in Containers, NEW i \in Indices(c),
           NEW rf \in BOOLEAN, NEW wf \in BOOLEAN,
           CompleteUpload(c, i, rf, wf)
    PROVE  DemInv'
<1> DEFINE o == Opener(c)
           body == With(c, i)
           row == [sha |-> Sum256(body), declared |-> Digest[o], size |-> Total[c], chunks |-> body]
<1>1. /\ upload' = NoUpload /\ restarts' = restarts /\ Agrees(c)
      /\ Cardinality(DOMAIN body) = Total[c]
      /\ stored' = IF Sound(body, o) /\ ~wf THEN SaveDem(row) ELSE stored
  BY DEF CompleteUpload
<1>2. /\ o \in Containers /\ Total[o] = Total[c] /\ DOMAIN body \subseteq Indices(o)
      /\ \A j \in DOMAIN body : body[j] \in Containers /\ Total[body[j]] = Total[o]
  BY <1>1, WithFacts DEF DemInv
<1>3. Digest[o] \in Containers \cup {NoContainer}
  BY <1>2, DemUploadsAssumptions
<1>4. /\ row.sha = Sum256(body) /\ row.declared = Digest[o] /\ row.size = Total[c] /\ row.chunks = body
  OBVIOUS
<1> HIDE DEF o, body, row
<1>5. Total[c] \in Nat \ {0} /\ DOMAIN body = 0..(Total[c] - 1)
  BY <1>1, <1>2, AllChunks
<1>6. Sum256(body) \in Containers \cup {NoContainer}
  BY SumNames
<1>7. ASSUME Sound(body, o)
      PROVE  body[0] \notin BadHeaders /\ (Digest[o] # NoContainer => body = Whole(Digest[o]))
  <2>1. body[0] \notin BadHeaders /\ (Digest[o] # NoContainer => Sum256(body) = Digest[o])
    BY <1>7 DEF Sound
  <2> QED
    BY <2>1, SumNames
<1>8. StoredInv'
  <2>1. CASE stored' = stored
    BY <2>1 DEF DemInv, StoredInv, Whole, Indices
  <2>2. CASE stored' = row /\ Sound(body, o)
    <3>1. /\ {stored'.sha, stored'.declared} \subseteq Containers \cup {NoContainer}
          /\ stored'.size \in Nat \ {0}
          /\ DOMAIN stored'.chunks = 0..(stored'.size - 1)
      BY <1>3, <1>4, <1>5, <1>6, <2>2
    <3>2. \A k \in DOMAIN stored'.chunks : stored'.chunks[k] \in Containers /\ Total[stored'.chunks[k]] = stored'.size
      BY <1>2, <1>4, <2>2
    <3>3. /\ stored'.chunks[0] \notin BadHeaders
          /\ stored'.declared # NoContainer => stored'.chunks = Whole(stored'.declared)
      BY <1>4, <1>7, <2>2
    <3> QED
      BY <3>1, <3>2, <3>3 DEF StoredInv, Whole, Indices
  <2> QED
    BY <1>1, <2>1, <2>2 DEF SaveDem
<1> QED
  BY <1>1, <1>8 DEF DemInv, StagedInv

LEMMA DemNextInv == DemInv /\ [DemNext]_demVars => DemInv'
<1> SUFFICES ASSUME DemInv, [DemNext]_demVars PROVE DemInv'
  OBVIOUS
<1>1. ASSUME NEW c \in Containers, NEW i \in Indices(c), NEW rf \in BOOLEAN, UploadTooLarge(c, i, rf)
      PROVE  DemInv'
  BY <1>1 DEF UploadTooLarge, DemInv, StagedInv, StoredInv
<1>2. CASE LobbyRestart
  BY <1>2, DemUploadsAssumptions DEF LobbyRestart, DemInv, StagedInv, StoredInv
<1>3. CASE UNCHANGED demVars
  BY <1>3 DEF demVars, DemInv, StagedInv, StoredInv
<1> QED
  BY <1>1, <1>2, <1>3, StageInv, CompleteInv DEF DemNext

(* DemInv is an invariant of the uploads.                                  *)
THEOREM UploadInvariant == DemSpec => []DemInv
BY DemInitInv, DemNextInv, PTL DEF DemSpec

LEMMA DemInvImplies == DemInv => DemTypeOK /\ StoredWhole
<1> SUFFICES ASSUME DemInv PROVE DemTypeOK /\ StoredWhole
  OBVIOUS
<1>1. StoredWhole
  BY DEF DemInv, StoredInv, StoredWhole
<1>2. {upload.of, stored.sha, stored.declared} \subseteq Containers \cup {NoContainer}
  BY DEF DemInv, StagedInv, StoredInv, NoUpload, NoRow
<1>3. stored.size \in Nat
  BY DEF DemInv, StoredInv, NoRow
<1>4. DOMAIN upload.chunks \subseteq Nat /\ \A i \in DOMAIN upload.chunks : upload.chunks[i] \in Containers
  BY DEF DemInv, StagedInv, NoUpload, Indices
<1>5. DOMAIN stored.chunks \subseteq Nat /\ \A i \in DOMAIN stored.chunks : stored.chunks[i] \in Containers
  <2>1. CASE stored = NoRow
    <3>1. stored.chunks = <<>>
      BY <2>1 DEF NoRow
    <3> QED
      BY <3>1
  <2>2. CASE stored # NoRow
    <3>1. /\ stored.size \in Nat \ {0} /\ DOMAIN stored.chunks = 0..(stored.size - 1)
          /\ \A i \in DOMAIN stored.chunks : stored.chunks[i] \in Containers
      BY <2>2 DEF DemInv, StoredInv
    <3> QED
      BY <3>1
  <2> QED
    BY <2>1, <2>2
<1> QED
  BY <1>1, <1>2, <1>3, <1>4, <1>5 DEF DemTypeOK, DemInv

-----------------------------------------------------------------------------
(* The composition.                                                        *)

allVars == <<profile, match, gateway, moving>>

LEMMA InitParts ==
    Init => /\ EcoInit /\ BossInit /\ PlayInit /\ ModeInit /\ SessInit /\ CodeInit
            /\ CallbackInit /\ EnvelopeInit /\ DemInit /\ LimitInit /\ PoolInit /\ ConnInit
BY DEF Init

(* A step of the services is a step of one of them, and the others stay.   *)
LEMMA NextParts ==
    ASSUME [Next]_allVars
    PROVE  /\ [EcoNext]_ecoVars /\ [BossNext]_bossVars /\ [PlayNext]_playVars /\ [ModeNext]_modeVars
           /\ [SessNext]_sessVars /\ [CodeNext]_codeVars /\ [CallbackNext]_callbackVars
           /\ [EnvelopeNext]_envelopeVars /\ [DemNext]_demVars /\ [LimitNext]_limitVars
           /\ [PoolNext]_poolVars /\ [ConnNext]_connVars
<1>1. CASE MoveProfile
  BY <1>1 DEF MoveProfile, match, gateway, edge
<1>2. CASE MoveMatch
  BY <1>2 DEF MoveMatch, profile, gateway, edge
<1>3. CASE MoveGateway
  BY <1>3 DEF MoveGateway, profile, match, edge
<1>4. CASE UNCHANGED allVars
  BY <1>4 DEF allVars, profile, match, gateway, edge
<1> QED
  BY <1>1, <1>2, <1>3, <1>4 DEF Next, allVars

(* The composition implements each of its services: what is proved of one  *)
(* of them alone holds of the lobby that runs them all.                    *)
THEOREM ServicesImplement ==
    Spec => /\ EcoSpec /\ BossSpec /\ PlaySpec /\ ModeSpec /\ SessSpec /\ CodeSpec
            /\ CallbackSpec /\ EnvelopeSpec /\ DemSpec /\ LimitSpec /\ PoolSpec /\ ConnSpec
<1>1. Init /\ [][Next]_allVars => EcoSpec /\ BossSpec
  BY InitParts, NextParts, PTL DEF EcoSpec, BossSpec
<1>2. Init /\ [][Next]_allVars => PlaySpec /\ ModeSpec
  BY InitParts, NextParts, PTL DEF PlaySpec, ModeSpec
<1>3. Init /\ [][Next]_allVars => SessSpec /\ CodeSpec
  BY InitParts, NextParts, PTL DEF SessSpec, CodeSpec
<1>4. Init /\ [][Next]_allVars => CallbackSpec /\ EnvelopeSpec
  BY InitParts, NextParts, PTL DEF CallbackSpec, EnvelopeSpec
<1>5. Init /\ [][Next]_allVars => DemSpec /\ LimitSpec
  BY InitParts, NextParts, PTL DEF DemSpec, LimitSpec
<1>6. Init /\ [][Next]_allVars => PoolSpec /\ ConnSpec
  BY InitParts, NextParts, PTL DEF PoolSpec, ConnSpec
<1>7. Spec => Init /\ [][Next]_allVars
  BY DEF Spec, allVars
<1> QED
  BY <1>1, <1>2, <1>3, <1>4, <1>5, <1>6, <1>7

(* Whatever the services do, a stored recording is complete, and if its    *)
(* digest came with it the container of one upload (SubmitDemReplayChunk), *)
(* a message handed to a handler is one its peer sent as a whole           *)
(* (ReadMessage), and a superseded connection is on its way out            *)
(* (replacedByNewSession).                                                 *)
THEOREM NothingComesInPieces == Spec => []NothingInPieces
<1>1. Spec => []DemInv /\ []ConnInv
  BY ServicesImplement, UploadInvariant, ConnectionInvariant
<1>2. DemInv /\ ConnInv => NothingInPieces
  BY DemInvImplies, ConnInvImplies DEF NothingInPieces
<1> QED
  BY <1>1, <1>2, PTL

(* The services keep their types, whatever the values of their constants.  *)
THEOREM ServicesKeepTypes == Spec => []ServicesTypeOK
<1>1. /\ EcoInv => EcoTypeOK
      /\ BossInv => BossTypeOK
      /\ PlayInv => PlayTypeOK
      /\ ModeInv => ModeTypeOK
  BY EcoInvImplies, PlayInvImplies, ModeInvImplies DEF BossInv
<1>2. /\ DemInv => DemTypeOK
      /\ LimitInv => LimitTypeOK
      /\ ConnInv => ConnTypeOK
  BY DemInvImplies, LimitInvImplies, ConnInvImplies
<1>3. EcoSpec /\ BossSpec => []EcoTypeOK /\ []BossTypeOK
  BY <1>1, ProfileInvariant, BossInitInv, BossNextInv, PTL DEF BossSpec
<1>4. PlaySpec /\ ModeSpec => []PlayTypeOK /\ []ModeTypeOK
  BY <1>1, PlayInitInv, PlayNextInv, ModeInitInv, ModeNextInv, PTL DEF PlaySpec, ModeSpec
<1>5. DemSpec /\ LimitSpec /\ ConnSpec => []DemTypeOK /\ []LimitTypeOK /\ []ConnTypeOK
  BY <1>2, UploadInvariant, LimitInitInv, LimitNextInv, ConnectionInvariant, PTL DEF LimitSpec
<1>6. /\ SessSpec /\ CodeSpec => []SessTypeOK /\ []CodeTypeOK
      /\ CallbackSpec /\ EnvelopeSpec => []CallbackTypeOK /\ []EnvelopeTypeOK
      /\ PoolSpec => []PoolTypeOK
  BY SessionTypes, CodesAreTyped, CallbackMemoryIsBounded, EnvelopesAreTyped, PoolTypesHold
<1>7. /\ EcoTypeOK /\ BossTypeOK /\ PlayTypeOK /\ ModeTypeOK /\ DemTypeOK /\ LimitTypeOK /\ ConnTypeOK
      /\ SessTypeOK /\ CodeTypeOK /\ CallbackTypeOK /\ EnvelopeTypeOK /\ PoolTypeOK
      => ServicesTypeOK
  BY DEF ServicesTypeOK
<1> QED
  BY <1>3, <1>4, <1>5, <1>6, <1>7, ServicesImplement, PTL

=============================================================================
