----------------------------- MODULE Edge_proofs -----------------------------
(***************************************************************************)
(* Proofs about what a lobby keeps at its edge, for every value of the     *)
(* constants:                                                              *)
(*   - RedisPool: callers get the replies to their own commands over at    *)
(*     most PoolSize connections;                                          *)
(*   - RoomLimits: how many rooms a user creates in a window;              *)
(*   - LobbyConn: a message read is one the peer sent, and a superseded    *)
(*     connection ends.                                                    *)
(***************************************************************************)
EXTENDS RedisPool, RoomLimits, LobbyConn, FiniteSetTheorems, SequenceTheorems, WellFoundedInduction, TLAPS

(* A nonempty set of naturals has a least member.                          *)
LEMMA LeastOf ==
    ASSUME NEW T \in SUBSET Nat, T # {}
    PROVE  \E x \in T : \A y \in T : x <= y
<1> DEFINE R == OpToRel(<, Nat)
<1>1. R = {p \in Nat \X Nat : p[1] < p[2]}
  BY DEF OpToRel
<1>2. IsWellFoundedOn(R, Nat)
  BY NatLessThanWellFounded
<1> HIDE DEF R
<1>3. PICK x \in T : \A y \in T : ~(<<y, x>> \in R)
  BY <1>2, WFMin
<1>4. ASSUME NEW y \in T PROVE x <= y
  <2>1. <<y, x>> \in Nat \X Nat /\ <<y, x>>[1] = y /\ <<y, x>>[2] = x
    OBVIOUS
  <2>2. ~(y < x)
    BY <1>1, <1>3, <2>1
  <2> QED
    BY <2>2
<1> QED
  BY <1>4

-----------------------------------------------------------------------------
(* RedisPool: the types, and whose replies come back.                      *)

Inside == {"slotted", "dialling", "ready", "reading", "done", "leaving"}
Holding == {"ready", "reading", "done"}

Holders == {c \in Callers : at[c] \in Holding}
Dialling == {c \in Callers : at[c] = "dialling"}
Held == {socket[c] : c \in Holders}

(* The types, sharper than PoolTypeOK where the induction needs it.        *)
PoolTypes ==
    /\ shut \in {"open", "closing", "closed"}
    /\ at \in [Callers -> {"outside", "waiting"} \cup Inside]
    /\ slots \subseteq Callers
    /\ idle \in Seq(Sockets)
    /\ Len(idle) <= PoolSize
    /\ socket \in [Callers -> Sockets \cup {NoSocket}]
    /\ wire \in [Sockets -> Seq(1..MaxCommands)]
    /\ broken \subseteq 1..dials
    /\ alive \subseteq 1..dials
    /\ dials \in 0..MaxDials
    /\ command \in [Callers -> 0..MaxCommands]
    /\ commands \in 0..MaxCommands
    /\ answer \in [Callers -> 0..MaxCommands]

(* The slots are those of the callers between TakeSlot and ReleaseSlot.    *)
SlotInv ==
    /\ slots = {c \in Callers : at[c] \in Inside}
    /\ IsFiniteSet(slots)
    /\ Cardinality(slots) <= PoolSize

(* A connection is in one hand: one caller's or the pool's, there once.    *)
HandInv ==
    /\ \A c \in Callers : socket[c] # NoSocket <=> c \in Holders
    /\ \A c, d \in Holders : c # d => socket[c] # socket[d]
    /\ \A c \in Holders : socket[c] \notin InPool
    /\ \A i, j \in DOMAIN idle : i # j => idle[i] # idle[j]
    /\ alive = InPool \cup Held

(* A connection that may be used again has no reply under way, except the  *)
(* one its caller waits for; a broken one is in the hands of a caller that *)
(* is done with it, or closed.                                             *)
WireInv ==
    /\ \A c \in Callers : at[c] # "outside" => command[c] # 0
    /\ \A c \in Callers : at[c] = "reading" => wire[socket[c]] = <<command[c]>>
    /\ \A c \in Callers : at[c] = "ready" => wire[socket[c]] = <<>>
    /\ \A c \in Callers : at[c] = "done" /\ socket[c] \notin broken => wire[socket[c]] = <<>>
    /\ \A k \in InPool : k \notin broken /\ wire[k] = <<>>
    /\ \A k \in Sockets : k > dials => wire[k] = <<>>
    /\ \A c \in Callers : answer[c] # 0 => answer[c] = command[c]

(* Half of what the slots are for: a dial under way counts.                *)
BoundInv == Cardinality(alive) + Cardinality(Dialling) <= PoolSize

PoolInv == PoolTypes /\ SlotInv /\ HandInv /\ WireInv /\ BoundInv

LEMMA PoolInitInv == PoolInit => PoolInv
<1> SUFFICES ASSUME PoolInit PROVE PoolInv
  OBVIOUS
<1> USE RedisPoolAssumptions
<1>1. Dialling = {} /\ Holders = {} /\ Held = {} /\ InPool = {} /\ alive = {}
  BY DEF PoolInit, Dialling, Holders, Holding, Held, InPool
<1>2. PoolTypes
  BY DEF PoolInit, PoolTypes, NoSocket, Inside, Sockets
<1>3. SlotInv
  BY FS_EmptySet DEF PoolInit, SlotInv, Inside
<1>4. HandInv
  BY <1>1 DEF PoolInit, HandInv
<1>5. WireInv
  BY <1>1 DEF PoolInit, WireInv
<1>6. BoundInv
  BY <1>1, FS_EmptySet DEF BoundInv
<1> QED
  BY <1>2, <1>3, <1>4, <1>5, <1>6 DEF PoolInv

-----------------------------------------------------------------------------
(* Sets that are finite, and how their sizes compare.                      *)

LEMMA PoolFinite ==
    ASSUME PoolInv
    PROVE  /\ IsFiniteSet(alive) /\ Cardinality(alive) \in Nat
           /\ IsFiniteSet(slots) /\ Cardinality(slots) \in Nat
           /\ Dialling \subseteq slots /\ IsFiniteSet(Dialling) /\ Cardinality(Dialling) \in Nat
           /\ Holders \subseteq slots /\ IsFiniteSet(Holders) /\ Cardinality(Holders) \in Nat
<1>1. IsFiniteSet(alive)
  <2>1. IsFiniteSet(1..dials)
    BY FS_Interval DEF PoolInv, PoolTypes
  <2> QED
    BY <2>1, FS_Subset DEF PoolInv, PoolTypes
<1>2. Dialling \subseteq slots /\ Holders \subseteq slots /\ IsFiniteSet(slots)
  BY DEF PoolInv, SlotInv, Dialling, Holders, Holding, Inside
<1>3. IsFiniteSet(Dialling) /\ IsFiniteSet(Holders)
  BY <1>2, FS_Subset
<1> QED
  BY <1>1, <1>2, <1>3, FS_CardinalityType

(* The callers that are not dialling hold at most as many connections as   *)
(* they are; so with an empty pool a further dial fits.                    *)
LEMMA RoomToDial ==
    ASSUME PoolInv, idle = <<>>, NEW c \in slots, c \notin Dialling, c \notin Holders
    PROVE  Cardinality(alive) + Cardinality(Dialling \cup {c}) <= PoolSize
<1> DEFINE D == Dialling \cup {c}
           f == [h \in Holders |-> socket[h]]
<1>1. InPool = {} /\ alive = Held
  BY DEF PoolInv, HandInv, InPool
<1>2. f \in Surjection(Holders, Held)
  BY DEF Surjection, Held
<1>3. Cardinality(Held) <= Cardinality(Holders)
  <2> HIDE DEF f
  <2> QED
    BY <1>2, PoolFinite, FS_Surjection
<1>4. IsFiniteSet(D) /\ D \subseteq slots /\ Cardinality(D) \in Nat
  BY PoolFinite, FS_AddElement, FS_CardinalityType
<1>5. D \cap Holders = {}
  BY DEF Dialling, Holders, Holding
<1>6. /\ IsFiniteSet(D \cup Holders)
      /\ Cardinality(D \cup Holders) = Cardinality(D) + Cardinality(Holders)
  <2>1. Cardinality(D \cap Holders) = 0
    BY <1>5, FS_EmptySet
  <2>2. Cardinality(D \cup Holders) = Cardinality(D) + Cardinality(Holders) - Cardinality(D \cap Holders)
    BY <1>4, PoolFinite, FS_Union
  <2>3. IsFiniteSet(D \cup Holders)
    BY <1>4, PoolFinite, FS_Union
  <2> HIDE DEF D
  <2> QED
    BY <2>1, <2>2, <2>3, <1>4, PoolFinite
<1>7. Cardinality(D \cup Holders) <= Cardinality(slots)
  <2>1. D \cup Holders \in SUBSET slots
    BY <1>4, PoolFinite
  <2> QED
    BY <2>1, PoolFinite, FS_Subset
<1>8. Cardinality(slots) <= PoolSize
  BY DEF PoolInv, SlotInv
<1>9. Cardinality(Held) \in Nat
  BY <1>1, PoolFinite
<1> HIDE DEF D
<1>10. Cardinality(alive) + Cardinality(D) <= PoolSize
  BY <1>1, <1>3, <1>4, <1>6, <1>7, <1>8, <1>9, PoolFinite, RedisPoolAssumptions
<1> QED
  BY <1>10 DEF D

LEMMA FewerSlots ==
    ASSUME PoolInv, NEW c, slots' = slots \ {c}
    PROVE  IsFiniteSet(slots') /\ Cardinality(slots') <= PoolSize
<1>1. /\ IsFiniteSet(slots')
      /\ Cardinality(slots') <= Cardinality(slots)
      /\ Cardinality(slots') \in Nat
  BY PoolFinite, FS_Subset, FS_CardinalityType
<1> QED
  BY <1>1, PoolFinite, RedisPoolAssumptions DEF PoolInv, SlotInv

LEMMA NoMoreConnections ==
    ASSUME PoolInv, alive' \subseteq alive, Dialling' \subseteq Dialling
    PROVE  BoundInv'
<1>1. /\ Cardinality(alive') <= Cardinality(alive)
      /\ Cardinality(Dialling') <= Cardinality(Dialling)
      /\ Cardinality(alive') \in Nat
      /\ Cardinality(Dialling') \in Nat
  BY PoolFinite, FS_Subset, FS_CardinalityType
<1> QED
  BY <1>1, PoolFinite, RedisPoolAssumptions DEF PoolInv, BoundInv

-----------------------------------------------------------------------------
(* acquire                                                                 *)

LEMMA AskPoolInv ==
    ASSUME PoolInv, NEW c \in Callers, AskPool(c)
    PROVE  PoolInv'
<1> USE RedisPoolAssumptions DEF AskPool, GoTo
<1>1. PoolTypes'
  BY DEF PoolInv, PoolTypes, Inside
<1>2. Holders' = Holders /\ Dialling' = Dialling /\ InPool' = InPool
  BY DEF PoolInv, PoolTypes, Holders, Holding, Dialling, InPool
<1>3. SlotInv'
  BY DEF PoolInv, PoolTypes, SlotInv, Inside
<1>4. HandInv'
  BY <1>2 DEF PoolInv, HandInv, Held
<1>5. WireInv'
  BY <1>2 DEF PoolInv, PoolTypes, WireInv
<1>6. BoundInv'
  BY <1>2, NoMoreConnections
<1> QED
  BY <1>1, <1>3, <1>4, <1>5, <1>6 DEF PoolInv

LEMMA TakeSlotInv ==
    ASSUME PoolInv, NEW c \in Callers, TakeSlot(c)
    PROVE  PoolInv'
<1> USE RedisPoolAssumptions DEF TakeSlot, GoTo
<1>1. PoolTypes'
  BY DEF PoolInv, PoolTypes, Inside
<1>2. Holders' = Holders /\ Dialling' = Dialling /\ InPool' = InPool
  BY DEF PoolInv, PoolTypes, Holders, Holding, Dialling, InPool
<1>3. SlotInv'
  <2>1. slots' = {d \in Callers : at'[d] \in Inside}
    BY DEF PoolInv, PoolTypes, SlotInv, Inside
  <2>2. IsFiniteSet(slots') /\ Cardinality(slots') <= PoolSize
    <3>1. slots' = slots \cup {c} /\ Cardinality(slots) < PoolSize
      OBVIOUS
    <3>2. /\ IsFiniteSet(slots \cup {c})
          /\ Cardinality(slots \cup {c}) = Cardinality(slots) \/ Cardinality(slots \cup {c}) = Cardinality(slots) + 1
      BY PoolFinite, FS_AddElement
    <3> QED
      BY <3>1, <3>2, PoolFinite
  <2> QED
    BY <2>1, <2>2 DEF SlotInv
<1>4. HandInv'
  BY <1>2 DEF PoolInv, HandInv, Held
<1>5. WireInv'
  BY <1>2 DEF PoolInv, PoolTypes, WireInv
<1>6. BoundInv'
  BY <1>2, NoMoreConnections
<1> QED
  BY <1>1, <1>3, <1>4, <1>5, <1>6 DEF PoolInv

LEMMA PoolExhaustedInv ==
    ASSUME PoolInv, NEW c \in Callers, PoolExhausted(c)
    PROVE  PoolInv'
<1> USE RedisPoolAssumptions DEF PoolExhausted, GoTo
<1>1. PoolTypes'
  BY DEF PoolInv, PoolTypes, Inside
<1>2. Holders' = Holders /\ Dialling' = Dialling /\ InPool' = InPool
  BY DEF PoolInv, PoolTypes, Holders, Holding, Dialling, InPool
<1>3. SlotInv'
  BY DEF PoolInv, PoolTypes, SlotInv, Inside
<1>4. HandInv'
  BY <1>2 DEF PoolInv, HandInv, Held
<1>5. WireInv'
  BY <1>2 DEF PoolInv, PoolTypes, WireInv
<1>6. BoundInv'
  BY <1>2, NoMoreConnections
<1> QED
  BY <1>1, <1>3, <1>4, <1>5, <1>6 DEF PoolInv

(* A caller with a slot dials when it finds the pool empty.                *)
LEMMA BeginDialInv ==
    ASSUME PoolInv, NEW c \in Callers, TakeIdle(c), idle = <<>>
    PROVE  PoolInv'
<1> USE RedisPoolAssumptions DEF TakeIdle, GoTo
<1>1. PoolTypes'
  BY DEF PoolInv, PoolTypes, Inside
<1>2. Holders' = Holders /\ Dialling' = Dialling \cup {c} /\ InPool' = InPool
  BY DEF PoolInv, PoolTypes, Holders, Holding, Dialling, InPool
<1>3. SlotInv'
  BY DEF PoolInv, PoolTypes, SlotInv, Inside
<1>4. HandInv'
  BY <1>2 DEF PoolInv, HandInv, Held
<1>5. WireInv'
  BY <1>2 DEF PoolInv, PoolTypes, WireInv
<1>6. BoundInv'
  <2>1. c \in slots /\ c \notin Dialling /\ c \notin Holders
    BY DEF PoolInv, SlotInv, Inside, Dialling, Holders, Holding
  <2> QED
    BY <1>2, <2>1, RoomToDial DEF BoundInv
<1> QED
  BY <1>1, <1>3, <1>4, <1>5, <1>6 DEF PoolInv

(* What is left of the pool without its head.                              *)
Elements(s) == {s[i] : i \in DOMAIN s}

LEMMA PopIdle ==
    ASSUME PoolInv, idle # <<>>
    PROVE  /\ Head(idle) \in Sockets
           /\ Tail(idle) \in Seq(Sockets)
           /\ Len(Tail(idle)) <= PoolSize
           /\ InPool = {Head(idle)} \cup Elements(Tail(idle))
           /\ Head(idle) \notin Elements(Tail(idle))
           /\ \A i, j \in DOMAIN Tail(idle) : i # j => Tail(idle)[i] # Tail(idle)[j]
<1>1. idle \in Seq(Sockets) /\ Len(idle) <= PoolSize
  BY DEF PoolInv, PoolTypes
<1>2. /\ Len(idle) \in Nat /\ Len(idle) > 0 /\ DOMAIN idle = 1..Len(idle)
      /\ Head(idle) = idle[1] /\ Head(idle) \in Sockets
      /\ Tail(idle) \in Seq(Sockets)
      /\ Len(Tail(idle)) = Len(idle) - 1
      /\ DOMAIN Tail(idle) = 1..(Len(idle) - 1)
      /\ \A i \in 1..(Len(idle) - 1) : Tail(idle)[i] = idle[i + 1]
  BY <1>1
<1>3. \A i, j \in DOMAIN idle : i # j => idle[i] # idle[j]
  BY DEF PoolInv, HandInv
<1>4. InPool = {Head(idle)} \cup Elements(Tail(idle))
  <2>1. \A k \in InPool : k = idle[1] \/ \E i \in 1..(Len(idle) - 1) : k = Tail(idle)[i]
    <3> SUFFICES ASSUME NEW i \in 1..Len(idle), i # 1
                 PROVE  \E j \in 1..(Len(idle) - 1) : idle[i] = Tail(idle)[j]
      BY <1>2 DEF InPool
    <3>1. i - 1 \in 1..(Len(idle) - 1) /\ Tail(idle)[i - 1] = idle[i]
      BY <1>2
    <3> QED
      BY <3>1
  <2>2. idle[1] \in InPool
    BY <1>2 DEF InPool
  <2>3. \A i \in 1..(Len(idle) - 1) : Tail(idle)[i] \in InPool
    BY <1>2 DEF InPool
  <2>4. Elements(Tail(idle)) = {Tail(idle)[i] : i \in 1..(Len(idle) - 1)}
    BY <1>2 DEF Elements
  <2> QED
    BY <2>1, <2>2, <2>3, <2>4, <1>2
<1>5. Head(idle) \notin Elements(Tail(idle))
  <2>1. \A i \in 1..(Len(idle) - 1) : Tail(idle)[i] # idle[1]
    BY <1>2, <1>3
  <2> QED
    BY <2>1, <1>2 DEF Elements
<1>6. \A i, j \in DOMAIN Tail(idle) : i # j => Tail(idle)[i] # Tail(idle)[j]
  BY <1>2, <1>3
<1>7. Len(Tail(idle)) <= PoolSize
  BY <1>1, <1>2, RedisPoolAssumptions
<1> QED
  BY <1>2, <1>4, <1>5, <1>6, <1>7

LEMMA ReuseIdleInv ==
    ASSUME PoolInv, NEW c \in Callers, TakeIdle(c), idle # <<>>
    PROVE  PoolInv'
<1> USE RedisPoolAssumptions DEF TakeIdle, GoTo
<1>0. Head(idle) \in Sockets /\ InPool = {Head(idle)} \cup InPool' /\ Head(idle) \notin InPool'
  <2>1. InPool' = Elements(Tail(idle))
    BY DEF InPool, Elements
  <2> QED
    BY <2>1, PopIdle
<1>1. PoolTypes'
  BY PopIdle DEF PoolInv, PoolTypes, Inside
<1>2. /\ Holders' = Holders \cup {c} /\ c \notin Holders
      /\ Dialling' = Dialling
      /\ Held' = Held \cup {Head(idle)}
  <2>1. Holders' = Holders \cup {c} /\ c \notin Holders /\ Dialling' = Dialling
    BY DEF PoolInv, PoolTypes, Holders, Holding, Dialling
  <2>2. \A h \in Holders : socket'[h] = socket[h]
    BY <2>1 DEF PoolInv, PoolTypes, Holders
  <2>3. socket'[c] = Head(idle)
    BY DEF PoolInv, PoolTypes
  <2> QED
    BY <2>1, <2>2, <2>3 DEF Held
<1>3. SlotInv'
  BY DEF PoolInv, PoolTypes, SlotInv, Inside
<1>4. HandInv'
  <2>1. \A d \in Callers : socket'[d] # NoSocket <=> d \in Holders'
    BY <1>0, <1>2 DEF PoolInv, PoolTypes, HandInv, Sockets, NoSocket
  <2>2. \A d, e \in Holders' : d # e => socket'[d] # socket'[e]
    BY <1>0, <1>2 DEF PoolInv, PoolTypes, HandInv, Holders
  <2>3. \A d \in Holders' : socket'[d] \notin InPool'
    BY <1>0, <1>2 DEF PoolInv, PoolTypes, HandInv, Holders
  <2>4. \A i, j \in DOMAIN idle' : i # j => idle'[i] # idle'[j]
    BY PopIdle
  <2>5. alive' = InPool' \cup Held'
    BY <1>0, <1>2 DEF PoolInv, HandInv
  <2> QED
    BY <2>1, <2>2, <2>3, <2>4, <2>5 DEF HandInv
<1>5. WireInv'
  BY <1>0, ZenonT(40) DEF PoolInv, PoolTypes, WireInv
<1>6. BoundInv'
  BY <1>2, NoMoreConnections
<1> QED
  BY <1>1, <1>3, <1>4, <1>5, <1>6 DEF PoolInv

LEMMA DialledInv ==
    ASSUME PoolInv, NEW c \in Callers, Dialled(c)
    PROVE  PoolInv'
<1> USE RedisPoolAssumptions DEF Dialled, GoTo
<1>0. /\ dials' \in Sockets /\ dials' \notin alive /\ dials' \notin broken
      /\ InPool' = InPool
      /\ dials' \notin InPool /\ dials' \notin Held
      /\ wire[dials'] = <<>>
  <2>1. dials' \in Sockets /\ dials' > dials /\ dials' \notin 1..dials
    BY DEF PoolInv, PoolTypes, Sockets
  <2>2. InPool' = InPool
    BY DEF InPool
  <2>3. alive \subseteq 1..dials /\ broken \subseteq 1..dials /\ alive = InPool \cup Held
    BY DEF PoolInv, PoolTypes, HandInv
  <2>4. wire[dials'] = <<>>
    BY <2>1 DEF PoolInv, WireInv
  <2> QED
    BY <2>1, <2>2, <2>3, <2>4
<1>1. PoolTypes'
  BY <1>0 DEF PoolInv, PoolTypes, Inside
<1>2. /\ Holders' = Holders \cup {c} /\ c \notin Holders
      /\ Dialling' = Dialling \ {c} /\ c \in Dialling
      /\ Held' = Held \cup {dials'}
  <2>1. Holders' = Holders \cup {c} /\ c \notin Holders /\ Dialling' = Dialling \ {c} /\ c \in Dialling
    BY DEF PoolInv, PoolTypes, Holders, Holding, Dialling
  <2>2. \A h \in Holders : socket'[h] = socket[h]
    BY <2>1 DEF PoolInv, PoolTypes, Holders
  <2>3. socket'[c] = dials'
    BY DEF PoolInv, PoolTypes
  <2> QED
    BY <2>1, <2>2, <2>3 DEF Held
<1>3. SlotInv'
  BY DEF PoolInv, PoolTypes, SlotInv, Inside
<1>4. HandInv'
  <2>1. \A d \in Callers : socket'[d] # NoSocket <=> d \in Holders'
    BY <1>0, <1>2 DEF PoolInv, PoolTypes, HandInv, Sockets, NoSocket
  <2>2. \A d, e \in Holders' : d # e => socket'[d] # socket'[e]
    BY <1>0, <1>2 DEF PoolInv, PoolTypes, HandInv, Holders, Held
  <2>3. \A d \in Holders' : socket'[d] \notin InPool'
    BY <1>0, <1>2 DEF PoolInv, PoolTypes, HandInv, Holders
  <2>4. \A i, j \in DOMAIN idle' : i # j => idle'[i] # idle'[j]
    BY DEF PoolInv, HandInv
  <2>5. alive' = InPool' \cup Held'
    BY <1>0, <1>2 DEF PoolInv, HandInv
  <2> QED
    BY <2>1, <2>2, <2>3, <2>4, <2>5 DEF HandInv
<1>5. WireInv'
  BY <1>0 DEF PoolInv, PoolTypes, WireInv
<1>6. BoundInv'
  <2>1. Cardinality(alive') = Cardinality(alive) + 1
    BY <1>0, PoolFinite, FS_AddElement
  <2>2. Cardinality(Dialling') = Cardinality(Dialling) - 1
    BY <1>2, PoolFinite, FS_RemoveElement
  <2> QED
    BY <2>1, <2>2, PoolFinite DEF PoolInv, BoundInv
<1> QED
  BY <1>1, <1>3, <1>4, <1>5, <1>6 DEF PoolInv

LEMMA DialFailsInv ==
    ASSUME PoolInv, NEW c \in Callers, DialFails(c)
    PROVE  PoolInv'
<1> USE RedisPoolAssumptions DEF DialFails, GoTo
<1>1. PoolTypes'
  BY DEF PoolInv, PoolTypes, Inside
<1>2. Holders' = Holders /\ Dialling' \subseteq Dialling /\ InPool' = InPool
  BY DEF PoolInv, PoolTypes, Holders, Holding, Dialling, InPool
<1>3. SlotInv'
  <2>1. slots' = {d \in Callers : at'[d] \in Inside}
    BY DEF PoolInv, PoolTypes, SlotInv, Inside
  <2>2. IsFiniteSet(slots') /\ Cardinality(slots') <= PoolSize
    BY FewerSlots
  <2> QED
    BY <2>1, <2>2 DEF SlotInv
<1>4. HandInv'
  BY <1>2 DEF PoolInv, HandInv, Held
<1>5. WireInv'
  BY <1>2 DEF PoolInv, PoolTypes, WireInv
<1>6. BoundInv'
  BY <1>2, NoMoreConnections
<1> QED
  BY <1>1, <1>3, <1>4, <1>5, <1>6 DEF PoolInv

-----------------------------------------------------------------------------
(* redisConn.do: the caller keeps its connection, and nobody else's wire   *)
(* is touched.                                                             *)

LEMMA SameHands ==
    ASSUME PoolInv, NEW c \in Callers, NEW where \in Holding,
           at[c] \in Holding, GoTo(c, where), UNCHANGED <<slots, idle, socket, alive>>
    PROVE  SlotInv' /\ HandInv' /\ BoundInv' /\ InPool' = InPool
<1>1. Holders' = Holders /\ Dialling' = Dialling /\ InPool' = InPool
  BY DEF PoolInv, PoolTypes, GoTo, Holders, Holding, Dialling, InPool
<1>2. SlotInv'
  BY DEF PoolInv, PoolTypes, GoTo, SlotInv, Inside, Holding
<1>3. HandInv'
  BY <1>1 DEF PoolInv, HandInv, Held
<1> QED
  BY <1>1, <1>2, <1>3, NoMoreConnections

LEMMA HeldSocket ==
    ASSUME PoolInv, NEW c \in Callers, at[c] \in Holding
    PROVE  /\ socket[c] \in Sockets /\ socket[c] \in 1..dials
           /\ socket[c] \notin InPool
           /\ \A d \in Callers : d # c /\ at[d] \in Holding => socket[d] # socket[c]
<1>1. c \in Holders /\ socket[c] \in alive
  BY DEF PoolInv, HandInv, Holders, Held
<1>2. 1..dials \subseteq Sockets
  BY RedisPoolAssumptions DEF PoolInv, PoolTypes, Sockets
<1> QED
  BY <1>1, <1>2 DEF PoolInv, PoolTypes, HandInv, Holders

(* A ready connection has nothing under way, so the command is alone on it. *)
LEMMA WriteAlone ==
    ASSUME PoolInv, NEW c \in Callers, at[c] = "ready"
    PROVE  /\ command[c] \in 1..MaxCommands
           /\ [wire EXCEPT ![socket[c]] = Append(@, command[c])] = [wire EXCEPT ![socket[c]] = <<command[c]>>]
           /\ wire = [wire EXCEPT ![socket[c]] = <<>>]
<1>1. wire[socket[c]] = <<>> /\ command[c] \in 1..MaxCommands
  BY DEF PoolInv, PoolTypes, WireInv
<1>2. Append(wire[socket[c]], command[c]) = <<command[c]>>
  BY <1>1
<1>3. wire = [wire EXCEPT ![socket[c]] = <<>>]
  BY <1>1 DEF PoolInv, PoolTypes
<1> QED
  BY <1>1, <1>2, <1>3

(* A caller changes what is under way on its own connection only.          *)
LEMMA WireStep ==
    ASSUME PoolInv, NEW c \in Callers, NEW where \in {"reading", "done"}, NEW w,
           at[c] \in Holding, GoTo(c, where),
           wire' = [wire EXCEPT ![socket[c]] = w],
           where = "reading" => w = <<command[c]>>,
           where = "done" => w = <<>> \/ socket[c] \in broken',
           broken' = broken \/ broken' = broken \cup {socket[c]},
           answer' = answer \/ answer' = [answer EXCEPT ![c] = command[c]],
           InPool' = InPool,
           UNCHANGED <<socket, dials, command>>
    PROVE  WireInv'
<1>1. /\ wire'[socket[c]] = w
      /\ \A k \in Sockets : k # socket[c] => wire'[k] = wire[k]
  BY HeldSocket DEF PoolInv, PoolTypes
<1>2. /\ at'[c] = where
      /\ \A d \in Callers : d # c => at'[d] = at[d]
  BY DEF PoolInv, PoolTypes, GoTo
<1>3. \A d \in Callers : d # c /\ at[d] \in Holding => wire'[socket[d]] = wire[socket[d]]
  BY <1>1, HeldSocket
<1>4. \A d \in Callers : at'[d] # "outside" => command'[d] # 0
  BY <1>2 DEF PoolInv, WireInv, Holding
<1>5. \A d \in Callers : at'[d] = "reading" => wire'[socket'[d]] = <<command'[d]>>
  BY <1>1, <1>2, <1>3 DEF PoolInv, WireInv, Holding
<1>6. \A d \in Callers : at'[d] = "ready" => wire'[socket'[d]] = <<>>
  BY <1>2, <1>3 DEF PoolInv, WireInv, Holding
<1>7. \A d \in Callers : at'[d] = "done" /\ socket'[d] \notin broken' => wire'[socket'[d]] = <<>>
  BY <1>1, <1>2, <1>3 DEF PoolInv, WireInv, Holding
<1>8. \A k \in InPool' : k \notin broken' /\ wire'[k] = <<>>
  <2>1. InPool \subseteq Sockets
    BY DEF PoolInv, PoolTypes, InPool
  <2> QED
    BY <1>1, <2>1, HeldSocket DEF PoolInv, WireInv
<1>9. \A k \in Sockets : k > dials' => wire'[k] = <<>>
  <2>1. ~(socket[c] > dials)
    BY HeldSocket DEF PoolInv, PoolTypes
  <2> QED
    BY <1>1, <2>1 DEF PoolInv, WireInv
<1>10. \A d \in Callers : answer'[d] # 0 => answer'[d] = command'[d]
  BY DEF PoolInv, PoolTypes, WireInv
<1> QED
  BY <1>4, <1>5, <1>6, <1>7, <1>8, <1>9, <1>10 DEF WireInv

LEMMA BrokenHeld ==
    ASSUME PoolInv, NEW c \in Callers, at[c] \in Holding
    PROVE  broken \cup {socket[c]} \subseteq 1..dials
BY HeldSocket DEF PoolInv, PoolTypes

LEMMA WriteCommandInv ==
    ASSUME PoolInv, NEW c \in Callers, WriteCommand(c)
    PROVE  PoolInv'
<1> USE RedisPoolAssumptions
<1>0. /\ at[c] \in Holding /\ command[c] \in 1..MaxCommands
      /\ wire' = [wire EXCEPT ![socket[c]] = <<command[c]>>]
      /\ GoTo(c, "reading")
      /\ UNCHANGED <<shut, slots, idle, socket, broken, alive, dials, command, commands, answer>>
  BY WriteAlone DEF WriteCommand, Holding
<1>1. PoolTypes'
  BY <1>0, HeldSocket DEF PoolInv, PoolTypes, GoTo, Inside
<1>2. SlotInv' /\ HandInv' /\ BoundInv' /\ InPool' = InPool
  BY <1>0, SameHands DEF Holding
<1>3. WireInv'
  BY <1>0, <1>2, WireStep
<1> QED
  BY <1>1, <1>2, <1>3 DEF PoolInv

LEMMA WriteBreaksInv ==
    ASSUME PoolInv, NEW c \in Callers, WriteBreaks(c)
    PROVE  PoolInv'
<1> USE RedisPoolAssumptions
<1>0. /\ at[c] \in Holding /\ command[c] \in 1..MaxCommands
      /\ \/ wire' = [wire EXCEPT ![socket[c]] = <<command[c]>>]
         \/ wire' = [wire EXCEPT ![socket[c]] = <<>>]
      /\ broken' = broken \cup {socket[c]}
      /\ GoTo(c, "done")
      /\ UNCHANGED <<shut, slots, idle, socket, alive, dials, command, commands, answer>>
  BY WriteAlone DEF WriteBreaks, Holding
<1>1. PoolTypes'
  <2>1. broken' \subseteq 1..dials
    BY <1>0, BrokenHeld
  <2>2. socket[c] \in Sockets /\ wire \in [Sockets -> Seq(1..MaxCommands)]
    BY <1>0, HeldSocket DEF PoolInv, PoolTypes
  <2>3. <<command[c]>> \in Seq(1..MaxCommands) /\ <<>> \in Seq(1..MaxCommands)
    BY <1>0
  <2>4. wire' \in [Sockets -> Seq(1..MaxCommands)]
    BY <1>0, <2>2, <2>3
  <2> QED
    BY <1>0, <2>1, <2>4 DEF PoolInv, PoolTypes, GoTo, Inside
<1>2. SlotInv' /\ HandInv' /\ BoundInv' /\ InPool' = InPool
  BY <1>0, SameHands DEF Holding
<1>3. WireInv'
  BY <1>0, <1>2, WireStep
<1> QED
  BY <1>1, <1>2, <1>3 DEF PoolInv

LEMMA ReadReplyInv ==
    ASSUME PoolInv, NEW c \in Callers, ReadReply(c)
    PROVE  PoolInv'
<1> USE RedisPoolAssumptions
<1>0. /\ at[c] \in Holding /\ command[c] \in 1..MaxCommands
      /\ wire' = [wire EXCEPT ![socket[c]] = <<>>]
      /\ answer' = [answer EXCEPT ![c] = command[c]]
      /\ GoTo(c, "done")
      /\ UNCHANGED <<shut, slots, idle, socket, broken, alive, dials, command, commands>>
  <2>1. at[c] = "reading" /\ wire[socket[c]] = <<command[c]>> /\ command[c] \in 1..MaxCommands
    BY DEF ReadReply, PoolInv, PoolTypes, WireInv
  <2>2. Head(wire[socket[c]]) = command[c] /\ Tail(wire[socket[c]]) = <<>>
    BY <2>1
  <2> QED
    BY <2>1, <2>2 DEF ReadReply, Holding
<1>1. PoolTypes'
  BY <1>0, HeldSocket DEF PoolInv, PoolTypes, GoTo, Inside
<1>2. SlotInv' /\ HandInv' /\ BoundInv' /\ InPool' = InPool
  BY <1>0, SameHands DEF Holding
<1>3. WireInv'
  BY <1>0, <1>2, WireStep
<1> QED
  BY <1>1, <1>2, <1>3 DEF PoolInv

LEMMA ReadBreaksInv ==
    ASSUME PoolInv, NEW c \in Callers, ReadBreaks(c)
    PROVE  PoolInv'
<1> USE RedisPoolAssumptions
<1>0. /\ at[c] \in Holding
      /\ wire' = [wire EXCEPT ![socket[c]] = wire[socket[c]]]
      /\ broken' = broken \cup {socket[c]}
      /\ GoTo(c, "done")
      /\ UNCHANGED <<shut, slots, idle, socket, wire, alive, dials, command, commands, answer>>
  BY DEF ReadBreaks, Holding, PoolInv, PoolTypes
<1>1. PoolTypes'
  <2>1. broken' \subseteq 1..dials
    BY <1>0, BrokenHeld
  <2> QED
    BY <1>0, <2>1 DEF PoolInv, PoolTypes, GoTo, Inside
<1>2. SlotInv' /\ HandInv' /\ BoundInv' /\ InPool' = InPool
  BY <1>0, SameHands DEF Holding
<1>3. WireInv'
  BY <1>0, <1>2, WireStep
<1> QED
  BY <1>1, <1>2, <1>3 DEF PoolInv

-----------------------------------------------------------------------------
(* release                                                                 *)

(* The caller lets go of its connection.                                   *)
LEMMA LetGo ==
    ASSUME PoolInv, NEW c \in Callers, ReleaseConn(c)
    PROVE  /\ Holders' = Holders \ {c} /\ Dialling' = Dialling
           /\ Held' = Held \ {socket[c]}
           /\ \A d \in Holders' : socket'[d] = socket[d] /\ d \in Holders
           /\ \A d \in Callers : socket'[d] # NoSocket <=> d \in Holders'
           /\ SlotInv'
<1> USE DEF ReleaseConn, GoTo
<1>1. Holders' = Holders \ {c} /\ Dialling' = Dialling /\ c \in Holders
  BY DEF PoolInv, PoolTypes, Holders, Holding, Dialling
<1>2. \A d \in Holders' : socket'[d] = socket[d] /\ d \in Holders
  BY <1>1 DEF PoolInv, PoolTypes, Holders
<1>3. socket'[c] = NoSocket
  BY DEF PoolInv, PoolTypes
<1>4. Held' = Held \ {socket[c]}
  <2>1. \A d \in Holders' : socket[d] # socket[c]
    BY <1>1 DEF PoolInv, HandInv
  <2> QED
    BY <1>1, <1>2, <2>1 DEF Held
<1>5. \A d \in Callers : socket'[d] # NoSocket <=> d \in Holders'
  BY <1>1, <1>3 DEF PoolInv, PoolTypes, HandInv
<1>6. SlotInv'
  BY DEF PoolInv, PoolTypes, SlotInv, Inside
<1> QED
  BY <1>1, <1>2, <1>4, <1>5, <1>6

(* ... which goes back to the pool.                                        *)
LEMMA PutBackInv ==
    ASSUME PoolInv, NEW c \in Callers, ReleaseConn(c), Reusable(socket[c])
    PROVE  PoolInv'
<1> USE RedisPoolAssumptions
<1> DEFINE k == socket[c]
<1>0. /\ at[c] \in Holding /\ k \notin broken /\ wire[k] = <<>>
      /\ idle \in Seq(Sockets) /\ k \in Sockets /\ idle' = Append(idle, k)
      /\ Len(idle) < PoolSize /\ k \notin InPool
      /\ alive' = alive
  BY HeldSocket DEF ReleaseConn, Reusable, PoolInv, PoolTypes, WireInv, Holding
<1>1. /\ idle' \in Seq(Sockets) /\ Len(idle') <= PoolSize
      /\ DOMAIN idle = 1..Len(idle) /\ Len(idle) \in Nat
      /\ DOMAIN idle' = 1..(Len(idle) + 1)
      /\ \A i \in 1..Len(idle) : idle'[i] = idle[i]
      /\ idle'[Len(idle) + 1] = k
  <2> HIDE DEF k
  <2> QED
    BY <1>0
<1>2. InPool' = InPool \cup {k}
  BY <1>1 DEF InPool
<1>3. PoolTypes'
  BY <1>1 DEF PoolInv, PoolTypes, ReleaseConn, GoTo, Inside, NoSocket
<1>4. HandInv'
  <2>1. \A d, e \in Holders' : d # e => socket'[d] # socket'[e]
    BY LetGo DEF PoolInv, HandInv
  <2>2. \A d \in Holders' : socket'[d] \notin InPool'
    <3>1. c \in Holders
      BY <1>0 DEF Holders
    <3> QED
      BY <1>2, <3>1, LetGo DEF PoolInv, HandInv
  <2>3. \A i, j \in DOMAIN idle' : i # j => idle'[i] # idle'[j]
    <3>1. \A i \in 1..Len(idle) : idle[i] # k
      BY <1>0, <1>1 DEF InPool
    <3>2. \A i, j \in 1..Len(idle) : i # j => idle[i] # idle[j]
      BY <1>1 DEF PoolInv, HandInv
    <3> HIDE DEF k
    <3> QED
      BY <1>1, <3>1, <3>2
  <2>4. alive' = InPool' \cup Held'
    <3>1. alive = InPool \cup Held /\ k \in Held
      BY <1>0 DEF PoolInv, HandInv, Holders, Held
    <3> QED
      BY <3>1, <1>0, <1>2, LetGo
  <2> QED
    BY <2>1, <2>2, <2>3, <2>4, LetGo DEF HandInv
<1>5. WireInv'
  BY <1>0, <1>2 DEF PoolInv, PoolTypes, WireInv, ReleaseConn, GoTo
<1>6. BoundInv'
  BY <1>0, LetGo, NoMoreConnections
<1> QED
  BY <1>3, <1>4, <1>5, <1>6, LetGo DEF PoolInv

(* ... or is closed.                                                       *)
LEMMA CloseConnInv ==
    ASSUME PoolInv, NEW c \in Callers, ReleaseConn(c), ~Reusable(socket[c])
    PROVE  PoolInv'
<1> USE RedisPoolAssumptions
<1>0. /\ at[c] \in Holding /\ alive' = alive \ {socket[c]} /\ idle' = idle /\ InPool' = InPool
      /\ socket[c] \notin InPool
  BY HeldSocket DEF ReleaseConn, Holding, InPool
<1>1. PoolTypes'
  BY <1>0 DEF PoolInv, PoolTypes, ReleaseConn, GoTo, Inside, NoSocket
<1>2. HandInv'
  <2>1. \A d, e \in Holders' : d # e => socket'[d] # socket'[e]
    BY LetGo DEF PoolInv, HandInv
  <2>2. \A d \in Holders' : socket'[d] \notin InPool'
    BY <1>0, LetGo DEF PoolInv, HandInv
  <2>3. \A i, j \in DOMAIN idle' : i # j => idle'[i] # idle'[j]
    BY <1>0 DEF PoolInv, HandInv
  <2>4. alive' = InPool' \cup Held'
    BY <1>0, LetGo DEF PoolInv, HandInv
  <2> QED
    BY <2>1, <2>2, <2>3, <2>4, LetGo DEF HandInv
<1>3. WireInv'
  BY <1>0 DEF PoolInv, PoolTypes, WireInv, ReleaseConn, GoTo
<1>4. BoundInv'
  BY <1>0, LetGo, NoMoreConnections
<1> QED
  BY <1>1, <1>2, <1>3, <1>4, LetGo DEF PoolInv

LEMMA ReleaseSlotInv ==
    ASSUME PoolInv, NEW c \in Callers, ReleaseSlot(c)
    PROVE  PoolInv'
<1> USE RedisPoolAssumptions DEF ReleaseSlot, GoTo
<1>1. PoolTypes'
  BY DEF PoolInv, PoolTypes, Inside
<1>2. Holders' = Holders /\ Dialling' = Dialling /\ InPool' = InPool
  BY DEF PoolInv, PoolTypes, Holders, Holding, Dialling, InPool
<1>3. SlotInv'
  <2>1. slots' = {d \in Callers : at'[d] \in Inside}
    BY DEF PoolInv, PoolTypes, SlotInv, Inside
  <2>2. IsFiniteSet(slots') /\ Cardinality(slots') <= PoolSize
    BY FewerSlots
  <2> QED
    BY <2>1, <2>2 DEF SlotInv
<1>4. HandInv'
  BY <1>2 DEF PoolInv, HandInv, Held
<1>5. WireInv'
  BY <1>2 DEF PoolInv, PoolTypes, WireInv
<1>6. BoundInv'
  BY <1>2, NoMoreConnections
<1> QED
  BY <1>1, <1>3, <1>4, <1>5, <1>6 DEF PoolInv

-----------------------------------------------------------------------------
(* Close                                                                   *)

LEMMA CloseClientInv ==
    ASSUME PoolInv, CloseClient \/ (DrainIdle /\ idle = <<>>) \/ UNCHANGED poolVars
    PROVE  PoolInv'
<1> USE DEF CloseClient, DrainIdle, poolVars
<1>1. PoolTypes'
  BY DEF PoolInv, PoolTypes
<1>2. Holders' = Holders /\ Dialling' = Dialling /\ InPool' = InPool /\ Held' = Held
  BY DEF Holders, Dialling, InPool, Held
<1>3. SlotInv' /\ WireInv' /\ BoundInv'
  BY <1>2 DEF PoolInv, SlotInv, WireInv, BoundInv
<1>4. HandInv'
  BY <1>2 DEF PoolInv, HandInv
<1> QED
  BY <1>1, <1>3, <1>4 DEF PoolInv

LEMMA DrainIdleInv ==
    ASSUME PoolInv, DrainIdle, idle # <<>>
    PROVE  PoolInv'
<1> USE RedisPoolAssumptions DEF DrainIdle
<1>0. Head(idle) \in Sockets /\ InPool = {Head(idle)} \cup InPool' /\ Head(idle) \notin InPool'
  <2>1. InPool' = Elements(Tail(idle))
    BY DEF InPool, Elements
  <2> QED
    BY <2>1, PopIdle
<1>1. PoolTypes'
  BY PopIdle DEF PoolInv, PoolTypes
<1>2. Holders' = Holders /\ Dialling' = Dialling /\ Held' = Held
  BY DEF Holders, Dialling, Held
<1>3. HandInv'
  <2>1. Head(idle) \notin Held
    BY <1>0 DEF PoolInv, HandInv, Held
  <2>2. alive' = InPool' \cup Held'
    BY <1>0, <1>2, <2>1 DEF PoolInv, HandInv
  <2>3. \A i, j \in DOMAIN idle' : i # j => idle'[i] # idle'[j]
    BY PopIdle
  <2> QED
    BY <1>0, <1>2, <2>2, <2>3 DEF PoolInv, HandInv
<1>4. SlotInv' /\ WireInv'
  BY <1>0, <1>2 DEF PoolInv, SlotInv, WireInv
<1>5. BoundInv'
  BY <1>2, NoMoreConnections
<1> QED
  BY <1>1, <1>3, <1>4, <1>5 DEF PoolInv

-----------------------------------------------------------------------------
(* PoolInv is inductive: it holds in every reachable state of the client.     *)
THEOREM PoolInvariant == PoolSpec => []PoolInv
<1>1. ASSUME PoolInv, [PoolNext]_poolVars
      PROVE  PoolInv'
  <2>1. ASSUME NEW c \in Callers,
               AskPool(c) \/ TakeSlot(c) \/ PoolExhausted(c) \/ Dialled(c) \/ DialFails(c)
        PROVE  PoolInv'
    BY <1>1, <2>1, AskPoolInv, TakeSlotInv, PoolExhaustedInv, DialledInv, DialFailsInv
  <2>2. ASSUME NEW c \in Callers, TakeIdle(c)
        PROVE  PoolInv'
    BY <1>1, <2>2, BeginDialInv, ReuseIdleInv
  <2>3. ASSUME NEW c \in Callers,
               WriteCommand(c) \/ WriteBreaks(c) \/ ReadReply(c) \/ ReadBreaks(c)
        PROVE  PoolInv'
    BY <1>1, <2>3, WriteCommandInv, WriteBreaksInv, ReadReplyInv, ReadBreaksInv
  <2>4. ASSUME NEW c \in Callers, ReleaseConn(c) \/ ReleaseSlot(c)
        PROVE  PoolInv'
    BY <1>1, <2>4, PutBackInv, CloseConnInv, ReleaseSlotInv
  <2>5. ASSUME CloseClient \/ DrainIdle \/ UNCHANGED poolVars
        PROVE  PoolInv'
    BY <1>1, <2>5, CloseClientInv, DrainIdleInv
  <2> QED
    BY <1>1, <2>1, <2>2, <2>3, <2>4, <2>5 DEF PoolNext
<1> QED
  BY <1>1, PoolInitInv, PTL DEF PoolSpec

(* The variables have the types that the runs check.                       *)
THEOREM PoolTypesHold == PoolSpec => []PoolTypeOK
<1>1. ASSUME PoolInv
      PROVE  PoolTypeOK
  <2>1. InPool \subseteq alive
    BY <1>1 DEF PoolInv, HandInv
  <2>2. 1..dials \subseteq Sockets
    BY <1>1, RedisPoolAssumptions DEF PoolInv, PoolTypes, Sockets
  <2> QED
    BY <1>1, <2>1, <2>2 DEF PoolInv, PoolTypes, Inside, PoolTypeOK
<1> QED
  BY <1>1, PoolInvariant, PTL

(* Whatever the callers, the network and Close do, a caller gets the reply *)
(* to its own command or none, no connection is in two hands, and the      *)
(* connections with the dials under way are at most PoolSize.              *)
THEOREM RepliesAreMatched == PoolSpec => []RepliesMatch
<1>1. ASSUME PoolInv
      PROVE  RepliesMatch
  <2>1. \A c \in Callers : answer[c] # 0 => answer[c] = command[c]
    BY <1>1 DEF PoolInv, WireInv
  <2>2. \A c, d \in Callers : c # d /\ socket[c] # NoSocket => socket[c] # socket[d]
    BY <1>1 DEF PoolInv, HandInv
  <2>3. \A c \in Callers : socket[c] \notin InPool
    <3>1. NoSocket \notin InPool
      BY <1>1, RedisPoolAssumptions DEF PoolInv, PoolTypes, HandInv, NoSocket
    <3> QED
      BY <1>1, <3>1 DEF PoolInv, HandInv
  <2>4. Cardinality(alive) + Cardinality({c \in Callers : at[c] = "dialling"}) <= PoolSize
    BY <1>1 DEF PoolInv, BoundInv, Dialling
  <2> QED
    BY <2>1, <2>2, <2>3, <2>4 DEF RepliesMatch
<1> QED
  BY <1>1, PoolInvariant, PTL

-----------------------------------------------------------------------------
(* RoomLimits: counting.                                                   *)

Tickets == [at : 0..MaxInstant, by : Replicas, life : 0..MaxLives]

LEMMA LimitConstants ==
    /\ RoomLimit \in Nat /\ RoomLimit > 0 /\ RoomWindow \in Nat /\ RoomWindow > 0
    /\ MaxInstant \in Nat /\ MaxAsks \in Nat /\ MaxLives \in Nat
BY RoomLimitsAssumptions

(* Entries of al let through from t on, from t on and before u, in the     *)
(* window that starts at t; all, or those of one life of one replica.      *)
Since(al, t) == {i \in DOMAIN al : al[i].at >= t}
Earlier(al, t, u) == {i \in DOMAIN al : al[i].at >= t /\ al[i].at < u}
Span(al, t) == {i \in DOMAIN al : al[i].at \in t..(t + RoomWindow - 1)}
OwnSince(al, r, l, t) == {i \in DOMAIN al : al[i].by = r /\ al[i].life = l /\ al[i].at >= t}
OwnSpan(al, r, l, t) == {i \in DOMAIN al : al[i].at \in t..(t + RoomWindow - 1) /\ al[i].by = r /\ al[i].life = l}

LEMMA SmallerSet ==
    ASSUME NEW n \in Nat, NEW Q \in SUBSET (1..n), NEW P \in SUBSET Q
    PROVE  /\ IsFiniteSet(P) /\ IsFiniteSet(Q) /\ Cardinality(P) \in Nat /\ Cardinality(Q) \in Nat
           /\ Cardinality(P) <= Cardinality(Q) /\ Cardinality(Q) <= n
<1>1. IsFiniteSet(1..n) /\ Cardinality(1..n) = n
  <2>1. Cardinality(1..n) = IF 1 > n THEN 0 ELSE n - 1 + 1
    BY FS_Interval
  <2>2. IsFiniteSet(1..n)
    BY FS_Interval
  <2> DEFINE k == Cardinality(1..n)
  <2>3. k = IF 1 > n THEN 0 ELSE n - 1 + 1
    BY <2>1
  <2> HIDE DEF k
  <2>4. k = n
    BY <2>3
  <2> QED
    BY <2>2, <2>4 DEF k
<1>2. IsFiniteSet(Q) /\ Cardinality(Q) <= Cardinality(1..n)
  BY <1>1, FS_Subset
<1>3. IsFiniteSet(P) /\ Cardinality(P) <= Cardinality(Q)
  BY <1>2, FS_Subset
<1> QED
  BY <1>1, <1>2, <1>3, FS_CardinalityType

LEMMA OneMore ==
    ASSUME NEW n \in Nat, NEW P \in SUBSET (1..n)
    PROVE  IsFiniteSet(P) /\ Cardinality(P) \in Nat /\ Cardinality(P \cup {n + 1}) = Cardinality(P) + 1
<1>1. IsFiniteSet(P) /\ Cardinality(P) \in Nat
  <2>1. P \in SUBSET P
    OBVIOUS
  <2> QED
    BY <2>1, SmallerSet
<1>2. n + 1 \notin P
  OBVIOUS
<1> QED
  BY <1>1, <1>2, FS_AddElement

(* What one more entry does to the sets above.                             *)
LEMMA OneMoreTicket ==
    ASSUME NEW al \in Seq(Tickets), NEW e \in Tickets
    PROVE  /\ Append(al, e) \in Seq(Tickets) /\ Len(Append(al, e)) = Len(al) + 1 /\ Len(al) \in Nat
           /\ DOMAIN al = 1..Len(al)
           /\ \A t : Since(Append(al, e), t) = Since(al, t) \cup (IF e.at >= t THEN {Len(al) + 1} ELSE {})
           /\ \A t, u : Earlier(Append(al, e), t, u) = Earlier(al, t, u) \cup (IF e.at >= t /\ e.at < u THEN {Len(al) + 1} ELSE {})
           /\ \A t : Span(Append(al, e), t) = Span(al, t) \cup (IF e.at \in t..(t + RoomWindow - 1) THEN {Len(al) + 1} ELSE {})
           /\ \A r, l, t : OwnSince(Append(al, e), r, l, t) = OwnSince(al, r, l, t)
                              \cup (IF e.by = r /\ e.life = l /\ e.at >= t THEN {Len(al) + 1} ELSE {})
           /\ \A r, l, t : OwnSpan(Append(al, e), r, l, t) = OwnSpan(al, r, l, t)
                              \cup (IF e.at \in t..(t + RoomWindow - 1) /\ e.by = r /\ e.life = l THEN {Len(al) + 1} ELSE {})
<1> DEFINE n == Len(al)
           bl == Append(al, e)
<1>1. n \in Nat /\ DOMAIN al = 1..n
  OBVIOUS
<1>2. bl \in Seq(Tickets) /\ Len(bl) = n + 1 /\ DOMAIN bl = 1..(n + 1)
  OBVIOUS
<1>3. (\A i \in 1..n : bl[i] = al[i]) /\ bl[n + 1] = e
  OBVIOUS
<1> HIDE DEF bl, n
<1>4. DOMAIN bl = DOMAIN al \cup {n + 1} /\ n + 1 \notin DOMAIN al
  BY <1>1, <1>2
<1>5. \A t : Since(bl, t) = Since(al, t) \cup (IF e.at >= t THEN {n + 1} ELSE {})
  BY <1>1, <1>3, <1>4 DEF Since
<1>6. \A t, u : Earlier(bl, t, u) = Earlier(al, t, u) \cup (IF e.at >= t /\ e.at < u THEN {n + 1} ELSE {})
  BY <1>1, <1>3, <1>4 DEF Earlier
<1>7. \A t : Span(bl, t) = Span(al, t) \cup (IF e.at \in t..(t + RoomWindow - 1) THEN {n + 1} ELSE {})
  BY <1>1, <1>3, <1>4 DEF Span
<1>8. \A r, l, t : OwnSince(bl, r, l, t) = OwnSince(al, r, l, t)
                              \cup (IF e.by = r /\ e.life = l /\ e.at >= t THEN {n + 1} ELSE {})
  BY <1>1, <1>3, <1>4 DEF OwnSince
<1>9. \A r, l, t : OwnSpan(bl, r, l, t) = OwnSpan(al, r, l, t)
                              \cup (IF e.at \in t..(t + RoomWindow - 1) /\ e.by = r /\ e.life = l THEN {n + 1} ELSE {})
  BY <1>1, <1>3, <1>4 DEF OwnSpan
<1> QED
  BY <1>1, <1>2, <1>5, <1>6, <1>7, <1>8, <1>9 DEF n, bl

(* How many of the first n entries of q are t or later.                    *)
LateOf(q, n, t) == Cardinality({j \in 1..n : q[j] >= t})

LEMMA LateNext ==
    ASSUME NEW q, NEW n \in Nat, NEW t
    PROVE  /\ LateOf(q, n, t) \in Nat /\ LateOf(q, n, t) <= n
           /\ LateOf(q, n + 1, t) = LateOf(q, n, t) + (IF q[n + 1] >= t THEN 1 ELSE 0)
<1> DEFINE P == {j \in 1..n : q[j] >= t}
           R == {j \in 1..(n + 1) : q[j] >= t}
<1>1. P \in SUBSET (1..n) /\ P \in SUBSET P
  OBVIOUS
<1>2. R = P \cup (IF q[n + 1] >= t THEN {n + 1} ELSE {})
  <2>1. 1..(n + 1) = (1..n) \cup {n + 1}
    OBVIOUS
  <2> QED
    BY <2>1
<1> HIDE DEF P, R
<1>3. Cardinality(P) \in Nat /\ Cardinality(P) <= n /\ Cardinality(P \cup {n + 1}) = Cardinality(P) + 1
  BY <1>1, SmallerSet, OneMore
<1>4. LateOf(q, n, t) = Cardinality(P) /\ LateOf(q, n + 1, t) = Cardinality(R)
  BY DEF LateOf, P, R
<1>5. CASE q[n + 1] >= t
  BY <1>2, <1>3, <1>4, <1>5
<1>6. CASE ~(q[n + 1] >= t)
  <2>1. R = P
    BY <1>2, <1>6
  <2> QED
    BY <1>3, <1>4, <1>6, <2>1
<1> QED
  BY <1>5, <1>6

LEMMA LateSame ==
    ASSUME NEW q, NEW p, NEW n, NEW t, \A j \in 1..n : q[j] = p[j]
    PROVE  LateOf(q, n, t) = LateOf(p, n, t)
<1>1. {j \in 1..n : q[j] >= t} = {j \in 1..n : p[j] >= t}
  OBVIOUS
<1> QED
  BY <1>1 DEF LateOf

(* The loop of AllowRoomCreation over the first hits.                      *)
RecentRun(n, recent, q) ==
    recent = [i \in 0..n |->
       IF i = 0 THEN <<>>
       ELSE IF instant - q[i] < RoomWindow THEN Append(recent[i - 1], q[i]) ELSE recent[i - 1]]

LEMMA RecentExists ==
    ASSUME NEW q, NEW k \in Nat
    PROVE  \E recent : RecentRun(k, recent, q)
<1> DEFINE Step(prev, i) == IF instant - q[i] < RoomWindow THEN Append(prev, q[i]) ELSE prev
           T == {n \in Nat : ~\E recent : RecentRun(n, recent, q)}
<1>1. ASSUME T # {} PROVE FALSE
  <2>1. PICK n \in T : \A y \in T : n <= y
    BY <1>1, LeastOf
  <2>2. n # 0
    <3>1. RecentRun(0, [i \in 0..0 |-> <<>>], q)
      BY DEF RecentRun
    <3> QED
      BY <2>1, <3>1
  <2>3. n - 1 \in Nat /\ n - 1 \notin T /\ n \in Nat
    <3>1. n \in Nat
      BY <2>1
    <3> HIDE DEF T
    <3> QED
      BY <2>1, <2>2, <3>1
  <2>4. PICK recent : RecentRun(n - 1, recent, q)
    BY <2>3
  <2> DEFINE next == [i \in 0..n |-> IF i = n THEN Step(recent[n - 1], n) ELSE recent[i]]
  <2> HIDE DEF Step
  <2>5. \A i \in 0..(n - 1) : next[i] = recent[i]
    BY <2>3
  <2>6. \A i \in 0..(n - 1) : recent[i] = IF i = 0 THEN <<>> ELSE Step(recent[i - 1], i)
    BY <2>3, <2>4 DEF RecentRun, Step
  <2>7. ASSUME NEW i \in 0..n PROVE next[i] = IF i = 0 THEN <<>> ELSE Step(next[i - 1], i)
    <3>1. CASE i = n
      <4>1. next[n - 1] = recent[n - 1]
        BY <2>2, <2>3, <2>5
      <4>2. next[n] = Step(recent[n - 1], n)
        BY <2>3
      <4> HIDE DEF next
      <4> QED
        BY <2>2, <3>1, <4>1, <4>2
    <3>2. CASE i # n
      <4>1. i \in 0..(n - 1) /\ (i # 0 => i - 1 \in 0..(n - 1))
        BY <2>3, <3>2
      <4> HIDE DEF next
      <4> QED
        BY <2>5, <2>6, <4>1
    <3> QED
      BY <3>1, <3>2
  <2>8. RecentRun(n, next, q)
    <3>1. next = [i \in 0..n |-> next[i]]
      OBVIOUS
    <3> HIDE DEF next
    <3> QED
      BY <2>7, <3>1 DEF RecentRun, Step
  <2> QED
    BY <2>1, <2>8
<1> QED
  BY <1>1

(* Every hit of the window is among the recent ones.                       *)
LEMMA RecentFacts ==
    ASSUME NEW r, hits[r] \in Seq(0..MaxInstant), instant \in Nat
    PROVE  /\ RecentHits(r) \in Seq(0..MaxInstant)
           /\ \A t \in Int : t > instant - RoomWindow =>
                 LateOf(RecentHits(r), Len(RecentHits(r)), t) = LateOf(hits[r], Len(hits[r]), t)
<1> DEFINE q == hits[r]
           n == Len(q)
           A == 0..MaxInstant
           rec == CHOOSE f : RecentRun(n, f, q)
<1>1. n \in Nat /\ RoomWindow \in Nat /\ q \in Seq(A) /\ \A i \in 1..n : q[i] \in A /\ q[i] \in Int
  BY LimitConstants
<1>2. RecentRun(n, rec, q)
  BY <1>1, RecentExists
<1>3. RecentHits(r) = rec[n]
  BY DEF RecentHits, RecentRun
<1> HIDE DEF rec, n, q, A
<1>4. /\ rec[0] = <<>>
      /\ \A i \in 1..n : rec[i] = IF instant - q[i] < RoomWindow THEN Append(rec[i - 1], q[i]) ELSE rec[i - 1]
  <2>1. 0 \in 0..n /\ \A i \in 1..n : i \in 0..n /\ i # 0
    BY <1>1
  <2> QED
    BY <1>2, <2>1 DEF RecentRun
<1> DEFINE Good(i) == /\ rec[i] \in Seq(A)
                      /\ \A t \in Int : t > instant - RoomWindow => LateOf(rec[i], Len(rec[i]), t) = LateOf(q, i, t)
           T == {i \in 0..n : ~Good(i)}
<1>5. Good(0)
  <2>1. rec[0] \in Seq(A) /\ Len(rec[0]) = 0
    BY <1>4
  <2>2. \A t : LateOf(rec[0], 0, t) = LateOf(q, 0, t)
    <3>1. \A t : {j \in 1..0 : rec[0][j] >= t} = {j \in 1..0 : q[j] >= t}
      OBVIOUS
    <3> QED
      BY <3>1 DEF LateOf
  <2> QED
    BY <2>1, <2>2
<1>6. ASSUME NEW i \in 1..n, Good(i - 1) PROVE Good(i)
  <2> DEFINE prev == rec[i - 1]
             k == Len(prev)
  <2>1. prev \in Seq(A) /\ k \in Nat /\ i - 1 \in Nat /\ (i - 1) + 1 = i
    BY <1>1, <1>6
  <2>2. \A t \in Int : t > instant - RoomWindow => LateOf(prev, k, t) = LateOf(q, i - 1, t)
    BY <1>6
  <2>3. \A t : LateOf(q, i - 1, t) \in Nat /\ LateOf(q, i, t) = LateOf(q, i - 1, t) + (IF q[i] >= t THEN 1 ELSE 0)
    BY <2>1, LateNext
  <2>4. CASE instant - q[i] < RoomWindow
    <3>1. rec[i] = Append(prev, q[i])
      BY <1>4, <2>4
    <3> HIDE DEF prev, k
    <3>2. rec[i] \in Seq(A) /\ Len(rec[i]) = k + 1 /\ rec[i][k + 1] = q[i] /\ \A j \in 1..k : rec[i][j] = prev[j]
      BY <1>1, <2>1, <3>1 DEF k
    <3>3. \A t : LateOf(rec[i], k, t) = LateOf(prev, k, t)
      BY <3>2, LateSame
    <3>4. \A t : LateOf(rec[i], k + 1, t) = LateOf(rec[i], k, t) + (IF rec[i][k + 1] >= t THEN 1 ELSE 0)
      BY <2>1, LateNext, SMTT(30)
    <3>5. \A t \in Int : t > instant - RoomWindow => LateOf(rec[i], k + 1, t) = LateOf(q, i, t)
      BY <2>2, <2>3, <3>2, <3>3, <3>4
    <3> QED
      BY <3>2, <3>5
  <2>5. CASE ~(instant - q[i] < RoomWindow)
    <3>1. rec[i] = prev
      BY <1>4, <2>5
    <3>2. \A t \in Int : t > instant - RoomWindow => ~(q[i] >= t)
      BY <1>1, <2>5
    <3> HIDE DEF prev, k
    <3>3. \A t \in Int : t > instant - RoomWindow => LateOf(q, i, t) = LateOf(q, i - 1, t)
      BY <2>3, <3>2
    <3> QED
      BY <2>1, <2>2, <3>1, <3>3 DEF k
  <2> QED
    BY <2>4, <2>5
<1> HIDE DEF Good
<1>7. T = {}
  <2> SUFFICES ASSUME T # {} PROVE FALSE
    OBVIOUS
  <2>1. T \in SUBSET Nat
    BY <1>1
  <2>2. PICK i \in T : \A y \in T : i <= y
    BY <2>1, LeastOf
  <2>3. i \in 1..n /\ i - 1 \in 0..n
    BY <1>1, <1>5, <2>2
  <2>4. Good(i - 1)
    BY <2>2, <2>3
  <2> QED
    BY <1>6, <2>2, <2>3, <2>4
<1>8. Good(n)
  <2>1. n \in 0..n
    BY <1>1
  <2> QED
    BY <1>7, <2>1
<1> QED
  BY <1>3, <1>8 DEF Good, n, q, A

-----------------------------------------------------------------------------
(* RoomLimits: how many entries a span holds.                              *)

SinceCount(al, t) == Cardinality(Since(al, t))
EarlierCount(al, t, u) == Cardinality(Earlier(al, t, u))
SpanCount(al, t) == Cardinality(Span(al, t))
OwnSinceCount(al, r, l, t) == Cardinality(OwnSince(al, r, l, t))
OwnSpanCount(al, r, l, t) == Cardinality(OwnSpan(al, r, l, t))

LEMMA CountOneMore ==
    ASSUME NEW n \in Nat, NEW P \in SUBSET (1..n), NEW c \in BOOLEAN
    PROVE  /\ Cardinality(P) \in Nat
           /\ Cardinality(P \cup (IF c THEN {n + 1} ELSE {})) = Cardinality(P) + (IF c THEN 1 ELSE 0)
<1>1. Cardinality(P) \in Nat /\ Cardinality(P \cup {n + 1}) = Cardinality(P) + 1
  BY OneMore
<1>2. CASE c
  BY <1>1, <1>2
<1>3. CASE ~c
  <2>1. P \cup (IF c THEN {n + 1} ELSE {}) = P
    BY <1>3
  <2> QED
    BY <1>1, <1>3, <2>1
<1> QED
  BY <1>2, <1>3

LEMMA CountsAppend ==
    ASSUME NEW al \in Seq(Tickets), NEW e \in Tickets
    PROVE  /\ \A t : /\ SinceCount(al, t) \in Nat
                     /\ SinceCount(Append(al, e), t) = SinceCount(al, t) + (IF e.at >= t THEN 1 ELSE 0)
           /\ \A t, u : /\ EarlierCount(al, t, u) \in Nat
                        /\ EarlierCount(Append(al, e), t, u)
                             = EarlierCount(al, t, u) + (IF e.at >= t /\ e.at < u THEN 1 ELSE 0)
           /\ \A t : /\ SpanCount(al, t) \in Nat
                     /\ SpanCount(Append(al, e), t)
                          = SpanCount(al, t) + (IF e.at \in t..(t + RoomWindow - 1) THEN 1 ELSE 0)
           /\ \A r, l, t : /\ OwnSinceCount(al, r, l, t) \in Nat
                           /\ OwnSinceCount(Append(al, e), r, l, t)
                                = OwnSinceCount(al, r, l, t) + (IF e.by = r /\ e.life = l /\ e.at >= t THEN 1 ELSE 0)
           /\ \A r, l, t : /\ OwnSpanCount(al, r, l, t) \in Nat
                           /\ OwnSpanCount(Append(al, e), r, l, t)
                                = OwnSpanCount(al, r, l, t)
                                    + (IF e.at \in t..(t + RoomWindow - 1) /\ e.by = r /\ e.life = l THEN 1 ELSE 0)
<1> DEFINE n == Len(al)
<1>1. n \in Nat /\ DOMAIN al = 1..n
  OBVIOUS
<1> HIDE DEF n
<1>2. ASSUME NEW t
      PROVE  /\ SinceCount(al, t) \in Nat
             /\ SinceCount(Append(al, e), t) = SinceCount(al, t) + (IF e.at >= t THEN 1 ELSE 0)
  <2>1. Since(Append(al, e), t) = Since(al, t) \cup (IF e.at >= t THEN {n + 1} ELSE {})
    BY OneMoreTicket DEF n
  <2>2. Since(al, t) \in SUBSET (1..n) /\ (e.at >= t) \in BOOLEAN
    BY <1>1 DEF Since
  <2> QED
    BY <1>1, <2>1, <2>2, CountOneMore, ZenonT(60) DEF SinceCount
<1>3. ASSUME NEW t, NEW u
      PROVE  /\ EarlierCount(al, t, u) \in Nat
             /\ EarlierCount(Append(al, e), t, u)
                  = EarlierCount(al, t, u) + (IF e.at >= t /\ e.at < u THEN 1 ELSE 0)
  <2>1. Earlier(Append(al, e), t, u) = Earlier(al, t, u) \cup (IF e.at >= t /\ e.at < u THEN {n + 1} ELSE {})
    BY OneMoreTicket DEF n
  <2>2. Earlier(al, t, u) \in SUBSET (1..n) /\ (e.at >= t /\ e.at < u) \in BOOLEAN
    BY <1>1 DEF Earlier
  <2> QED
    BY <1>1, <2>1, <2>2, CountOneMore, ZenonT(60) DEF EarlierCount
<1>4. ASSUME NEW t
      PROVE  /\ SpanCount(al, t) \in Nat
             /\ SpanCount(Append(al, e), t)
                  = SpanCount(al, t) + (IF e.at \in t..(t + RoomWindow - 1) THEN 1 ELSE 0)
  <2>1. Span(Append(al, e), t) = Span(al, t) \cup (IF e.at \in t..(t + RoomWindow - 1) THEN {n + 1} ELSE {})
    BY OneMoreTicket DEF n
  <2>2. Span(al, t) \in SUBSET (1..n) /\ (e.at \in t..(t + RoomWindow - 1)) \in BOOLEAN
    BY <1>1 DEF Span
  <2> QED
    BY <1>1, <2>1, <2>2, CountOneMore DEF SpanCount
<1>5. ASSUME NEW r, NEW l, NEW t
      PROVE  /\ OwnSinceCount(al, r, l, t) \in Nat
             /\ OwnSinceCount(Append(al, e), r, l, t)
                  = OwnSinceCount(al, r, l, t) + (IF e.by = r /\ e.life = l /\ e.at >= t THEN 1 ELSE 0)
  <2>1. OwnSince(Append(al, e), r, l, t) = OwnSince(al, r, l, t)
                              \cup (IF e.by = r /\ e.life = l /\ e.at >= t THEN {n + 1} ELSE {})
    BY OneMoreTicket DEF n
  <2>2. OwnSince(al, r, l, t) \in SUBSET (1..n) /\ (e.by = r /\ e.life = l /\ e.at >= t) \in BOOLEAN
    BY <1>1 DEF OwnSince
  <2> DEFINE P == OwnSince(al, r, l, t)
             c == e.by = r /\ e.life = l /\ e.at >= t
  <2>3. OwnSince(Append(al, e), r, l, t) = P \cup (IF c THEN {n + 1} ELSE {}) /\ P \in SUBSET (1..n) /\ c \in BOOLEAN
    BY <2>1, <2>2
  <2> HIDE DEF P, c
  <2>4. Cardinality(P) \in Nat
        /\ Cardinality(OwnSince(Append(al, e), r, l, t)) = Cardinality(P) + (IF c THEN 1 ELSE 0)
    BY <1>1, <2>3, CountOneMore
  <2> QED
    BY <2>4 DEF OwnSinceCount, P, c
<1>6. ASSUME NEW r, NEW l, NEW t
      PROVE  /\ OwnSpanCount(al, r, l, t) \in Nat
             /\ OwnSpanCount(Append(al, e), r, l, t)
                  = OwnSpanCount(al, r, l, t)
                      + (IF e.at \in t..(t + RoomWindow - 1) /\ e.by = r /\ e.life = l THEN 1 ELSE 0)
  <2>1. OwnSpan(Append(al, e), r, l, t) = OwnSpan(al, r, l, t)
                              \cup (IF e.at \in t..(t + RoomWindow - 1) /\ e.by = r /\ e.life = l THEN {n + 1} ELSE {})
    BY OneMoreTicket DEF n
  <2>2. OwnSpan(al, r, l, t) \in SUBSET (1..n) /\ (e.at \in t..(t + RoomWindow - 1) /\ e.by = r /\ e.life = l) \in BOOLEAN
    BY <1>1 DEF OwnSpan
  <2> QED
    BY <1>1, <2>1, <2>2, CountOneMore, ZenonT(60) DEF OwnSpanCount
<1> QED
  BY <1>2, <1>3, <1>4, <1>5, <1>6

LEMMA CountsCompare ==
    ASSUME NEW al \in Seq(Tickets), NEW t \in Int, NEW u \in Int
    PROVE  /\ SpanCount(al, t) <= SinceCount(al, t)
           /\ SpanCount(al, t) <= EarlierCount(al, t, u) + SinceCount(al, u)
           /\ EarlierCount(al, t, u) <= SinceCount(al, t)
           /\ t <= u => SinceCount(al, u) <= SinceCount(al, t)
           /\ \A r, l : OwnSpanCount(al, r, l, t) <= OwnSinceCount(al, r, l, t)
<1> DEFINE n == Len(al)
<1>1. n \in Nat /\ DOMAIN al = 1..n /\ RoomWindow \in Nat
  BY LimitConstants
<1>2. \A i \in 1..n : al[i].at \in Int
  <2>1. \A i \in 1..n : al[i] \in Tickets
    BY <1>1
  <2>2. \A e \in Tickets : e.at \in 0..MaxInstant
    BY DEF Tickets
  <2>3. \A x \in 0..MaxInstant : x \in Int
    BY LimitConstants
  <2> HIDE DEF n
  <2> QED
    BY <2>1, <2>2, <2>3
<1> HIDE DEF n
<1>3. \A x : Since(al, x) \in SUBSET (1..n)
  BY <1>1 DEF Since
<1>4. SpanCount(al, t) <= SinceCount(al, t)
  <2>1. Span(al, t) \in SUBSET Since(al, t)
    BY <1>1, <1>2 DEF Since, Span
  <2> QED
    BY <1>1, <1>3, <2>1, SmallerSet DEF SpanCount, SinceCount
<1>5. EarlierCount(al, t, u) <= SinceCount(al, t)
  <2>1. Earlier(al, t, u) \in SUBSET Since(al, t)
    BY DEF Since, Earlier
  <2> QED
    BY <1>1, <1>3, <2>1, SmallerSet DEF EarlierCount, SinceCount
<1>6. ASSUME t <= u PROVE SinceCount(al, u) <= SinceCount(al, t)
  <2>1. Since(al, u) \in SUBSET Since(al, t)
    BY <1>1, <1>2, <1>6 DEF Since
  <2> QED
    BY <1>1, <1>3, <2>1, SmallerSet DEF SinceCount
<1>7. ASSUME NEW r, NEW l PROVE OwnSpanCount(al, r, l, t) <= OwnSinceCount(al, r, l, t)
  <2>1. OwnSpan(al, r, l, t) \in SUBSET OwnSince(al, r, l, t)
    BY <1>1, <1>2 DEF OwnSince, OwnSpan
  <2>2. OwnSince(al, r, l, t) \in SUBSET (1..n)
    BY <1>1 DEF OwnSince
  <2> QED
    BY <1>1, <2>1, <2>2, SmallerSet DEF OwnSpanCount, OwnSinceCount
<1>8. SpanCount(al, t) <= EarlierCount(al, t, u) + SinceCount(al, u)
  <2> DEFINE P == Earlier(al, t, u)
             Q == Since(al, u)
  <2>1. Span(al, t) \in SUBSET (P \cup Q)
    BY <1>1, <1>2 DEF Since, Span, Earlier
  <2>2. P \in SUBSET (1..n) /\ Q \in SUBSET (1..n) /\ P \cup Q \in SUBSET (1..n) /\ P \in SUBSET P /\ Q \in SUBSET Q
        /\ P \cap Q \in SUBSET (1..n) /\ P \cap Q \in SUBSET (P \cap Q)
    BY <1>1 DEF Since, Earlier
  <2> HIDE DEF P, Q
  <2>3. /\ IsFiniteSet(P) /\ IsFiniteSet(Q) /\ Cardinality(P) \in Nat /\ Cardinality(Q) \in Nat
        /\ Cardinality(P \cap Q) \in Nat
    BY <1>1, <2>2, SmallerSet
  <2>4. Cardinality(P \cup Q) = Cardinality(P) + Cardinality(Q) - Cardinality(P \cap Q)
    BY <2>3, FS_Union
  <2>5. Cardinality(Span(al, t)) <= Cardinality(P \cup Q) /\ Cardinality(Span(al, t)) \in Nat
    BY <1>1, <2>1, <2>2, SmallerSet
  <2>6. Cardinality(Span(al, t)) <= Cardinality(P) + Cardinality(Q)
    BY <2>3, <2>4, <2>5
  <2> QED
    BY <2>6 DEF SpanCount, EarlierCount, SinceCount, P, Q
<1> QED
  BY <1>4, <1>5, <1>6, <1>7, <1>8

LEMMA CountsNat ==
    ASSUME NEW al \in Seq(Tickets)
    PROVE  /\ \A t : SinceCount(al, t) \in Nat /\ SpanCount(al, t) \in Nat
           /\ \A t, u : EarlierCount(al, t, u) \in Nat
           /\ \A r, l, t : OwnSinceCount(al, r, l, t) \in Nat /\ OwnSpanCount(al, r, l, t) \in Nat
<1> DEFINE n == Len(al)
<1>1. n \in Nat /\ DOMAIN al = 1..n
  OBVIOUS
<1> HIDE DEF n
<1>2. \A P \in SUBSET (1..n) : Cardinality(P) \in Nat
  <2> TAKE P \in SUBSET (1..n)
  <2>1. P \in SUBSET P
    OBVIOUS
  <2> QED
    BY <1>1, <2>1, SmallerSet
<1>3. /\ \A t : Since(al, t) \in SUBSET (1..n) /\ Span(al, t) \in SUBSET (1..n)
      /\ \A t, u : Earlier(al, t, u) \in SUBSET (1..n)
      /\ \A r, l, t : OwnSince(al, r, l, t) \in SUBSET (1..n) /\ OwnSpan(al, r, l, t) \in SUBSET (1..n)
  BY <1>1 DEF Since, Span, Earlier, OwnSince, OwnSpan
<1> QED
  BY <1>2, <1>3 DEF SinceCount, SpanCount, EarlierCount, OwnSinceCount, OwnSpanCount

-----------------------------------------------------------------------------
(* RoomLimits: the shared counter.                                         *)

Capped(n) == IF n < RoomLimit THEN n ELSE RoomLimit

(* Without a key nothing was let through at this instant, and in a window  *)
(* that is not over at most one less than the limit. With one, that began  *)
(* at s, at most as many as it counts since s, one less after s, and in a  *)
(* window reaching s at most one less than the limit before s.             *)
NoKeyHolds(al, now) ==
    /\ SinceCount(al, now) = 0
    /\ \A t \in Int : t > now - RoomWindow => SinceCount(al, t) <= RoomLimit - 1
KeyHolds(al, now, n, s) ==
    /\ s <= now /\ now < s + RoomWindow
    /\ SinceCount(al, s) <= Capped(n)
    /\ SinceCount(al, s + 1) <= Capped(n) - 1
    /\ \A t \in Int : t > s - RoomWindow => EarlierCount(al, t, s) <= RoomLimit - 1
SharedHolds(al, now, c) ==
    /\ c.n = 0 => NoKeyHolds(al, now)
    /\ c.n > 0 => KeyHolds(al, now, c.n, c.expires - RoomWindow)
    /\ \A t \in Int : SpanCount(al, t) <= 2 * RoomLimit - 1

Past(al, now) == \A i \in DOMAIN al : al[i].at <= now

LEMMA EarlierAppend ==
    ASSUME NEW al \in Seq(Tickets), NEW e \in Tickets
    PROVE  \A t, u : EarlierCount(Append(al, e), t, u)
                       = EarlierCount(al, t, u) + (IF e.at >= t /\ e.at < u THEN 1 ELSE 0)
BY CountsAppend

LEMMA NothingLater ==
    ASSUME NEW al \in Seq(Tickets), NEW now \in Nat, Past(al, now)
    PROVE  SinceCount(al, now + 1) = 0
<1> DEFINE n == Len(al)
<1>1. n \in Nat /\ DOMAIN al = 1..n
  OBVIOUS
<1>2. \A i \in 1..n : al[i] \in Tickets
  OBVIOUS
<1>3. \A e \in Tickets : e.at \in Int
  BY LimitConstants DEF Tickets
<1> HIDE DEF n
<1>4. \A i \in 1..n : ~(al[i].at >= now + 1)
  <2> TAKE i \in 1..n
  <2>1. al[i].at \in Int /\ al[i].at <= now
    BY <1>1, <1>2, <1>3 DEF Past
  <2> QED
    BY <2>1
<1>5. Since(al, now + 1) = {}
  BY <1>1, <1>4 DEF Since
<1> QED
  BY <1>5, FS_EmptySet DEF SinceCount

LEMMA KeyBegins ==
    ASSUME NEW al \in Seq(Tickets), NEW e \in Tickets, NEW now \in Nat, e.at = now,
           Past(al, now), NoKeyHolds(al, now), \A t \in Int : SpanCount(al, t) <= 2 * RoomLimit - 1
    PROVE  /\ KeyHolds(Append(al, e), now, 1, now)
           /\ \A t \in Int : SpanCount(Append(al, e), t) <= 2 * RoomLimit - 1
<1> DEFINE bl == Append(al, e)
<1>1. bl \in Seq(Tickets)
  OBVIOUS
<1>2. \A t : /\ SinceCount(al, t) \in Nat
             /\ SinceCount(bl, t) = SinceCount(al, t) + (IF now >= t THEN 1 ELSE 0)
  BY CountsAppend
<1>3. \A t, u : /\ EarlierCount(al, t, u) \in Nat
                /\ EarlierCount(bl, t, u) = EarlierCount(al, t, u) + (IF now >= t /\ now < u THEN 1 ELSE 0)
  <2>1. \A t, u : EarlierCount(al, t, u) \in Nat
    BY CountsNat
  <2>2. \A t, u : EarlierCount(bl, t, u) = EarlierCount(al, t, u) + (IF e.at >= t /\ e.at < u THEN 1 ELSE 0)
    BY EarlierAppend
  <2> HIDE DEF bl
  <2> QED
    BY <2>1, <2>2
<1>4. \A t : /\ SpanCount(al, t) \in Nat
             /\ SpanCount(bl, t) = SpanCount(al, t) + (IF now \in t..(t + RoomWindow - 1) THEN 1 ELSE 0)
  BY CountsAppend
<1>5. \A t \in Int, u \in Int : EarlierCount(al, t, u) <= SinceCount(al, t) /\ SpanCount(al, t) <= SinceCount(al, t)
  BY CountsCompare
<1>6. SinceCount(al, now) = 0 /\ SinceCount(al, now + 1) = 0
  BY NothingLater DEF NoKeyHolds
<1>7. \A t \in Int : t > now - RoomWindow => SinceCount(al, t) <= RoomLimit - 1
  BY DEF NoKeyHolds
<1> HIDE DEF bl
<1>8. RoomLimit \in Nat /\ RoomLimit > 0 /\ RoomWindow \in Nat /\ RoomWindow > 0 /\ Capped(1) = 1
  BY LimitConstants DEF Capped
<1>9. ASSUME NEW t \in Int, t > now - RoomWindow
      PROVE  EarlierCount(bl, t, now) <= RoomLimit - 1
  <2>1. EarlierCount(al, t, now) \in Nat /\ EarlierCount(al, t, now) <= SinceCount(al, t)
    <3>1. now \in Int
      OBVIOUS
    <3> QED
      BY <1>5, <3>1, CountsNat
  <2>2. SinceCount(al, t) \in Nat /\ SinceCount(al, t) <= RoomLimit - 1
    BY <1>2, <1>7, <1>9
  <2>3. EarlierCount(bl, t, now) = EarlierCount(al, t, now)
    BY <1>3, <2>1
  <2> QED
    BY <1>8, <2>1, <2>2, <2>3
<1>10. KeyHolds(bl, now, 1, now)
  <2>1. SinceCount(bl, now) = 1 /\ SinceCount(bl, now + 1) = 0
    BY <1>2, <1>6
  <2> QED
    BY <1>8, <1>9, <2>1 DEF KeyHolds
<1>11. ASSUME NEW t \in Int PROVE SpanCount(bl, t) <= 2 * RoomLimit - 1
  <2>1. CASE now \in t..(t + RoomWindow - 1)
    <3>1. t > now - RoomWindow
      BY <1>8, <2>1
    <3>2. SinceCount(al, t) \in Nat /\ SinceCount(al, t) <= RoomLimit - 1 /\ SpanCount(al, t) <= SinceCount(al, t)
      BY <1>2, <1>5, <1>7, <3>1
    <3>3. SpanCount(al, t) \in Nat /\ SpanCount(bl, t) = SpanCount(al, t) + 1
      BY <1>4, <2>1
    <3> QED
      BY <1>8, <3>2, <3>3
  <2>2. CASE ~(now \in t..(t + RoomWindow - 1))
    <3>1. SpanCount(bl, t) = SpanCount(al, t)
      BY <1>4, <2>2
    <3> QED
      BY <3>1
  <2> QED
    BY <2>1, <2>2
<1> QED
  BY <1>10, <1>11 DEF bl

LEMMA KeyCounts ==
    ASSUME NEW al \in Seq(Tickets), NEW e \in Tickets, NEW now \in Nat, e.at = now,
           NEW n \in Nat, 0 < n, n < RoomLimit, NEW s \in Int,
           KeyHolds(al, now, n, s), \A t \in Int : SpanCount(al, t) <= 2 * RoomLimit - 1
    PROVE  /\ KeyHolds(Append(al, e), now, n + 1, s)
           /\ \A t \in Int : SpanCount(Append(al, e), t) <= 2 * RoomLimit - 1
<1> DEFINE bl == Append(al, e)
<1>1. bl \in Seq(Tickets)
  OBVIOUS
<1>2. \A t : /\ SinceCount(al, t) \in Nat
             /\ SinceCount(bl, t) = SinceCount(al, t) + (IF now >= t THEN 1 ELSE 0)
  BY CountsAppend
<1>3. \A t, u : /\ EarlierCount(al, t, u) \in Nat
                /\ EarlierCount(bl, t, u) = EarlierCount(al, t, u) + (IF now >= t /\ now < u THEN 1 ELSE 0)
  <2>1. \A t, u : EarlierCount(al, t, u) \in Nat
    BY CountsNat
  <2>2. \A t, u : EarlierCount(bl, t, u) = EarlierCount(al, t, u) + (IF e.at >= t /\ e.at < u THEN 1 ELSE 0)
    BY EarlierAppend
  <2> HIDE DEF bl
  <2> QED
    BY <2>1, <2>2
<1>4. \A t : /\ SpanCount(al, t) \in Nat
             /\ SpanCount(bl, t) = SpanCount(al, t) + (IF now \in t..(t + RoomWindow - 1) THEN 1 ELSE 0)
  BY CountsAppend
<1>5. \A t \in Int, u \in Int : /\ SpanCount(bl, t) <= SinceCount(bl, t)
                                /\ SpanCount(bl, t) <= EarlierCount(bl, t, u) + SinceCount(bl, u)
                                /\ t <= u => SinceCount(bl, u) <= SinceCount(bl, t)
  BY <1>1, CountsCompare
<1>6. RoomLimit \in Nat /\ RoomLimit > 0 /\ RoomWindow \in Nat /\ RoomWindow > 0
      /\ Capped(n) = n /\ Capped(n + 1) = n + 1
  BY LimitConstants DEF Capped
<1>7. /\ s <= now /\ now < s + RoomWindow
      /\ SinceCount(al, s) <= n
      /\ SinceCount(al, s + 1) <= n - 1
      /\ \A t \in Int : t > s - RoomWindow => EarlierCount(al, t, s) <= RoomLimit - 1
  BY <1>6 DEF KeyHolds
<1> HIDE DEF bl
<1>8. \A t : EarlierCount(bl, t, s) = EarlierCount(al, t, s)
  BY <1>3, <1>7
<1>9. SinceCount(bl, s) \in Nat /\ SinceCount(bl, s) <= n + 1
  <2>1. SinceCount(al, s) \in Nat /\ SinceCount(bl, s) = SinceCount(al, s) + 1
    BY <1>2, <1>7
  <2> QED
    BY <1>7, <2>1
<1>10. SinceCount(bl, s + 1) \in Nat /\ SinceCount(bl, s + 1) <= (n + 1) - 1
  <2>1. SinceCount(al, s + 1) \in Nat
        /\ (SinceCount(bl, s + 1) = SinceCount(al, s + 1) + 1 \/ SinceCount(bl, s + 1) = SinceCount(al, s + 1))
    BY <1>2
  <2> QED
    BY <1>7, <2>1
<1>11. KeyHolds(bl, now, n + 1, s)
  BY <1>6, <1>7, <1>8, <1>9, <1>10 DEF KeyHolds
<1>12. ASSUME NEW t \in Int PROVE SpanCount(bl, t) <= 2 * RoomLimit - 1
  <2>1. SpanCount(al, t) \in Nat /\ SpanCount(bl, t) \in Nat
    BY <1>1, CountsNat
  <2>2. CASE now \in t..(t + RoomWindow - 1) /\ t <= s
    <3>1. t > s - RoomWindow
      BY <1>6, <1>7, <2>2
    <3>2. EarlierCount(bl, t, s) \in Nat /\ EarlierCount(bl, t, s) <= RoomLimit - 1
      BY <1>3, <1>7, <1>8, <3>1
    <3>3. SpanCount(bl, t) <= EarlierCount(bl, t, s) + SinceCount(bl, s)
      BY <1>5
    <3> QED
      BY <1>6, <1>9, <2>1, <3>2, <3>3
  <2>3. CASE now \in t..(t + RoomWindow - 1) /\ ~(t <= s)
    <3>1. s + 1 \in Int /\ s + 1 <= t
      BY <2>3
    <3>2. SinceCount(bl, t) <= SinceCount(bl, s + 1) /\ SpanCount(bl, t) <= SinceCount(bl, t)
      BY <1>5, <3>1
    <3>3. SinceCount(bl, t) \in Nat
      BY <1>2
    <3> QED
      BY <1>6, <1>10, <2>1, <3>2, <3>3
  <2>4. CASE ~(now \in t..(t + RoomWindow - 1))
    <3>1. SpanCount(bl, t) = SpanCount(al, t) + 0
      BY <1>4, <2>4
    <3> QED
      BY <2>1, <3>1
  <2> QED
    BY <2>2, <2>3, <2>4
<1> QED
  BY <1>11, <1>12 DEF bl

(* INCR that is let through and answered.                                  *)
LEMMA SharedAllows ==
    ASSUME NEW al \in Seq(Tickets), NEW e \in Tickets, NEW now \in Nat, e.at = now, Past(al, now),
           NEW c \in [n : Nat, expires : Nat], SharedHolds(al, now, c), c.n < RoomLimit,
           NEW d, d = [n |-> c.n + 1, expires |-> IF c.n = 0 THEN now + RoomWindow ELSE c.expires]
    PROVE  SharedHolds(Append(al, e), now, d)
<1>1. c.n \in Nat /\ c.expires \in Nat /\ RoomWindow \in Nat /\ d.n = c.n + 1
  BY LimitConstants
<1>2. CASE c.n = 0
  <2>1. d.n = 1 /\ d.n > 0 /\ ~(d.n = 0) /\ d.expires - RoomWindow = now
    BY <1>1, <1>2
  <2>2. /\ KeyHolds(Append(al, e), now, 1, now)
        /\ \A t \in Int : SpanCount(Append(al, e), t) <= 2 * RoomLimit - 1
    BY <1>2, KeyBegins DEF SharedHolds
  <2> QED
    BY <2>1, <2>2 DEF SharedHolds
<1>3. CASE c.n # 0
  <2> DEFINE s == c.expires - RoomWindow
  <2>1. d.n > 0 /\ ~(d.n = 0) /\ d.expires - RoomWindow = s /\ c.n > 0 /\ s \in Int
    BY <1>1, <1>3
  <2>2. KeyHolds(al, now, c.n, s) /\ \A t \in Int : SpanCount(al, t) <= 2 * RoomLimit - 1
    BY <2>1 DEF SharedHolds
  <2> HIDE DEF s
  <2>3. /\ KeyHolds(Append(al, e), now, c.n + 1, s)
        /\ \A t \in Int : SpanCount(Append(al, e), t) <= 2 * RoomLimit - 1
    BY <1>1, <2>1, <2>2, KeyCounts
  <2> QED
    BY <1>1, <2>1, <2>2, <2>3 DEF SharedHolds
<1> QED
  BY <1>2, <1>3

(* INCR whose answer is lost.                                              *)
LEMMA SharedCounts ==
    ASSUME NEW al \in Seq(Tickets), NEW now \in Nat, Past(al, now),
           NEW c \in [n : Nat, expires : Nat], SharedHolds(al, now, c), c.n < RoomLimit,
           NEW d, d = [n |-> c.n + 1, expires |-> IF c.n = 0 THEN now + RoomWindow ELSE c.expires]
    PROVE  SharedHolds(al, now, d)
<1>1. c.n \in Nat /\ c.expires \in Nat /\ d.n = c.n + 1
      /\ RoomWindow \in Nat /\ RoomWindow > 0 /\ RoomLimit \in Nat /\ RoomLimit > 0
  BY LimitConstants
<1>2. (\A t : SinceCount(al, t) \in Nat) /\ \A t, u : EarlierCount(al, t, u) \in Nat
  BY CountsNat
<1>3. CASE c.n = 0
  <2>1. d.n = 1 /\ d.n > 0 /\ ~(d.n = 0) /\ d.expires - RoomWindow = now
    BY <1>1, <1>3
  <2>2. SinceCount(al, now) = 0 /\ SinceCount(al, now + 1) = 0 /\ Capped(1) = 1
    BY <1>1, <1>3, NothingLater DEF SharedHolds, NoKeyHolds, Capped
  <2>3. ASSUME NEW t \in Int, t > now - RoomWindow PROVE EarlierCount(al, t, now) <= RoomLimit - 1
    <3>1. now \in Int
      OBVIOUS
    <3>2. EarlierCount(al, t, now) <= SinceCount(al, t)
      BY <3>1, CountsCompare
    <3>3. SinceCount(al, t) <= RoomLimit - 1
      BY <1>3, <2>3 DEF SharedHolds, NoKeyHolds
    <3>4. SinceCount(al, t) \in Nat /\ EarlierCount(al, t, now) \in Nat
      BY <1>2
    <3> QED
      BY <1>1, <3>2, <3>3, <3>4
  <2>4. KeyHolds(al, now, 1, now)
    BY <1>1, <2>2, <2>3 DEF KeyHolds
  <2> QED
    BY <2>1, <2>4 DEF SharedHolds
<1>4. CASE c.n # 0
  <2> DEFINE s == c.expires - RoomWindow
  <2>1. d.n > 0 /\ ~(d.n = 0) /\ d.expires - RoomWindow = s /\ c.n > 0 /\ s \in Int
    BY <1>1, <1>4
  <2>2. KeyHolds(al, now, c.n, s)
    BY <2>1 DEF SharedHolds
  <2> HIDE DEF s
  <2>3. Capped(c.n) = c.n /\ Capped(c.n + 1) = c.n + 1
    BY <1>1 DEF Capped
  <2>4. SinceCount(al, s) <= c.n + 1 /\ SinceCount(al, s + 1) <= (c.n + 1) - 1
    <3>1. SinceCount(al, s) <= c.n /\ SinceCount(al, s + 1) <= c.n - 1
      BY <2>2, <2>3 DEF KeyHolds
    <3>2. SinceCount(al, s) \in Nat /\ SinceCount(al, s + 1) \in Nat
      BY <1>2
    <3> QED
      BY <1>1, <3>1, <3>2
  <2>5. KeyHolds(al, now, c.n + 1, s)
    BY <2>2, <2>3, <2>4 DEF KeyHolds
  <2> QED
    BY <1>1, <2>1, <2>5 DEF SharedHolds
<1> QED
  BY <1>3, <1>4

LEMMA SharedRefuses ==
    ASSUME NEW al \in Seq(Tickets), NEW now \in Nat,
           NEW c \in [n : Nat, expires : Nat], SharedHolds(al, now, c), ~(c.n < RoomLimit),
           NEW d, d = [c EXCEPT !.n = @ + 1]
    PROVE  SharedHolds(al, now, d)
<1>1. c.n \in Nat /\ c.expires \in Nat /\ d.n = c.n + 1 /\ d.expires = c.expires
  OBVIOUS
<1>2. RoomLimit \in Nat /\ RoomLimit > 0
  BY LimitConstants
<1>3. c.n > 0 /\ d.n > 0 /\ ~(d.n = 0) /\ Capped(c.n) = Capped(c.n + 1)
  BY <1>1, <1>2 DEF Capped
<1> QED
  BY <1>1, <1>3 DEF SharedHolds, KeyHolds

LEMMA SharedPasses ==
    ASSUME NEW al \in Seq(Tickets), NEW now \in Nat, Past(al, now),
           NEW c \in [n : Nat, expires : Nat], SharedHolds(al, now, c),
           NEW d, d = IF c.n > 0 /\ c.expires <= now + 1 THEN NoKey ELSE c
    PROVE  SharedHolds(al, now + 1, d)
<1>1. c.n \in Nat /\ c.expires \in Nat /\ RoomWindow \in Nat /\ RoomWindow > 0 /\ RoomLimit \in Nat /\ RoomLimit > 0
  BY LimitConstants
<1>2. SinceCount(al, now + 1) = 0
  BY NothingLater
<1>3. \A t : SinceCount(al, t) \in Nat
  BY CountsNat
<1>4. CASE c.n = 0
  <2>1. d = c /\ ~(c.n > 0)
    BY <1>4
  <2>2. NoKeyHolds(al, now + 1)
    BY <1>1, <1>2, <1>4 DEF NoKeyHolds, SharedHolds
  <2> QED
    BY <2>1, <2>2 DEF SharedHolds
<1>5. CASE c.n > 0
  <2> DEFINE s == c.expires - RoomWindow
  <2>1. s \in Int /\ s + RoomWindow = c.expires
    BY <1>1
  <2>2. KeyHolds(al, now, c.n, s)
    BY <1>5 DEF SharedHolds
  <2> HIDE DEF s
  <2>3. s <= now /\ now < s + RoomWindow /\ SinceCount(al, s + 1) <= Capped(c.n) - 1
    BY <2>2 DEF KeyHolds
  <2>4. CASE c.expires <= now + 1
    <3>1. d = NoKey /\ d.n = 0 /\ ~(d.n > 0)
      BY <1>5, <2>4 DEF NoKey
    <3>2. SinceCount(al, s + 1) <= RoomLimit - 1
      <4>1. Capped(c.n) \in Nat /\ Capped(c.n) <= RoomLimit
        BY <1>1 DEF Capped
      <4> QED
        BY <1>1, <1>3, <2>3, <4>1
    <3>3. ASSUME NEW t \in Int, t > (now + 1) - RoomWindow PROVE SinceCount(al, t) <= RoomLimit - 1
      <4>1. s + 1 \in Int /\ s + 1 <= t
        BY <1>1, <2>1, <2>3, <2>4, <3>3
      <4>2. SinceCount(al, t) <= SinceCount(al, s + 1)
        BY <4>1, CountsCompare
      <4>3. SinceCount(al, t) \in Nat /\ SinceCount(al, s + 1) \in Nat
        BY <1>3
      <4> QED
        BY <1>1, <3>2, <4>2, <4>3
    <3> QED
      BY <1>2, <3>1, <3>3 DEF SharedHolds, NoKeyHolds
  <2>5. CASE ~(c.expires <= now + 1)
    <3>1. d = c /\ ~(c.n = 0)
      BY <1>5, <2>5
    <3>2. KeyHolds(al, now + 1, c.n, s)
      <4>1. s <= now + 1 /\ now + 1 < s + RoomWindow
        BY <1>1, <2>1, <2>3, <2>5
      <4> QED
        BY <2>2, <4>1 DEF KeyHolds
    <3> QED
      BY <3>1, <3>2 DEF SharedHolds, s
  <2> QED
    BY <2>4, <2>5
<1> QED
  BY <1>1, <1>4, <1>5

-----------------------------------------------------------------------------
(* RoomLimits: the limiter in each lobby.                                  *)

(* For a window that is not over, a lobby remembers every request it let   *)
(* through in this life.                                                   *)
OwnHolds(al, now, lf, hs) ==
    /\ \A r \in Replicas, t \in Int :
          t > now - RoomWindow => OwnSinceCount(al, r, lf[r], t) <= LateOf(hs[r], Len(hs[r]), t)
    /\ \A r \in Replicas, l \in 0..MaxLives, t \in Int : OwnSpanCount(al, r, l, t) <= RoomLimit

LEMMA OwnAllows ==
    ASSUME NEW r \in Replicas, NEW al \in Seq(Tickets), instant \in Nat, life \in [Replicas -> 0..MaxLives],
           hits \in [Replicas -> Seq(0..MaxInstant)], instant \in 0..MaxInstant,
           OwnHolds(al, instant, life, hits), Len(RecentHits(r)) < RoomLimit
    PROVE  OwnHolds(Append(al, [at |-> instant, by |-> r, life |-> life[r]]), instant, life,
                    [hits EXCEPT ![r] = Append(RecentHits(r), instant)])
<1> DEFINE e == [at |-> instant, by |-> r, life |-> life[r]]
           bl == Append(al, e)
           q == RecentHits(r)
           k == Len(q)
           hs == [hits EXCEPT ![r] = Append(q, instant)]
<1>1. e \in Tickets /\ e.at = instant /\ e.by = r /\ e.life = life[r]
  BY DEF Tickets
<1>2. RoomLimit \in Nat /\ RoomWindow \in Nat /\ RoomWindow > 0
  BY LimitConstants
<1>3. q \in Seq(0..MaxInstant) /\ \A t \in Int : t > instant - RoomWindow => LateOf(q, k, t) = LateOf(hits[r], Len(hits[r]), t)
  <2>1. hits[r] \in Seq(0..MaxInstant)
    OBVIOUS
  <2> QED
    BY <2>1, RecentFacts
<1>4. k \in Nat /\ k < RoomLimit
  BY <1>3
<1>5. hs[r] = Append(q, instant) /\ \A x \in Replicas : x # r => hs[x] = hits[x]
  OBVIOUS
<1> HIDE DEF hs, q
<1>6. Len(hs[r]) = k + 1 /\ hs[r][k + 1] = instant /\ \A j \in 1..k : hs[r][j] = q[j]
  BY <1>3, <1>5
<1> HIDE DEF k
<1>7. ASSUME NEW t PROVE LateOf(q, k, t) \in Nat /\ LateOf(q, k, t) <= k
                         /\ LateOf(hs[r], k + 1, t) = LateOf(q, k, t) + (IF instant >= t THEN 1 ELSE 0)
  <2>1. LateOf(hs[r], k, t) = LateOf(q, k, t)
    BY <1>6, LateSame
  <2>2. LateOf(hs[r], k + 1, t) = LateOf(hs[r], k, t) + (IF hs[r][k + 1] >= t THEN 1 ELSE 0)
    BY <1>4, LateNext, SMTT(30)
  <2>3. LateOf(q, k, t) \in Nat /\ LateOf(q, k, t) <= k
    BY <1>4, LateNext
  <2> QED
    BY <1>6, <2>1, <2>2, <2>3
<1> HIDE DEF e
<1>8. \A x, l, t : OwnSinceCount(al, x, l, t) \in Nat /\ OwnSpanCount(al, x, l, t) \in Nat
  BY CountsNat
<1>9. \A x, l, t : OwnSinceCount(bl, x, l, t)
                = OwnSinceCount(al, x, l, t) + (IF e.by = x /\ e.life = l /\ e.at >= t THEN 1 ELSE 0)
  BY <1>1, CountsAppend
<1>10. \A x, l, t : OwnSpanCount(bl, x, l, t)
                = OwnSpanCount(al, x, l, t) + (IF e.at \in t..(t + RoomWindow - 1) /\ e.by = x /\ e.life = l THEN 1 ELSE 0)
  BY <1>1, CountsAppend
<1> HIDE DEF bl
<1>11. ASSUME NEW x \in Replicas, NEW t \in Int, t > instant - RoomWindow
       PROVE  OwnSinceCount(bl, x, life[x], t) <= LateOf(hs[x], Len(hs[x]), t)
  <2>1. OwnSinceCount(al, x, life[x], t) \in Nat
        /\ OwnSinceCount(al, x, life[x], t) <= LateOf(hits[x], Len(hits[x]), t)
    BY <1>8, <1>11 DEF OwnHolds
  <2>2. OwnSinceCount(bl, x, life[x], t)
          = OwnSinceCount(al, x, life[x], t) + (IF r = x /\ life[r] = life[x] /\ instant >= t THEN 1 ELSE 0)
    BY <1>1, <1>9
  <2>3. CASE x = r
    <3>1. OwnSinceCount(al, x, life[x], t) <= LateOf(q, k, t)
      BY <1>3, <1>11, <2>1, <2>3
    <3>2. LateOf(hs[x], Len(hs[x]), t) = LateOf(q, k, t) + (IF instant >= t THEN 1 ELSE 0) /\ LateOf(q, k, t) \in Nat
      BY <1>6, <1>7, <2>3
    <3>3. OwnSinceCount(bl, x, life[x], t) = OwnSinceCount(al, x, life[x], t) + (IF instant >= t THEN 1 ELSE 0)
      BY <2>2, <2>3
    <3> QED
      BY <2>1, <3>1, <3>2, <3>3
  <2>4. CASE x # r
    <3>1. OwnSinceCount(bl, x, life[x], t) = OwnSinceCount(al, x, life[x], t) + 0
      BY <2>2, <2>4
    <3> QED
      BY <1>5, <2>1, <2>4, <3>1
  <2> QED
    BY <2>3, <2>4
<1>12. ASSUME NEW x \in Replicas, NEW l \in 0..MaxLives, NEW t \in Int
       PROVE  OwnSpanCount(bl, x, l, t) <= RoomLimit
  <2>1. OwnSpanCount(al, x, l, t) \in Nat /\ OwnSpanCount(al, x, l, t) <= RoomLimit
    BY <1>8 DEF OwnHolds
  <2>2. CASE instant \in t..(t + RoomWindow - 1) /\ r = x /\ life[r] = l
    <3>1. t > instant - RoomWindow
      BY <1>2, <2>2
    <3>2. OwnSpanCount(al, x, l, t) <= OwnSinceCount(al, x, l, t)
      BY CountsCompare
    <3>3. OwnSinceCount(al, x, l, t) \in Nat /\ OwnSinceCount(al, x, l, t) <= LateOf(q, k, t)
      BY <1>3, <1>8, <2>2, <3>1 DEF OwnHolds
    <3>4. OwnSpanCount(bl, x, l, t) = OwnSpanCount(al, x, l, t) + 1
      BY <1>1, <1>10, <2>2
    <3>5. LateOf(q, k, t) \in Nat /\ LateOf(q, k, t) <= k
      BY <1>7
    <3> QED
      BY <1>2, <1>4, <2>1, <3>2, <3>3, <3>4, <3>5
  <2>3. CASE ~(instant \in t..(t + RoomWindow - 1) /\ r = x /\ life[r] = l)
    <3>1. OwnSpanCount(bl, x, l, t) = OwnSpanCount(al, x, l, t) + 0
      BY <1>1, <1>10, <2>3
    <3> QED
      BY <2>1, <3>1
  <2> QED
    BY <2>2, <2>3
<1>13. OwnHolds(bl, instant, life, hs)
  BY <1>11, <1>12 DEF OwnHolds
<1> QED
  BY <1>13 DEF bl, e, hs, q

LEMMA OwnRefuses ==
    ASSUME NEW r \in Replicas, NEW al, instant \in Nat, hits \in [Replicas -> Seq(0..MaxInstant)],
           OwnHolds(al, instant, life, hits)
    PROVE  OwnHolds(al, instant, life, [hits EXCEPT ![r] = RecentHits(r)])
<1> DEFINE hs == [hits EXCEPT ![r] = RecentHits(r)]
<1>1. hits[r] \in Seq(0..MaxInstant)
  OBVIOUS
<1>2. \A t \in Int : t > instant - RoomWindow =>
         LateOf(RecentHits(r), Len(RecentHits(r)), t) = LateOf(hits[r], Len(hits[r]), t)
  BY <1>1, RecentFacts
<1>3. hs[r] = RecentHits(r) /\ \A x \in Replicas : x # r => hs[x] = hits[x]
  OBVIOUS
<1> HIDE DEF hs
<1>4. \A x \in Replicas, t \in Int : t > instant - RoomWindow =>
         LateOf(hs[x], Len(hs[x]), t) = LateOf(hits[x], Len(hits[x]), t)
  BY <1>2, <1>3
<1>5. OwnHolds(al, instant, life, hs)
  BY <1>4 DEF OwnHolds
<1> QED
  BY <1>5 DEF hs

LEMMA OwnPasses ==
    ASSUME NEW al, NEW now \in Nat, NEW lf, NEW hs, OwnHolds(al, now, lf, hs)
    PROVE  OwnHolds(al, now + 1, lf, hs)
<1>1. RoomWindow \in Nat
  BY LimitConstants
<1>2. \A t \in Int : t > (now + 1) - RoomWindow => t > now - RoomWindow
  BY <1>1
<1> QED
  BY <1>2 DEF OwnHolds

LEMMA OwnRestarts ==
    ASSUME NEW r \in Replicas, NEW al \in Seq(Tickets), NEW now, life \in [Replicas -> 0..MaxLives],
           hits \in [Replicas -> Seq(0..MaxInstant)], \A i \in DOMAIN al : al[i].life <= life[al[i].by],
           OwnHolds(al, now, life, hits)
    PROVE  OwnHolds(al, now, [life EXCEPT ![r] = @ + 1], [hits EXCEPT ![r] = <<>>])
<1> DEFINE lf == [life EXCEPT ![r] = @ + 1]
           hs == [hits EXCEPT ![r] = <<>>]
<1>1. /\ lf[r] = life[r] + 1 /\ life[r] \in 0..MaxLives /\ hs[r] = <<>>
      /\ \A x \in Replicas : x # r => lf[x] = life[x] /\ hs[x] = hits[x]
  OBVIOUS
<1> HIDE DEF lf, hs
<1>2. \A i \in DOMAIN al : al[i] \in Tickets
  OBVIOUS
<1>3. \A x \in Tickets : x.life \in Int
  BY LimitConstants DEF Tickets
<1>4. \A i \in DOMAIN al : ~(al[i].by = r /\ al[i].life = lf[r])
  <2> TAKE i \in DOMAIN al
  <2> SUFFICES ASSUME al[i].by = r /\ al[i].life = lf[r] PROVE FALSE
    OBVIOUS
  <2>1. al[i].life <= life[r]
    OBVIOUS
  <2>2. life[r] + 1 <= life[r]
    BY <1>1, <2>1
  <2>3. life[r] \in Int
    BY <1>1, LimitConstants
  <2> QED
    BY <2>2, <2>3
<1>5. \A t : OwnSinceCount(al, r, lf[r], t) = 0
  <2>1. \A t : OwnSince(al, r, lf[r], t) = {}
    BY <1>4 DEF OwnSince
  <2> QED
    BY <2>1, FS_EmptySet DEF OwnSinceCount
<1>6. \A t : LateOf(hs[r], Len(hs[r]), t) \in Nat
  <2>1. Len(hs[r]) \in Nat
    BY <1>1
  <2> QED
    BY <2>1, LateNext
<1>7. ASSUME NEW x \in Replicas, NEW t \in Int, t > now - RoomWindow
      PROVE  OwnSinceCount(al, x, lf[x], t) <= LateOf(hs[x], Len(hs[x]), t)
  <2>1. CASE x = r
    <3>1. OwnSinceCount(al, x, lf[x], t) = 0 /\ LateOf(hs[x], Len(hs[x]), t) \in Nat
      BY <1>5, <1>6, <2>1
    <3> QED
      BY <3>1
  <2>2. CASE x # r
    BY <1>1, <1>7, <2>2 DEF OwnHolds
  <2> QED
    BY <2>1, <2>2
<1>8. OwnHolds(al, now, lf, hs)
  BY <1>7 DEF OwnHolds
<1> QED
  BY <1>8 DEF lf, hs

-----------------------------------------------------------------------------
(* RoomLimits: the invariant.                                              *)

LimitInv ==
    /\ LimitTypeOK
    /\ Past(allowed, instant)
    /\ \A i \in DOMAIN allowed : allowed[i].life <= life[allowed[i].by]
    /\ limiter = "memory" => OwnHolds(allowed, instant, life, hits)
    /\ limiter = "redis" => SharedHolds(allowed, instant, counter)

LEMMA LimitTypes ==
    ASSUME LimitInv
    PROVE  /\ instant \in 0..MaxInstant /\ instant \in Nat /\ limiter \in {"memory", "redis"}
           /\ hits \in [Replicas -> Seq(0..MaxInstant)] /\ counter \in [n : Nat, expires : Nat]
           /\ life \in [Replicas -> 0..MaxLives] /\ allowed \in Seq(Tickets) /\ asks \in 0..MaxAsks
           /\ Past(allowed, instant) /\ \A i \in DOMAIN allowed : allowed[i].life <= life[allowed[i].by]
BY LimitConstants DEF LimitInv, LimitTypeOK, Tickets

LEMMA LimitInitInv == LimitInit => LimitInv
<1> SUFFICES ASSUME LimitInit PROVE LimitInv
  OBVIOUS
<1>1. /\ instant = 0 /\ limiter \in {"memory", "redis"} /\ hits = [r \in Replicas |-> <<>>] /\ counter = NoKey
      /\ life = [r \in Replicas |-> 0] /\ allowed = <<>> /\ asks = 0
  BY DEF LimitInit
<1>2. DOMAIN allowed = {} /\ allowed \in Seq(Tickets) /\ allowed \in Seq([at : 0..MaxInstant, by : Replicas, life : 0..MaxLives])
  BY <1>1
<1>3. RoomLimit \in Nat /\ RoomLimit > 0 /\ 0 \in 0..MaxInstant /\ 0 \in 0..MaxLives /\ 0 \in 0..MaxAsks
  BY LimitConstants
<1>4. /\ \A t : SinceCount(allowed, t) = 0 /\ SpanCount(allowed, t) = 0
      /\ \A r, l, t : OwnSinceCount(allowed, r, l, t) = 0 /\ OwnSpanCount(allowed, r, l, t) = 0
  <2>1. /\ \A t : Since(allowed, t) = {} /\ Span(allowed, t) = {}
        /\ \A r, l, t : OwnSince(allowed, r, l, t) = {} /\ OwnSpan(allowed, r, l, t) = {}
    BY <1>2 DEF Since, Span, OwnSince, OwnSpan
  <2> QED
    BY <2>1, FS_EmptySet DEF SinceCount, SpanCount, OwnSinceCount, OwnSpanCount
<1>5. LimitTypeOK
  <2>1. counter \in [n : Nat, expires : Nat]
    BY <1>1 DEF NoKey
  <2> QED
    BY <1>1, <1>2, <1>3, <2>1 DEF LimitTypeOK
<1>6. SharedHolds(allowed, instant, counter)
  <2>1. counter.n = 0 /\ ~(counter.n > 0)
    BY <1>1 DEF NoKey
  <2>2. NoKeyHolds(allowed, instant)
    BY <1>3, <1>4 DEF NoKeyHolds
  <2>3. \A t \in Int : SpanCount(allowed, t) <= 2 * RoomLimit - 1
    BY <1>3, <1>4
  <2> QED
    BY <2>1, <2>2, <2>3 DEF SharedHolds
<1>7. OwnHolds(allowed, instant, life, hits)
  <2>1. \A r \in Replicas : \A t : LateOf(hits[r], Len(hits[r]), t) \in Nat
    <3>1. \A r \in Replicas : Len(hits[r]) \in Nat
      BY <1>1
    <3> QED
      BY <3>1, LateNext
  <2>2. ASSUME NEW r \in Replicas, NEW t \in Int
        PROVE  OwnSinceCount(allowed, r, life[r], t) <= LateOf(hits[r], Len(hits[r]), t)
    <3>1. OwnSinceCount(allowed, r, life[r], t) = 0 /\ LateOf(hits[r], Len(hits[r]), t) \in Nat
      BY <1>4, <2>1
    <3> QED
      BY <3>1
  <2>3. \A r \in Replicas, l \in 0..MaxLives, t \in Int : OwnSpanCount(allowed, r, l, t) <= RoomLimit
    BY <1>3, <1>4
  <2> QED
    BY <2>2, <2>3 DEF OwnHolds
<1> QED
  BY <1>2, <1>5, <1>6, <1>7 DEF LimitInv, Past

(* What the history keeps when one more request is let through.            *)
LEMMA PastAppends ==
    ASSUME NEW al \in Seq(Tickets), NEW e \in Tickets, NEW now \in Nat, NEW lf, e.at <= now, e.life <= lf[e.by],
           Past(al, now), \A i \in DOMAIN al : al[i].life <= lf[al[i].by]
    PROVE  /\ Append(al, e) \in Seq(Tickets) /\ Past(Append(al, e), now)
           /\ \A i \in DOMAIN Append(al, e) : Append(al, e)[i].life <= lf[Append(al, e)[i].by]
<1> DEFINE bl == Append(al, e)
           n == Len(al)
<1>1. n \in Nat /\ DOMAIN al = 1..n
  OBVIOUS
<1>2. bl \in Seq(Tickets) /\ DOMAIN bl = 1..(n + 1)
  OBVIOUS
<1>3. (\A i \in 1..n : bl[i] = al[i]) /\ bl[n + 1] = e
  OBVIOUS
<1> HIDE DEF bl, n
<1>4. \A i \in DOMAIN bl : bl[i] = e \/ (i \in DOMAIN al /\ bl[i] = al[i])
  BY <1>1, <1>2, <1>3
<1>5. Past(bl, now) /\ \A i \in DOMAIN bl : bl[i].life <= lf[bl[i].by]
  BY <1>4 DEF Past
<1> QED
  BY <1>2, <1>5 DEF bl

LEMMA LimitAllowed ==
    ASSUME LimitInv, NEW r \in Replicas, Allowed(r)
    PROVE  LimitInv'
<1> DEFINE e == [at |-> instant, by |-> r, life |-> life[r]]
<1>1. /\ instant \in 0..MaxInstant /\ instant \in Nat /\ limiter \in {"memory", "redis"}
      /\ hits \in [Replicas -> Seq(0..MaxInstant)] /\ counter \in [n : Nat, expires : Nat]
      /\ life \in [Replicas -> 0..MaxLives] /\ allowed \in Seq(Tickets) /\ asks \in 0..MaxAsks
      /\ Past(allowed, instant) /\ \A i \in DOMAIN allowed : allowed[i].life <= life[allowed[i].by]
  BY LimitTypes
<1>2. e \in Tickets /\ e.at = instant /\ e.by = r /\ e.life = life[r] /\ life[r] \in 0..MaxLives /\ life[r] \in Int
  BY <1>1, LimitConstants DEF Tickets
<1>3. /\ allowed' = Append(allowed, e) /\ instant' = instant /\ limiter' = limiter /\ life' = life
      /\ asks < MaxAsks /\ asks' = asks + 1
      /\ IF limiter = "memory" THEN MemoryAllows(r) ELSE RedisAllows
  BY DEF Allowed, Asks
<1>4. e.at <= instant /\ e.life <= life[e.by]
  <2>1. instant <= instant /\ life[r] <= life[r]
    BY <1>1, <1>2
  <2> HIDE DEF e
  <2> QED
    BY <1>2, <2>1
<1>5. /\ allowed' \in Seq(Tickets) /\ Past(allowed', instant')
      /\ \A i \in DOMAIN allowed' : allowed'[i].life <= life'[allowed'[i].by]
  <2> HIDE DEF e
  <2> QED
    BY <1>1, <1>2, <1>3, <1>4, PastAppends
<1>6. asks' \in 0..MaxAsks
  BY <1>1, <1>3, LimitConstants
<1>7. CASE limiter = "memory"
  <2>1. /\ Len(RecentHits(r)) < RoomLimit /\ hits' = [hits EXCEPT ![r] = Append(RecentHits(r), instant)]
        /\ counter' = counter
    BY <1>3, <1>7 DEF MemoryAllows, HasRoom
  <2>2. OwnHolds(allowed', instant', life', hits')
    <3>1. OwnHolds(allowed, instant, life, hits)
      BY <1>7 DEF LimitInv
    <3> QED
      BY <1>1, <1>3, <2>1, <3>1, OwnAllows
  <2>3. hits' \in [Replicas -> Seq(0..MaxInstant)]
    <3>1. hits[r] \in Seq(0..MaxInstant)
      BY <1>1
    <3>2. RecentHits(r) \in Seq(0..MaxInstant)
      BY <1>1, <3>1, RecentFacts
    <3>3. Append(RecentHits(r), instant) \in Seq(0..MaxInstant)
      BY <1>1, <3>2
    <3> QED
      BY <1>1, <2>1, <3>3
  <2>4. limiter' # "redis"
    BY <1>3, <1>7
  <2> HIDE DEF e
  <2> QED
    BY <1>1, <1>3, <1>5, <1>6, <2>1, <2>2, <2>3, <2>4 DEF LimitInv, LimitTypeOK, Tickets
<1>8. CASE limiter = "redis"
  <2>1. /\ counter.n < RoomLimit /\ hits' = hits
        /\ counter' = [n |-> counter.n + 1,
                       expires |-> IF counter.n = 0 THEN instant + RoomWindow ELSE counter.expires]
    <3>1. ~(limiter = "memory")
      BY <1>8
    <3> QED
      BY <1>3, <3>1 DEF RedisAllows, HasRoom
  <2>2. SharedHolds(allowed', instant', counter')
    <3>1. SharedHolds(allowed, instant, counter)
      BY <1>8 DEF LimitInv
    <3> HIDE DEF e
    <3> QED
      BY <1>1, <1>2, <1>3, <2>1, <3>1, SharedAllows
  <2>3. counter' \in [n : Nat, expires : Nat]
    BY <1>1, <2>1, LimitConstants
  <2>4. limiter' # "memory"
    BY <1>3, <1>8
  <2> HIDE DEF e
  <2> QED
    BY <1>1, <1>3, <1>5, <1>6, <2>1, <2>2, <2>3, <2>4 DEF LimitInv, LimitTypeOK, Tickets
<1> QED
  BY <1>1, <1>7, <1>8

(* The shared counter after a request, whatever the lobby hears of it.     *)
LEMMA SharedAsked ==
    ASSUME LimitInv, limiter = "redis", RedisAllows \/ RedisRefuses \/ UNCHANGED <<counter, hits>>
    PROVE  /\ hits' = hits /\ counter' \in [n : Nat, expires : Nat] /\ SharedHolds(allowed, instant, counter')
<1>1. /\ instant \in 0..MaxInstant /\ instant \in Nat /\ counter \in [n : Nat, expires : Nat]
      /\ life \in [Replicas -> 0..MaxLives] /\ allowed \in Seq(Tickets) /\ Past(allowed, instant)
      /\ SharedHolds(allowed, instant, counter)
  BY LimitTypes DEF LimitInv
<1>2. CASE RedisAllows
  <2>1. /\ counter.n < RoomLimit /\ hits' = hits
        /\ counter' = [n |-> counter.n + 1,
                       expires |-> IF counter.n = 0 THEN instant + RoomWindow ELSE counter.expires]
    BY <1>2 DEF RedisAllows, HasRoom
  <2>2. counter' \in [n : Nat, expires : Nat]
    BY <1>1, <2>1, LimitConstants
  <2>3. SharedHolds(allowed, instant, counter')
    BY <1>1, <2>1, SharedCounts
  <2> QED
    BY <2>1, <2>2, <2>3
<1>3. CASE RedisRefuses
  <2>1. ~(counter.n < RoomLimit) /\ hits' = hits /\ counter' = [counter EXCEPT !.n = @ + 1]
    BY <1>3 DEF RedisRefuses, HasRoom
  <2>2. counter' \in [n : Nat, expires : Nat]
    BY <1>1, <2>1
  <2> QED
    BY <1>1, <2>1, <2>2, SharedRefuses
<1>4. CASE UNCHANGED <<counter, hits>>
  BY <1>1, <1>4
<1> QED
  BY <1>2, <1>3, <1>4

LEMMA LimitRefused ==
    ASSUME LimitInv, NEW r \in Replicas, Refused(r)
    PROVE  LimitInv'
<1>1. /\ instant \in 0..MaxInstant /\ instant \in Nat /\ limiter \in {"memory", "redis"}
      /\ hits \in [Replicas -> Seq(0..MaxInstant)] /\ counter \in [n : Nat, expires : Nat]
      /\ life \in [Replicas -> 0..MaxLives] /\ allowed \in Seq(Tickets) /\ asks \in 0..MaxAsks
      /\ Past(allowed, instant) /\ \A i \in DOMAIN allowed : allowed[i].life <= life[allowed[i].by]
  BY LimitTypes
<1>2. /\ allowed' = allowed /\ instant' = instant /\ limiter' = limiter /\ life' = life
      /\ asks < MaxAsks /\ asks' = asks + 1
      /\ IF limiter = "memory" THEN MemoryRefuses(r) ELSE RedisRefuses
  BY DEF Refused, Asks
<1>3. asks' \in 0..MaxAsks
  BY <1>1, <1>2, LimitConstants
<1>4. Past(allowed', instant') /\ \A i \in DOMAIN allowed' : allowed'[i].life <= life'[allowed'[i].by]
  BY <1>1, <1>2
<1>5. CASE limiter = "memory"
  <2>1. hits' = [hits EXCEPT ![r] = RecentHits(r)] /\ counter' = counter
    BY <1>2, <1>5 DEF MemoryRefuses
  <2>2. OwnHolds(allowed', instant', life', hits')
    <3>1. OwnHolds(allowed, instant, life, hits)
      BY <1>5 DEF LimitInv
    <3> QED
      BY <1>1, <1>2, <2>1, <3>1, OwnRefuses
  <2>3. hits' \in [Replicas -> Seq(0..MaxInstant)]
    <3>1. hits[r] \in Seq(0..MaxInstant)
      BY <1>1
    <3>2. RecentHits(r) \in Seq(0..MaxInstant)
      BY <1>1, <3>1, RecentFacts
    <3> QED
      BY <1>1, <2>1, <3>2
  <2>4. limiter' # "redis"
    BY <1>2, <1>5
  <2> QED
    BY <1>1, <1>2, <1>3, <1>4, <2>1, <2>2, <2>3, <2>4 DEF LimitInv, LimitTypeOK, Tickets
<1>6. CASE limiter = "redis"
  <2>1. RedisRefuses
    <3>1. ~(limiter = "memory")
      BY <1>6
    <3> QED
      BY <1>2, <3>1
  <2>2. hits' = hits /\ counter' \in [n : Nat, expires : Nat] /\ SharedHolds(allowed, instant, counter')
    BY <1>6, <2>1, SharedAsked
  <2>3. limiter' # "memory"
    BY <1>2, <1>6
  <2> QED
    BY <1>1, <1>2, <1>3, <1>4, <2>2, <2>3 DEF LimitInv, LimitTypeOK, Tickets
<1> QED
  BY <1>1, <1>5, <1>6

LEMMA LimitNextInv == LimitInv /\ [LimitNext]_limitVars => LimitInv'
<1> SUFFICES ASSUME LimitInv, [LimitNext]_limitVars PROVE LimitInv'
  OBVIOUS
<1>1. /\ instant \in 0..MaxInstant /\ instant \in Nat /\ limiter \in {"memory", "redis"}
      /\ hits \in [Replicas -> Seq(0..MaxInstant)] /\ counter \in [n : Nat, expires : Nat]
      /\ life \in [Replicas -> 0..MaxLives] /\ allowed \in Seq(Tickets) /\ asks \in 0..MaxAsks
      /\ Past(allowed, instant) /\ \A i \in DOMAIN allowed : allowed[i].life <= life[allowed[i].by]
  BY LimitTypes
<1>2. \A i \in DOMAIN allowed : allowed[i].at \in Int /\ allowed[i].by \in Replicas /\ allowed[i].life \in Int
  <2>1. \A i \in DOMAIN allowed : allowed[i] \in Tickets
    BY <1>1
  <2>2. \A e \in Tickets : e.at \in Int /\ e.by \in Replicas /\ e.life \in Int
    BY LimitConstants DEF Tickets
  <2> QED
    BY <2>1, <2>2
<1>3. ASSUME NEW r \in Replicas, Allowed(r) PROVE LimitInv'
  BY <1>3, LimitAllowed
<1>4. ASSUME NEW r \in Replicas, Refused(r) PROVE LimitInv'
  BY <1>4, LimitRefused
<1>5. ASSUME NEW r \in Replicas, ReplicaRestarts(r) PROVE LimitInv'
  <2>1. /\ life[r] < MaxLives /\ life' = [life EXCEPT ![r] = @ + 1] /\ hits' = [hits EXCEPT ![r] = <<>>]
        /\ instant' = instant /\ limiter' = limiter /\ counter' = counter /\ allowed' = allowed /\ asks' = asks
    BY <1>5 DEF ReplicaRestarts
  <2>2. life' \in [Replicas -> 0..MaxLives] /\ hits' \in [Replicas -> Seq(0..MaxInstant)]
    <3>1. life[r] + 1 \in 0..MaxLives /\ <<>> \in Seq(0..MaxInstant)
      BY <1>1, <2>1, LimitConstants
    <3> QED
      BY <1>1, <2>1, <3>1
  <2>3. \A i \in DOMAIN allowed : allowed[i].life <= life'[allowed[i].by]
    <3> TAKE i \in DOMAIN allowed
    <3> DEFINE b == allowed[i].by
    <3>1. b \in Replicas /\ allowed[i].life \in Int /\ allowed[i].life <= life[b]
      BY <1>1, <1>2
    <3> HIDE DEF b
    <3>2. life[b] \in Int /\ (life'[b] = life[b] \/ life'[b] = life[b] + 1)
      BY <1>1, <2>1, <3>1, LimitConstants
    <3>3. allowed[i].life <= life'[b]
      BY <3>1, <3>2
    <3> QED
      BY <3>3 DEF b
  <2>4. limiter = "memory" => OwnHolds(allowed', instant', life', hits')
    BY <1>1, <2>1, OwnRestarts DEF LimitInv
  <2>5. limiter = "redis" => SharedHolds(allowed', instant', counter')
    BY <2>1 DEF LimitInv
  <2> QED
    BY <1>1, <2>1, <2>2, <2>3, <2>4, <2>5 DEF LimitInv, LimitTypeOK, Tickets
<1>6. CASE Unanswered
  <2>1. /\ limiter = "redis" /\ (RedisAllows \/ RedisRefuses \/ UNCHANGED <<counter, hits>>)
        /\ asks < MaxAsks /\ asks' = asks + 1
        /\ instant' = instant /\ limiter' = limiter /\ life' = life /\ allowed' = allowed
    BY <1>6 DEF Unanswered, Asks
  <2>2. hits' = hits /\ counter' \in [n : Nat, expires : Nat] /\ SharedHolds(allowed, instant, counter')
    BY <2>1, SharedAsked
  <2>3. asks' \in 0..MaxAsks
    BY <1>1, <2>1, LimitConstants
  <2>4. limiter' # "memory"
    BY <2>1
  <2> QED
    BY <1>1, <2>1, <2>2, <2>3, <2>4 DEF LimitInv, LimitTypeOK, Tickets
<1>7. CASE Passes
  <2>1. /\ instant < MaxInstant /\ instant' = instant + 1
        /\ counter' = IF counter.n > 0 /\ counter.expires <= instant + 1 THEN NoKey ELSE counter
        /\ limiter' = limiter /\ hits' = hits /\ life' = life /\ allowed' = allowed /\ asks' = asks
    BY <1>7 DEF Passes
  <2>2. instant' \in 0..MaxInstant
    BY <1>1, <2>1, LimitConstants
  <2>3. counter' \in [n : Nat, expires : Nat]
    BY <1>1, <2>1 DEF NoKey
  <2>4. Past(allowed', instant')
    BY <1>1, <1>2, <2>1 DEF Past
  <2>5. limiter = "memory" => OwnHolds(allowed', instant', life', hits')
    BY <1>1, <2>1, OwnPasses DEF LimitInv
  <2>6. limiter = "redis" => SharedHolds(allowed', instant', counter')
    BY <1>1, <2>1, SharedPasses DEF LimitInv
  <2> QED
    BY <1>1, <2>1, <2>2, <2>3, <2>4, <2>5, <2>6 DEF LimitInv, LimitTypeOK, Tickets
<1>8. CASE UNCHANGED limitVars
  <2>1. /\ instant' = instant /\ limiter' = limiter /\ hits' = hits /\ counter' = counter /\ life' = life
        /\ allowed' = allowed /\ asks' = asks
    BY <1>8 DEF limitVars
  <2> QED
    BY <2>1 DEF LimitInv, LimitTypeOK
<1> QED
  BY <1>3, <1>4, <1>5, <1>6, <1>7, <1>8 DEF LimitNext

LEMMA LimitInvImplies == LimitInv => LimitTypeOK /\ CreationsBounded
<1> SUFFICES ASSUME LimitInv PROVE LimitTypeOK /\ CreationsBounded
  OBVIOUS
<1>1. instant \in 0..MaxInstant /\ MaxInstant \in Nat
  BY LimitTypes, LimitConstants
<1>2. \A t \in 0..instant : t \in Int
  BY <1>1
<1>3. ASSUME NEW t \in 0..instant, limiter = "memory", NEW r \in Replicas, NEW l \in 0..MaxLives
      PROVE  Within(t, LAMBDA a : a.by = r /\ a.life = l) <= RoomLimit
  <2>1. Within(t, LAMBDA a : a.by = r /\ a.life = l) = OwnSpanCount(allowed, r, l, t)
    BY DEF Within, OwnSpanCount, OwnSpan
  <2>2. OwnSpanCount(allowed, r, l, t) <= RoomLimit
    BY <1>2, <1>3 DEF LimitInv, OwnHolds
  <2> QED
    BY <2>1, <2>2
<1>4. ASSUME NEW t \in 0..instant, limiter = "redis"
      PROVE  Within(t, LAMBDA a : TRUE) <= 2 * RoomLimit - 1
  <2>1. Within(t, LAMBDA a : TRUE) = SpanCount(allowed, t)
    BY DEF Within, SpanCount, Span
  <2>2. SpanCount(allowed, t) <= 2 * RoomLimit - 1
    BY <1>2, <1>4 DEF LimitInv, SharedHolds
  <2> QED
    BY <2>1, <2>2
<1>5. LimitTypeOK
  BY DEF LimitInv
<1> QED
  BY <1>3, <1>4, <1>5 DEF CreationsBounded

(* However a player spreads the requests, and whenever a lobby restarts or *)
(* the answer of Redis is lost, memoryRoomCreationLimiter lets through at  *)
(* most the limit in any span of one window, for each life of each lobby,  *)
(* and RedisClient.Allow at most twice the limit less one over all.        *)
THEOREM CreationsAreBounded == LimitSpec => []CreationsBounded
<1>1. LimitInv /\ [LimitNext]_limitVars => LimitInv'
  BY LimitNextInv
<1> QED
  BY <1>1, LimitInitInv, LimitInvImplies, PTL DEF LimitSpec

-----------------------------------------------------------------------------
(* LobbyConn                                                               *)

ConnTypes ==
    /\ role \in {"lobby", "relay"}
    /\ peer \in [live : BOOLEAN, owes : BOOLEAN, parts : 0..MaxParts, sent : 0..MaxFrames]
    /\ up \in Seq(Frames) /\ Len(up) <= MaxUp
    /\ reader \in [on : BOOLEAN, payload : Seq(Frames)]
    /\ message \in Seq(Frames)
    /\ writer \in BOOLEAN /\ downlink \in BOOLEAN /\ done \in BOOLEAN
    /\ queue \in Seq({"reply", "last", "datagram"}) /\ Len(queue) <= SendCap
    /\ left \in [write : Unset..WriteWait, read : 0..PongWait, ping : 0..PingPeriod]
    /\ conn \in {"open", "closed"}
    /\ excuse \in [given : BOOLEAN, replaced : BOOLEAN, stalls : 0..MaxStalls]
    /\ role \in Roles

DataOps == {"text", "continuation"}
DataIn(u) == {i \in DOMAIN u : u[i].op \in DataOps}

(* The data frames under way are those the peer numbered b + 1 to sent, in *)
(* this order, whatever control frames stand between them.                 *)
Stream(u, b, sent) ==
    /\ {u[i].n : i \in DataIn(u)} = (b + 1)..sent
    /\ \A i, j \in DataIn(u) : i < j => u[i].n < u[j].n

(* What ReadMessage has put together so far is the beginning of a message. *)
BegunWell(p) ==
    /\ Len(p) <= MaxParts
    /\ \A i \in DOMAIN p :
          /\ p[i].n = p[1].n + i - 1
          /\ p[i].op = IF i = 1 THEN "text" ELSE "continuation"
          /\ ~p[i].fin

Follows(b) ==
    /\ Stream(up, b, peer.sent)
    /\ reader.payload # <<>> => reader.payload[Len(reader.payload)].n = b

StreamInv == reader.on => BegunWell(reader.payload) /\ \E b \in 0..peer.sent : Follows(b)

(* The pump runs as long as the socket is open, only a relay has a         *)
(* downlink, and only a lobby connection is replaced.                      *)
PumpInv ==
    /\ conn = "open" => writer
    /\ downlink => role = "relay"
    /\ excuse.replaced => role = "lobby"

ConnInv == ConnTypes /\ StreamInv /\ MessagesWhole /\ PumpInv /\ NoZombie

LEMMA ConnConstants ==
    /\ WriteWait \in Nat \ {0} /\ PingPeriod \in Nat \ {0} /\ PongWait \in Nat \ {0}
    /\ SendCap \in Nat \ {0} /\ MaxParts \in Nat \ {0}
    /\ MaxFrames \in Nat /\ MaxUp \in Nat /\ MaxStalls \in Nat
    /\ Roles \subseteq {"lobby", "relay"}
BY ConnAssumptions

LEMMA StreamTailControl ==
    ASSUME NEW u \in Seq(Frames), u # <<>>, NEW b \in Nat, NEW s \in Nat,
           Head(u).op \notin DataOps, Stream(u, b, s)
    PROVE  Stream(Tail(u), b, s)
<1> DEFINE t == Tail(u)
<1>1. /\ Len(u) \in Nat \ {0} /\ DOMAIN u = 1..Len(u) /\ DOMAIN t = 1..(Len(u) - 1)
      /\ \A i \in DOMAIN t : t[i] = u[i + 1]
      /\ u[1].op \notin DataOps
  OBVIOUS
<1> HIDE DEF t
<1>2. \A i \in DataIn(t) : i + 1 \in DataIn(u) /\ t[i] = u[i + 1]
  BY <1>1 DEF DataIn
<1>3. \A j \in DataIn(u) : j - 1 \in DataIn(t) /\ t[j - 1] = u[j]
  BY <1>1 DEF DataIn
<1>4. {t[i].n : i \in DataIn(t)} = {u[i].n : i \in DataIn(u)}
  BY <1>2, <1>3
<1>5. ASSUME NEW i \in DataIn(t), NEW j \in DataIn(t), i < j PROVE t[i].n < t[j].n
  <2>1. i + 1 < j + 1
    BY <1>1, <1>5 DEF DataIn
  <2> QED
    BY <1>2, <2>1 DEF Stream
<1> QED
  BY <1>4, <1>5 DEF Stream, t

LEMMA StreamTailData ==
    ASSUME NEW u \in Seq(Frames), u # <<>>, NEW b \in Nat, NEW s \in Nat,
           Head(u).op \in DataOps, Stream(u, b, s)
    PROVE  Head(u).n = b + 1 /\ b + 1 <= s /\ Stream(Tail(u), b + 1, s)
<1> DEFINE t == Tail(u)
<1>1. /\ Len(u) \in Nat \ {0} /\ DOMAIN u = 1..Len(u) /\ DOMAIN t = 1..(Len(u) - 1)
      /\ \A i \in DOMAIN t : t[i] = u[i + 1]
      /\ Head(u) = u[1] /\ u[1].op \in DataOps
  OBVIOUS
<1> HIDE DEF t
<1>2. \A i \in DataIn(t) : i + 1 \in DataIn(u) /\ t[i] = u[i + 1]
  BY <1>1 DEF DataIn
<1>3. \A j \in DataIn(u) : j # 1 => j - 1 \in DataIn(t) /\ t[j - 1] = u[j]
  BY <1>1 DEF DataIn
<1>4. 1 \in DataIn(u) /\ \A j \in DataIn(u) : j \in Nat /\ (j # 1 => 1 < j)
  BY <1>1 DEF DataIn
<1>5. \A j \in DataIn(u) : j # 1 => u[1].n < u[j].n
  BY <1>4 DEF Stream
<1>6. \A j \in DataIn(u) : u[j].n \in (b + 1)..s
  BY DEF Stream
<1>7. u[1].n \in (b + 1)..s
  BY <1>4, <1>6
<1>8. u[1].n = b + 1
  <2>1. b + 1 \in (b + 1)..s
    BY <1>7
  <2>2. PICK j \in DataIn(u) : u[j].n = b + 1
    BY <2>1 DEF Stream
  <2> QED
    BY <1>5, <1>7, <2>2
<1>9. {t[i].n : i \in DataIn(t)} = (b + 2)..s
  <2>1. ASSUME NEW i \in DataIn(t) PROVE t[i].n \in (b + 2)..s
    <3>1. i + 1 \in DataIn(u) /\ t[i] = u[i + 1] /\ i + 1 # 1
      BY <1>1, <1>2 DEF DataIn
    <3>2. u[1].n < u[i + 1].n /\ u[i + 1].n \in (b + 1)..s
      BY <1>5, <1>6, <3>1
    <3> QED
      BY <1>8, <3>1, <3>2
  <2>2. ASSUME NEW x \in (b + 2)..s PROVE \E i \in DataIn(t) : t[i].n = x
    <3>1. x \in (b + 1)..s /\ x # b + 1
      OBVIOUS
    <3>2. PICK j \in DataIn(u) : u[j].n = x
      BY <3>1 DEF Stream
    <3>3. j # 1
      BY <1>8, <3>1, <3>2
    <3> QED
      BY <1>3, <3>2, <3>3
  <2> QED
    BY <2>1, <2>2
<1>10. ASSUME NEW i \in DataIn(t), NEW j \in DataIn(t), i < j PROVE t[i].n < t[j].n
  <2>1. i + 1 < j + 1
    BY <1>1, <1>10 DEF DataIn
  <2> QED
    BY <1>2, <2>1 DEF Stream
<1>11. b + 1 + 1 = b + 2 /\ b + 1 <= s
  BY <1>7
<1> QED
  BY <1>1, <1>8, <1>9, <1>10, <1>11 DEF Stream, t

LEMMA StreamAppendControl ==
    ASSUME NEW u \in Seq(Frames), NEW f \in Frames, NEW b \in Nat, NEW s \in Nat,
           f.op \notin DataOps, Stream(u, b, s)
    PROVE  Stream(Append(u, f), b, s)
<1> DEFINE t == Append(u, f)
<1>1. /\ Len(u) \in Nat /\ DOMAIN u = 1..Len(u) /\ DOMAIN t = 1..(Len(u) + 1)
      /\ \A i \in DOMAIN u : t[i] = u[i]
      /\ t[Len(u) + 1] = f
  OBVIOUS
<1> HIDE DEF t
<1>2. DataIn(t) = DataIn(u) /\ \A i \in DataIn(u) : t[i] = u[i]
  BY <1>1 DEF DataIn
<1>3. {t[i].n : i \in DataIn(t)} = {u[i].n : i \in DataIn(u)}
  BY <1>2
<1>4. Stream(t, b, s)
  BY <1>2, <1>3 DEF Stream
<1> QED
  BY <1>4 DEF t

LEMMA StreamAppendData ==
    ASSUME NEW u \in Seq(Frames), NEW f \in Frames, NEW b \in Nat, NEW s \in Nat,
           f.op \in DataOps, f.n = s + 1, b <= s, Stream(u, b, s)
    PROVE  Stream(Append(u, f), b, s + 1)
<1> DEFINE t == Append(u, f)
           k == Len(u) + 1
<1>1. /\ Len(u) \in Nat /\ k \in Nat \ {0} /\ DOMAIN u = 1..Len(u) /\ DOMAIN t = 1..k
      /\ \A i \in DOMAIN u : t[i] = u[i] /\ i \in Nat /\ i < k
      /\ t[k] = f
  OBVIOUS
<1>2. \A i \in DOMAIN t : i = k \/ i \in DOMAIN u
  OBVIOUS
<1> HIDE DEF t, k
<1>3. DataIn(t) = DataIn(u) \cup {k} /\ \A i \in DataIn(u) : t[i] = u[i] /\ i < k /\ i \in Nat
  <2>1. k \in DataIn(t)
    BY <1>1 DEF DataIn
  <2>2. \A i \in DataIn(u) : i \in DOMAIN u /\ u[i].op \in DataOps
    BY DEF DataIn
  <2>3. \A i \in DOMAIN u : i \in DOMAIN t
    BY <1>1
  <2>4. \A i \in DataIn(u) : i \in DataIn(t)
    BY <1>1, <2>2, <2>3 DEF DataIn
  <2>5. \A i \in DataIn(t) : i = k \/ i \in DataIn(u)
    BY <1>1, <1>2 DEF DataIn
  <2> QED
    BY <1>1, <2>1, <2>2, <2>4, <2>5
<1>4. \A i \in DataIn(u) : u[i].n \in (b + 1)..s
  BY DEF Stream
<1>5. {t[i].n : i \in DataIn(t)} = (b + 1)..(s + 1)
  <2>1. \A i \in DataIn(t) : t[i].n \in (b + 1)..(s + 1)
    BY <1>1, <1>3, <1>4
  <2>2. ASSUME NEW x \in (b + 1)..(s + 1) PROVE \E i \in DataIn(t) : t[i].n = x
    <3>1. CASE x = s + 1
      BY <1>1, <1>3, <3>1
    <3>2. CASE x # s + 1
      <4>1. x \in (b + 1)..s
        BY <3>2
      <4>2. PICK i \in DataIn(u) : u[i].n = x
        BY <4>1 DEF Stream
      <4> QED
        BY <1>3, <4>2
    <3> QED
      BY <3>1, <3>2
  <2> QED
    BY <2>1, <2>2
<1>6. ASSUME NEW i \in DataIn(t), NEW j \in DataIn(t), i < j PROVE t[i].n < t[j].n
  <2>1. i \in DataIn(u)
    BY <1>1, <1>3, <1>6
  <2>2. CASE j = k
    <3>1. t[j].n = s + 1 /\ t[i] = u[i] /\ u[i].n \in (b + 1)..s
      BY <1>1, <1>3, <1>4, <2>1, <2>2
    <3> QED
      BY <3>1
  <2>3. CASE j \in DataIn(u)
    BY <1>3, <1>6, <2>1, <2>3 DEF Stream
  <2> QED
    BY <1>3, <2>2, <2>3
<1> QED
  BY <1>5, <1>6 DEF Stream, t

Queues == Seq({"reply", "last", "datagram"})
HasLast(q) == \E i \in DOMAIN q : q[i] = "last"

LEMMA QueueFacts ==
    ASSUME NEW q \in Queues
    PROVE  /\ q # <<>> => /\ Tail(q) \in Queues /\ Len(Tail(q)) < Len(q)
                          /\ Head(q) \in {"reply", "last", "datagram"}
                          /\ Head(q) # "last" /\ HasLast(q) => HasLast(Tail(q))
           /\ \A m \in {"reply", "last", "datagram"} :
                 /\ Append(q, m) \in Queues /\ Len(Append(q, m)) = Len(q) + 1
                 /\ m = "last" \/ HasLast(q) => HasLast(Append(q, m))
<1>1. ASSUME q # <<>>, HasLast(q), Head(q) # "last" PROVE HasLast(Tail(q))
  <2>1. PICK i \in DOMAIN q : q[i] = "last"
    BY <1>1 DEF HasLast
  <2>2. Len(q) \in Nat /\ i \in 1..Len(q) /\ i # 1 /\ DOMAIN Tail(q) = 1..(Len(q) - 1)
    BY <1>1, <2>1 DEF Queues
  <2>3. i - 1 \in DOMAIN Tail(q) /\ Tail(q)[i - 1] = q[i]
    BY <1>1, <2>2 DEF Queues
  <2> QED
    BY <2>1, <2>3 DEF HasLast
<1>2. ASSUME NEW m \in {"reply", "last", "datagram"}, m = "last" \/ HasLast(q) PROVE HasLast(Append(q, m))
  <2>1. DOMAIN Append(q, m) = 1..(Len(q) + 1) /\ Len(q) \in Nat /\ DOMAIN q = 1..Len(q)
        /\ Append(q, m)[Len(q) + 1] = m /\ \A i \in DOMAIN q : Append(q, m)[i] = q[i]
    BY DEF Queues
  <2>2. CASE m = "last"
    <3>1. Len(q) + 1 \in 1..(Len(q) + 1)
      BY <2>1
    <3> QED
      BY <2>1, <2>2, <3>1 DEF HasLast
  <2>3. CASE HasLast(q)
    <3>1. \A i \in DOMAIN q : i \in 1..(Len(q) + 1)
      BY <2>1
    <3> QED
      BY <2>1, <2>3, <3>1 DEF HasLast
  <2> QED
    BY <1>2, <2>2, <2>3
<1>3. q # <<>> => Tail(q) \in Queues /\ Len(Tail(q)) < Len(q) /\ Head(q) \in {"reply", "last", "datagram"}
  BY DEF Queues
<1>4. \A m \in {"reply", "last", "datagram"} : Append(q, m) \in Queues /\ Len(Append(q, m)) = Len(q) + 1
  BY DEF Queues
<1> QED
  BY <1>1, <1>2, <1>3, <1>4

LEMMA EnqueuedFacts ==
    ASSUME ConnTypes, NEW m \in {"reply", "last", "datagram"}
    PROVE  /\ Enqueued(m) \in Queues /\ Len(Enqueued(m)) <= SendCap
           /\ HasLast(queue) \/ (m = "last" /\ Fits) => HasLast(Enqueued(m))
<1>1. queue \in Queues /\ Len(queue) <= SendCap /\ Len(queue) \in Nat
  BY DEF ConnTypes, Queues
<1>2. Len(queue) < SendCap => Len(queue) + 1 <= SendCap
  BY <1>1, ConnConstants
<1> QED
  BY <1>1, <1>2, QueueFacts DEF Enqueued, Fits

(* A write counts as stalled only as often as it may, and leaves a deadline *)
(* of the socket's range.                                                  *)
Excuses == [given : BOOLEAN, replaced : BOOLEAN, stalls : 0..MaxStalls]
Deadlines == [write : Unset..WriteWait, read : 0..PongWait, ping : 0..PingPeriod]

LEMMA WriteFacts ==
    ASSUME ConnTypes, NEW w \in Unset..WriteWait, NEW o, o \in Writes(w) \cup {"ok"}
    PROVE  /\ Stalled(o) \in Excuses
           /\ Stalled(o).replaced = excuse.replaced
           /\ Remaining(o, w) \in Unset..WriteWait
<1>1. o = "cut" => excuse.stalls < MaxStalls
  BY DEF Writes
<1>2. excuse \in Excuses /\ MaxStalls \in Nat /\ WriteWait \in Nat
  BY ConnConstants DEF ConnTypes, Excuses
<1>3. o = "cut" => excuse.stalls + 1 \in 0..MaxStalls
  BY <1>1, <1>2 DEF Excuses
<1>4. Stalled(o) \in Excuses /\ Stalled(o).replaced = excuse.replaced
  <2>1. CASE o = "cut"
    BY <1>2, <1>3, <2>1 DEF Stalled, Excuses
  <2>2. CASE o # "cut"
    BY <1>2, <2>2 DEF Stalled
  <2> QED
    BY <2>1, <2>2
<1>5. Remaining(o, w) \in Unset..WriteWait
  BY <1>2 DEF Remaining, Unset
<1> QED
  BY <1>4, <1>5

LEMMA DeadlineFacts ==
    ASSUME ConnTypes
    PROVE  /\ left \in Deadlines /\ left.write \in Unset..WriteWait
           /\ \A w \in Unset..WriteWait : [left EXCEPT !.write = w] \in Deadlines
           /\ [left EXCEPT !.read = PongWait] \in Deadlines
           /\ \A w \in Unset..WriteWait : [left EXCEPT !.read = PongWait, !.write = w] \in Deadlines
           /\ \A w \in Unset..WriteWait : \A l : [left EXCEPT !.write = w, !.ping = IF l = "ping" THEN PingPeriod ELSE @] \in Deadlines
           /\ WriteWait \in Unset..WriteWait
<1>1. left \in Deadlines /\ WriteWait \in Nat /\ PingPeriod \in Nat /\ PongWait \in Nat
  BY ConnConstants DEF ConnTypes, Deadlines
<1>2. left.write \in Unset..WriteWait /\ left.read \in 0..PongWait /\ left.ping \in 0..PingPeriod
  BY <1>1 DEF Deadlines
<1>3. WriteWait \in Unset..WriteWait /\ PongWait \in 0..PongWait /\ PingPeriod \in 0..PingPeriod
  BY <1>1 DEF Unset
<1>4. \A w \in Unset..WriteWait : [left EXCEPT !.write = w] \in Deadlines
  BY <1>1 DEF Deadlines
<1>5. [left EXCEPT !.read = PongWait] \in Deadlines
  BY <1>1, <1>3 DEF Deadlines
<1>6. \A w \in Unset..WriteWait : [left EXCEPT !.read = PongWait, !.write = w] \in Deadlines
  BY <1>1, <1>3 DEF Deadlines
<1>7. ASSUME NEW w \in Unset..WriteWait, NEW l
      PROVE  [left EXCEPT !.write = w, !.ping = IF l = "ping" THEN PingPeriod ELSE @] \in Deadlines
  <2>1. [left EXCEPT !.write = w, !.ping = PingPeriod] \in Deadlines
    BY <1>1, <1>3 DEF Deadlines
  <2>2. [left EXCEPT !.write = w, !.ping = left.ping] \in Deadlines
    BY <1>1, <1>2 DEF Deadlines
  <2>3. CASE l = "ping"
    BY <2>1, <2>3
  <2>4. CASE l # "ping"
    BY <1>1, <1>2, <2>4 DEF Deadlines
  <2> QED
    BY <2>3, <2>4
<1> QED
  BY <1>1, <1>2, <1>3, <1>4, <1>5, <1>6, <1>7

(* Steps that leave the frames alone.                                      *)
LEMMA SameStream ==
    ASSUME StreamInv, up' = up, peer'.sent = peer.sent, reader' = reader \/ reader'.on = FALSE
    PROVE  StreamInv'
<1>1. CASE reader' = reader
  BY <1>1 DEF StreamInv, Follows
<1>2. CASE reader'.on = FALSE
  BY <1>2 DEF StreamInv
<1> QED
  BY <1>1, <1>2

(* Steps that take a control frame.                                        *)
LEMMA SkipStream ==
    ASSUME ConnTypes, StreamInv, up # <<>>, Head(up).op \notin DataOps, up' = Tail(up),
           peer' = peer, reader' = reader \/ reader'.on = FALSE
    PROVE  StreamInv'
<1>1. CASE reader'.on = FALSE
  BY <1>1 DEF StreamInv
<1>2. CASE reader' = reader /\ reader.on
  <2>1. peer.sent \in Nat
    BY ConnConstants DEF ConnTypes
  <2>2. PICK b \in 0..peer.sent : Follows(b)
    BY <1>2 DEF StreamInv
  <2>3. Stream(Tail(up), b, peer.sent)
    BY <2>1, <2>2, StreamTailControl DEF ConnTypes, Follows
  <2>4. Follows(b)'
    BY <1>2, <2>2, <2>3 DEF Follows
  <2> QED
    BY <1>2, <2>4 DEF StreamInv
<1> QED
  BY <1>1, <1>2 DEF ConnTypes, StreamInv

LEMMA TailUp ==
    ASSUME ConnTypes, up # <<>>
    PROVE  Tail(up) \in Seq(Frames) /\ Len(Tail(up)) <= MaxUp /\ Head(up) \in Frames
BY ConnConstants DEF ConnTypes

-----------------------------------------------------------------------------
LEMMA PumpPingsInv ==
    ASSUME ConnInv, NEW o, PumpPings(o)
    PROVE  ConnInv'
<1>1. ConnTypes /\ o \in Writes(WriteWait)
  BY DEF ConnInv, PumpPings, PumpWrites
<1>2. /\ excuse' = Stalled(o)
      /\ left' = [left EXCEPT !.write = Remaining(o, WriteWait), !.ping = IF "ping" = "ping" THEN PingPeriod ELSE @]
      /\ UNCHANGED <<done, conn, writer>> \/ (done' = TRUE /\ conn' = "closed" /\ writer' = FALSE)
      /\ peer' = [peer EXCEPT !.owes = @ \/ (o = "ok" /\ peer.live)]
      /\ UNCHANGED <<role, up, reader, message, downlink, queue>>
  BY DEF PumpPings, PumpWrites, Pinged
<1>3. excuse' \in Excuses /\ excuse'.replaced = excuse.replaced /\ left' \in Deadlines
  <2>1. Remaining(o, WriteWait) \in Unset..WriteWait
    BY <1>1, WriteFacts, DeadlineFacts
  <2> QED
    BY <1>1, <1>2, <2>1, WriteFacts, DeadlineFacts
<1>4. ConnTypes' /\ peer'.sent = peer.sent
  BY <1>1, <1>2, <1>3 DEF ConnTypes, Excuses, Deadlines
<1>5. StreamInv' /\ MessagesWhole'
  BY <1>2, <1>4, SameStream DEF ConnInv, MessagesWhole
<1>6. PumpInv' /\ NoZombie'
  BY <1>2, <1>3 DEF ConnInv, PumpInv, NoZombie, Open
<1> QED
  BY <1>4, <1>5, <1>6 DEF ConnInv

LEMMA PumpSendsInv ==
    ASSUME ConnInv, NEW o, PumpSends(o)
    PROVE  ConnInv'
<1> DEFINE last == Head(queue)
<1>1. ConnTypes /\ o \in Writes(WriteWait) /\ queue # <<>>
  BY DEF ConnInv, PumpSends, PumpWrites
<1>2. /\ excuse' = Stalled(o)
      /\ left' = [left EXCEPT !.write = Remaining(o, WriteWait), !.ping = IF last = "ping" THEN PingPeriod ELSE @]
      /\ \/ UNCHANGED <<done, conn, writer>> /\ last # "last"
         \/ done' = TRUE /\ conn' = "closed" /\ writer' = FALSE
      /\ queue' = Tail(queue)
      /\ UNCHANGED <<role, peer, up, reader, message, downlink>>
  BY DEF PumpSends, PumpWrites
<1>3. excuse' \in Excuses /\ excuse'.replaced = excuse.replaced /\ left' \in Deadlines
  <2>1. Remaining(o, WriteWait) \in Unset..WriteWait
    BY <1>1, WriteFacts, DeadlineFacts
  <2> QED
    BY <1>1, <1>2, <2>1, WriteFacts, DeadlineFacts
<1>4. /\ queue' \in Queues /\ Len(queue') <= SendCap
      /\ last # "last" /\ HasLast(queue) => HasLast(queue')
  <2>1. queue \in Queues /\ Len(queue) <= SendCap
    BY <1>1 DEF ConnTypes, Queues
  <2>2. queue' \in Queues /\ Len(queue') < Len(queue) /\ (last # "last" /\ HasLast(queue) => HasLast(queue'))
    BY <1>1, <1>2, <2>1, QueueFacts
  <2> QED
    BY <2>1, <2>2, ConnConstants DEF Queues
<1> HIDE DEF last
<1>5. ConnTypes'
  BY <1>1, <1>2, <1>3, <1>4 DEF ConnTypes, Excuses, Deadlines, Queues
<1>6. StreamInv' /\ MessagesWhole'
  BY <1>2, SameStream DEF ConnInv, MessagesWhole
<1>7. PumpInv' /\ NoZombie'
  BY <1>2, <1>3, <1>4 DEF ConnInv, PumpInv, NoZombie, Open, HasLast
<1> QED
  BY <1>5, <1>6, <1>7 DEF ConnInv

LEMMA EndsInv ==
    ASSUME ConnInv, PumpEnds \/ DownlinkEnds
    PROVE  ConnInv'
<1>1. /\ UNCHANGED <<role, peer, up, reader, message, queue, left, done, excuse>>
      /\ \/ writer' = FALSE /\ conn' = "closed" /\ downlink' = downlink
         \/ downlink' = FALSE /\ UNCHANGED <<writer, conn>>
  BY DEF PumpEnds, DownlinkEnds
<1>2. ConnTypes'
  BY <1>1 DEF ConnInv, ConnTypes
<1>3. StreamInv' /\ MessagesWhole'
  BY <1>1, SameStream DEF ConnInv, MessagesWhole
<1>4. PumpInv' /\ NoZombie'
  BY <1>1 DEF ConnInv, PumpInv, NoZombie, Open
<1> QED
  BY <1>2, <1>3, <1>4 DEF ConnInv

LEMMA EnqueueInv ==
    ASSUME ConnInv, Broadcast \/ Datagram
    PROVE  ConnInv'
<1>1. ConnTypes
  BY DEF ConnInv
<1>2. PICK m \in {"reply", "last", "datagram"} :
        /\ queue' = Enqueued(m)
        /\ UNCHANGED <<role, peer, up, reader, message, writer, downlink, left, done, conn, excuse>>
  BY DEF Broadcast, Datagram
<1>3. queue' \in Queues /\ Len(queue') <= SendCap /\ (HasLast(queue) => HasLast(queue'))
  BY <1>1, <1>2, EnqueuedFacts
<1>4. ConnTypes'
  BY <1>1, <1>2, <1>3 DEF ConnTypes, Queues
<1>5. StreamInv' /\ MessagesWhole'
  BY <1>2, SameStream DEF ConnInv, MessagesWhole
<1>6. PumpInv' /\ NoZombie'
  BY <1>2, <1>3 DEF ConnInv, PumpInv, NoZombie, Open, HasLast
<1> QED
  BY <1>4, <1>5, <1>6 DEF ConnInv

LEMMA ReplacedInv ==
    ASSUME ConnInv, Replaced
    PROVE  ConnInv'
<1>1. ConnTypes
  BY DEF ConnInv
<1>2. /\ role = "lobby"
      /\ excuse' = [excuse EXCEPT !.given = TRUE, !.replaced = TRUE]
      /\ \/ Fits /\ queue' = Enqueued("last") /\ UNCHANGED <<done, conn>>
         \/ done' = TRUE /\ conn' = "closed" /\ queue' = queue
      /\ UNCHANGED <<role, peer, up, reader, message, writer, downlink, left>>
  BY DEF Replaced
<1>3. /\ queue' \in Queues /\ Len(queue') <= SendCap
      /\ HasLast(queue') \/ conn' = "closed"
  BY <1>1, <1>2, EnqueuedFacts DEF ConnTypes, Queues
<1>4. ConnTypes'
  BY <1>1, <1>2, <1>3 DEF ConnTypes, Queues
<1>5. StreamInv' /\ MessagesWhole'
  BY <1>2, SameStream DEF ConnInv, MessagesWhole
<1>6. PumpInv' /\ NoZombie'
  BY <1>2, <1>3 DEF ConnInv, PumpInv, NoZombie, Open, HasLast
<1> QED
  BY <1>4, <1>5, <1>6 DEF ConnInv

LEMMA ShutdownInv ==
    ASSUME ConnInv, NEW o, Shutdown(o)
    PROVE  ConnInv'
<1>1. ConnTypes /\ o \in Writes(left.write) /\ left.write \in Unset..WriteWait
  BY DeadlineFacts DEF ConnInv, Shutdown
<1>2. /\ left' = [left EXCEPT !.write = Remaining(o, left.write)]
      /\ excuse' = [Stalled(o) EXCEPT !.given = TRUE]
      /\ conn' = "closed"
      /\ UNCHANGED <<role, peer, up, reader, message, writer, downlink, queue, done>>
  BY <1>1 DEF Shutdown, ConnTypes
<1>3. Stalled(o) \in Excuses /\ Stalled(o).replaced = excuse.replaced /\ left' \in Deadlines
  BY <1>1, <1>2, WriteFacts, DeadlineFacts
<1>4. excuse' \in Excuses /\ excuse'.replaced = excuse.replaced
  BY <1>2, <1>3 DEF Excuses
<1>5. ConnTypes'
  BY <1>1, <1>2, <1>3, <1>4 DEF ConnTypes, Excuses, Deadlines
<1>6. StreamInv' /\ MessagesWhole'
  BY <1>2, SameStream DEF ConnInv, MessagesWhole
<1>7. PumpInv' /\ NoZombie'
  BY <1>2, <1>4 DEF ConnInv, PumpInv, NoZombie, Open
<1> QED
  BY <1>5, <1>6, <1>7 DEF ConnInv

LEMMA DownlinkWritesInv ==
    ASSUME ConnInv, NEW o, DownlinkWrites(o)
    PROVE  ConnInv'
<1>1. ConnTypes /\ o \in Writes(left.write) /\ left.write \in Unset..WriteWait /\ queue # <<>> /\ downlink
  BY DeadlineFacts DEF ConnInv, DownlinkWrites
<1>2. /\ left' = [left EXCEPT !.write = Remaining(o, left.write)]
      /\ excuse' = Stalled(o)
      /\ queue' = Tail(queue)
      /\ UNCHANGED <<done, conn, downlink>> \/ (done' = TRUE /\ conn' = "closed" /\ downlink' = FALSE)
      /\ UNCHANGED <<role, peer, up, reader, message, writer>>
  BY <1>1 DEF DownlinkWrites, ConnTypes
<1>3. excuse' \in Excuses /\ excuse'.replaced = excuse.replaced /\ left' \in Deadlines
  BY <1>1, <1>2, WriteFacts, DeadlineFacts
<1>4. queue' \in Queues /\ Len(queue') <= SendCap
  <2>1. queue \in Queues /\ Len(queue) <= SendCap
    BY <1>1 DEF ConnTypes, Queues
  <2>2. queue' \in Queues /\ Len(queue') < Len(queue)
    BY <1>1, <1>2, <2>1, QueueFacts
  <2> QED
    BY <2>1, <2>2, ConnConstants DEF Queues
<1>5. ConnTypes'
  BY <1>1, <1>2, <1>3, <1>4 DEF ConnTypes, Excuses, Deadlines, Queues
<1>6. StreamInv' /\ MessagesWhole'
  BY <1>2, SameStream DEF ConnInv, MessagesWhole
<1>7. ~excuse'.replaced
  BY <1>1, <1>2, <1>3 DEF ConnInv, PumpInv
<1>8. PumpInv' /\ NoZombie'
  BY <1>2, <1>3, <1>7 DEF ConnInv, PumpInv, NoZombie, Open
<1> QED
  BY <1>5, <1>6, <1>8 DEF ConnInv

(* The read loop.                                                          *)
LEMMA ReadFailsInv ==
    ASSUME ConnInv, ReadFails
    PROVE  ConnInv'
<1>1. /\ reader' = [reader EXCEPT !.on = FALSE] /\ done' = TRUE
      /\ conn' \in {conn, "closed"}
      /\ UNCHANGED <<role, peer, up, message, writer, downlink, queue, left, excuse>>
  BY DEF ReadFails, ReaderGone
<1>2. ConnTypes' /\ reader'.on = FALSE
  BY <1>1 DEF ConnInv, ConnTypes
<1>3. StreamInv' /\ MessagesWhole'
  BY <1>1, <1>2, SameStream DEF ConnInv, MessagesWhole
<1>4. PumpInv' /\ NoZombie'
  BY <1>1 DEF ConnInv, PumpInv, NoZombie, Open
<1> QED
  BY <1>2, <1>3, <1>4 DEF ConnInv

LEMMA ReadPongInv ==
    ASSUME ConnInv, ReadPong
    PROVE  ConnInv'
<1>1. /\ ConnTypes /\ up # <<>> /\ Head(up).op \notin DataOps /\ up' = Tail(up)
      /\ left' = [left EXCEPT !.read = PongWait]
      /\ UNCHANGED <<role, peer, reader, message, writer, downlink, queue, done, conn, excuse>>
  BY DEF ConnInv, ReadPong, Reading, DataOps
<1>2. left' \in Deadlines
  BY <1>1, DeadlineFacts
<1>3. ConnTypes'
  BY <1>1, <1>2, TailUp DEF ConnTypes, Deadlines
<1>4. StreamInv' /\ MessagesWhole'
  BY <1>1, SkipStream DEF ConnInv, MessagesWhole
<1>5. PumpInv' /\ NoZombie'
  BY <1>1 DEF ConnInv, PumpInv, NoZombie, Open
<1> QED
  BY <1>3, <1>4, <1>5 DEF ConnInv

LEMMA ReadPingInv ==
    ASSUME ConnInv, NEW o, ReadPing(o)
    PROVE  ConnInv'
<1>1. /\ ConnTypes /\ up # <<>> /\ Head(up).op \notin DataOps /\ up' = Tail(up)
      /\ o \in Writes(left.write) /\ left.write \in Unset..WriteWait
  BY DeadlineFacts DEF ConnInv, ReadPing, Reading, DataOps
<1>2. /\ left' = [left EXCEPT !.read = PongWait, !.write = Remaining(o, left.write)]
      /\ excuse' = Stalled(o)
      /\ \/ UNCHANGED <<reader, done, conn>>
         \/ reader' = [reader EXCEPT !.on = FALSE] /\ done' = TRUE /\ conn' \in {conn, "closed"}
      /\ UNCHANGED <<role, peer, message, writer, downlink, queue>>
  BY <1>1 DEF ReadPing, ReaderGone, ConnTypes
<1>3. excuse' \in Excuses /\ excuse'.replaced = excuse.replaced /\ left' \in Deadlines
  BY <1>1, <1>2, WriteFacts, DeadlineFacts
<1>4. ConnTypes' /\ (reader' = reader \/ reader'.on = FALSE)
  BY <1>1, <1>2, <1>3, TailUp DEF ConnTypes, Excuses, Deadlines
<1>5. StreamInv' /\ MessagesWhole'
  BY <1>1, <1>2, <1>4, SkipStream DEF ConnInv, MessagesWhole
<1>6. PumpInv' /\ NoZombie'
  BY <1>2, <1>3 DEF ConnInv, PumpInv, NoZombie, Open
<1> QED
  BY <1>4, <1>5, <1>6 DEF ConnInv

LEMMA ReadLastInv ==
    ASSUME ConnInv, ReadClose \/ ReadMalformed
    PROVE  ConnInv'
<1>1. /\ ConnTypes /\ up # <<>> /\ up' = Tail(up)
      /\ reader' = [reader EXCEPT !.on = FALSE] /\ done' = TRUE /\ conn' \in {conn, "closed"}
      /\ UNCHANGED <<role, peer, message, writer, downlink, queue, left, excuse>>
  BY DEF ConnInv, ReadClose, ReadMalformed, ReaderGone, Reading
<1>2. ConnTypes' /\ reader'.on = FALSE
  BY <1>1, TailUp DEF ConnTypes
<1>3. StreamInv' /\ MessagesWhole'
  BY <1>1, <1>2 DEF ConnInv, MessagesWhole, StreamInv
<1>4. PumpInv' /\ NoZombie'
  BY <1>1 DEF ConnInv, PumpInv, NoZombie, Open
<1> QED
  BY <1>2, <1>3, <1>4 DEF ConnInv

(* A data frame that is no protocol error continues what has begun: it is  *)
(* the next one the peer sent, and the first exactly when it is a text.    *)
LEMMA NextFrame ==
    ASSUME ConnTypes, StreamInv, reader.on, up # <<>>, Head(up).op \in DataOps,
           ~ProtocolError(Head(up))
    PROVE  \E b \in 0..peer.sent :
              /\ Head(up).n = b /\ Stream(Tail(up), b, peer.sent)
              /\ LET m == Append(reader.payload, Head(up))
                 IN /\ m \in Seq(Frames) /\ m[Len(m)] = Head(up) /\ Len(m) = Len(reader.payload) + 1
                    /\ Len(m) <= MaxParts
                    /\ \A i \in DOMAIN m :
                          /\ m[i].n = m[1].n + i - 1
                          /\ m[i].op = IF i = 1 THEN "text" ELSE "continuation"
                          /\ i # Len(m) => ~m[i].fin
<1> DEFINE p == reader.payload
           f == Head(up)
           m == Append(p, f)
<1>1. /\ peer.sent \in Nat /\ p \in Seq(Frames) /\ f \in Frames /\ MaxParts \in Nat
      /\ up \in Seq(Frames)
  BY ConnConstants, TailUp DEF ConnTypes
<1>2. PICK a \in 0..peer.sent : Follows(a)
  BY DEF StreamInv
<1>3. f.n = a + 1 /\ a + 1 <= peer.sent /\ Stream(Tail(up), a + 1, peer.sent)
  BY <1>1, <1>2, StreamTailData DEF Follows
<1>4. p # <<>> => p[Len(p)].n = a
  BY <1>2 DEF Follows
<1>5. BegunWell(p)
  BY DEF StreamInv
<1>6. /\ p = <<>> => f.op = "text"
      /\ p # <<>> => f.op = "continuation"
      /\ Len(p) # MaxParts
  BY DEF ProtocolError, DataOps
<1> HIDE DEF p, f
<1>7. /\ m \in Seq(Frames) /\ Len(p) \in Nat /\ Len(m) = Len(p) + 1 /\ DOMAIN m = 1..(Len(p) + 1)
      /\ DOMAIN p = 1..Len(p) /\ m[Len(p) + 1] = f /\ \A i \in 1..Len(p) : m[i] = p[i]
      /\ p = <<>> <=> Len(p) = 0
  BY <1>1
<1> HIDE DEF m
<1>8. Len(m) <= MaxParts
  <2>1. Len(p) <= MaxParts
    BY <1>5, SMTT(30) DEF BegunWell
  <2>2. Len(p) \in Nat /\ MaxParts \in Nat /\ Len(p) # MaxParts
    BY <1>6, <1>7, ConnConstants
  <2>3. Len(p) + 1 <= MaxParts
    BY <2>1, <2>2
  <2> QED
    BY <1>7, <2>3
<1>9. ASSUME NEW i \in DOMAIN m
      PROVE  /\ m[i].n = m[1].n + i - 1
             /\ m[i].op = IF i = 1 THEN "text" ELSE "continuation"
             /\ i # Len(m) => ~m[i].fin
  <2>1. CASE i \in 1..Len(p)
    <3>1. 1 \in 1..Len(p) /\ m[1] = p[1] /\ m[i] = p[i] /\ i # Len(m)
      BY <1>7, <2>1
    <3> QED
      BY <1>5, <1>7, <2>1, <3>1 DEF BegunWell
  <2>2. CASE i = Len(p) + 1 /\ p = <<>>
    <3>1. i = 1 /\ i = Len(m) /\ m[i] = f
      BY <1>7, <2>2
    <3>2. f.n \in Int
      BY <1>1 DEF Frames
    <3> QED
      BY <1>6, <2>2, <3>1, <3>2
  <2>3. CASE i = Len(p) + 1 /\ p # <<>>
    <3>1. i # 1 /\ i = Len(m) /\ m[i] = f /\ Len(p) \in 1..Len(p) /\ 1 \in 1..Len(p) /\ m[1] = p[1]
      BY <1>7, <2>3
    <3>2. p[Len(p)].n = p[1].n + Len(p) - 1
      BY <1>5, <1>7, <3>1 DEF BegunWell
    <3>3. p[1].n \in Int
      <4>1. p[1] \in Frames
        BY <1>1, <1>7, <3>1
      <4> QED
        BY <4>1, ConnConstants DEF Frames
    <3>4. f.n = p[1].n + i - 1
      BY <1>3, <1>4, <1>7, <2>3, <3>2, <3>3
    <3> QED
      BY <1>6, <2>3, <3>1, <3>4
  <2> QED
    BY <1>7, <2>1, <2>2, <2>3
<1>10. m[Len(m)] = f
  BY <1>7
<1>11. a + 1 \in 0..peer.sent
  BY <1>1, <1>3
<1> QED
  BY <1>3, <1>7, <1>8, <1>9, <1>10, <1>11 DEF m, p, f

LEMMA ReadPartInv ==
    ASSUME ConnInv, ReadPart
    PROVE  ConnInv'
<1> DEFINE m == Append(reader.payload, Head(up))
<1>1. /\ ConnTypes /\ StreamInv /\ reader.on /\ up # <<>> /\ Head(up).op \in DataOps
      /\ ~ProtocolError(Head(up)) /\ ~Head(up).fin
      /\ up' = Tail(up) /\ reader' = [reader EXCEPT !.payload = m]
      /\ UNCHANGED <<role, peer, message, writer, downlink, queue, left, done, conn, excuse>>
  BY DEF ConnInv, ReadPart, Reading, DataOps, ConnTypes
<1>2. PICK b \in 0..peer.sent :
         /\ Head(up).n = b /\ Stream(Tail(up), b, peer.sent)
         /\ m \in Seq(Frames) /\ m[Len(m)] = Head(up) /\ Len(m) = Len(reader.payload) + 1
         /\ Len(m) <= MaxParts
         /\ \A i \in DOMAIN m :
               /\ m[i].n = m[1].n + i - 1
               /\ m[i].op = IF i = 1 THEN "text" ELSE "continuation"
               /\ i # Len(m) => ~m[i].fin
  BY <1>1, NextFrame
<1> HIDE DEF m
<1>3. ConnTypes' /\ reader'.payload = m /\ reader'.on
  BY <1>1, <1>2, TailUp DEF ConnTypes
<1>4. BegunWell(m)
  BY <1>1, <1>2 DEF BegunWell
<1>5. StreamInv'
  BY <1>1, <1>2, <1>3, <1>4 DEF StreamInv, Follows
<1>6. MessagesWhole'
  BY <1>1 DEF ConnInv, MessagesWhole
<1>7. PumpInv' /\ NoZombie'
  BY <1>1 DEF ConnInv, PumpInv, NoZombie, Open
<1> QED
  BY <1>3, <1>5, <1>6, <1>7 DEF ConnInv

LEMMA ReadMessageInv ==
    ASSUME ConnInv, NEW o, ReadMessage(o)
    PROVE  ConnInv'
<1> DEFINE m == Append(reader.payload, Head(up))
<1>1. /\ ConnTypes /\ StreamInv /\ reader.on /\ up # <<>> /\ Head(up).op \in DataOps
      /\ ~ProtocolError(Head(up)) /\ Head(up).fin
      /\ up' = Tail(up) /\ reader' = [reader EXCEPT !.payload = <<>>]
      /\ message' = m
      /\ UNCHANGED <<role, peer, writer, downlink, done, conn>>
  BY DEF ConnInv, ReadMessage, Reading, DataOps, ConnTypes
<1>2. PICK b \in 0..peer.sent :
         /\ Head(up).n = b /\ Stream(Tail(up), b, peer.sent)
         /\ m \in Seq(Frames) /\ m[Len(m)] = Head(up) /\ Len(m) = Len(reader.payload) + 1
         /\ Len(m) <= MaxParts
         /\ \A i \in DOMAIN m :
               /\ m[i].n = m[1].n + i - 1
               /\ m[i].op = IF i = 1 THEN "text" ELSE "continuation"
               /\ i # Len(m) => ~m[i].fin
  BY <1>1, NextFrame
<1>3. /\ left' \in Deadlines /\ excuse' \in Excuses /\ excuse'.replaced = excuse.replaced
      /\ queue' \in Queues /\ Len(queue') <= SendCap /\ (HasLast(queue) => HasLast(queue'))
  <2>1. left.write \in Unset..WriteWait /\ queue \in Queues /\ Len(queue) <= SendCap /\ excuse \in Excuses
    BY <1>1, DeadlineFacts DEF ConnTypes, Queues, Excuses
  <2>2. CASE role = "lobby"
    <3>1. left' = [left EXCEPT !.read = PongWait] /\ queue' = Enqueued("reply") /\ excuse' = excuse
      BY <2>2 DEF ReadMessage
    <3> QED
      BY <1>1, <2>1, <3>1, DeadlineFacts, EnqueuedFacts
  <2>3. CASE role # "lobby"
    <3>1. /\ o \in Writes(left.write) \cup {"ok"} /\ queue' = queue /\ excuse' = Stalled(o)
          /\ left' = [left EXCEPT !.read = PongWait, !.write = Remaining(o, left.write)]
      BY <1>1, <2>3 DEF ReadMessage, ConnTypes
    <3> QED
      BY <1>1, <2>1, <3>1, DeadlineFacts, WriteFacts
  <2> QED
    BY <2>2, <2>3
<1> HIDE DEF m
<1>4. ConnTypes' /\ reader'.payload = <<>>
  <2>1. reader' \in [on : BOOLEAN, payload : Seq(Frames)] /\ reader'.payload = <<>>
    <3>1. reader \in [on : BOOLEAN, payload : Seq(Frames)] /\ <<>> \in Seq(Frames)
      BY <1>1 DEF ConnTypes
    <3>2. reader' = [reader EXCEPT !.payload = <<>>]
      BY <1>1
    <3> QED
      BY <3>1, <3>2
  <2>2. up' \in Seq(Frames) /\ Len(up') <= MaxUp /\ message' \in Seq(Frames)
    BY <1>1, <1>2, TailUp
  <2> QED
    BY <1>1, <1>3, <2>1, <2>2 DEF ConnTypes, Deadlines, Excuses, Queues
<1>5. MessagesWhole'
  <2>1. m \in Seq(Frames) /\ Len(m) \in Nat /\ DOMAIN m = 1..Len(m) /\ MaxParts \in Nat
    BY <1>2, ConnConstants
  <2>2. \A i \in DOMAIN m : m[i].fin <=> i = Len(m)
    BY <1>1, <1>2
  <2>3. \A i \in DOMAIN m : i <= MaxParts
    BY <1>2, <2>1
  <2> QED
    BY <1>1, <1>2, <2>2, <2>3 DEF MessagesWhole
<1>6. StreamInv'
  <2>1. BegunWell(<<>>)
    BY ConnConstants DEF BegunWell
  <2> QED
    BY <1>1, <1>2, <1>4, <2>1 DEF StreamInv, Follows
<1>7. PumpInv' /\ NoZombie'
  BY <1>1, <1>3 DEF ConnInv, PumpInv, NoZombie, Open, HasLast
<1> QED
  BY <1>4, <1>5, <1>6, <1>7 DEF ConnInv

(* The peer.                                                               *)
LEMMA AppendUp ==
    ASSUME ConnTypes, NEW f \in Frames, Len(up) < MaxUp
    PROVE  Append(up, f) \in Seq(Frames) /\ Len(Append(up, f)) <= MaxUp
BY ConnConstants DEF ConnTypes

LEMMA ControlStream ==
    ASSUME ConnTypes, StreamInv, NEW f \in Frames, f.op \notin DataOps, up' = Append(up, f),
           peer'.sent = peer.sent, reader' = reader
    PROVE  StreamInv'
<1>1. peer.sent \in Nat
  BY ConnConstants DEF ConnTypes
<1>2. ASSUME reader.on PROVE \E b \in 0..peer.sent : Follows(b)'
  <2>1. PICK b \in 0..peer.sent : Follows(b)
    BY <1>2 DEF StreamInv
  <2>2. Stream(Append(up, f), b, peer.sent)
    BY <1>1, <2>1, StreamAppendControl DEF ConnTypes, Follows
  <2> QED
    BY <2>1, <2>2 DEF Follows
<1> QED
  BY <1>2 DEF StreamInv

LEMMA ControlFrames ==
    \A op \in {"ping", "pong", "close", "malformed"} : Control(op) \in Frames /\ Control(op).op \notin DataOps
BY ConnConstants DEF Control, Frame, Frames, DataOps

LEMMA PeerControlInv ==
    ASSUME ConnInv, PeerPongs \/ PeerPings \/ \E op \in {"close", "malformed"} : PeerHangsUp(op)
    PROVE  ConnInv'
<1>1. PICK op \in {"ping", "pong", "close", "malformed"} :
         /\ Len(up) < MaxUp /\ up' = Append(up, Control(op))
         /\ peer' \in {peer, [peer EXCEPT !.owes = FALSE]}
         /\ excuse' \in {excuse, [excuse EXCEPT !.given = TRUE]}
         /\ UNCHANGED <<role, reader, message, writer, downlink, queue, left, done, conn>>
  BY DEF PeerPongs, PeerPings, PeerHangsUp, Send
<1>2. ConnTypes /\ Control(op) \in Frames /\ Control(op).op \notin DataOps
  BY ControlFrames DEF ConnInv
<1>3. up' \in Seq(Frames) /\ Len(up') <= MaxUp
  BY <1>1, <1>2, AppendUp
<1>4. ConnTypes' /\ peer'.sent = peer.sent /\ excuse'.replaced = excuse.replaced
  BY <1>1, <1>2, <1>3 DEF ConnTypes
<1>5. StreamInv' /\ MessagesWhole'
  BY <1>1, <1>2, <1>4, ControlStream DEF ConnInv, MessagesWhole
<1>6. PumpInv' /\ NoZombie'
  BY <1>1, <1>4 DEF ConnInv, PumpInv, NoZombie, Open
<1> QED
  BY <1>4, <1>5, <1>6 DEF ConnInv

LEMMA PeerSendsInv ==
    ASSUME ConnInv, NEW op \in {"text", "continuation"}, NEW fin \in BOOLEAN, PeerSends(op, fin)
    PROVE  ConnInv'
<1> DEFINE n == peer.sent + 1
           f == Frame(op, fin, n)
<1>1. /\ ConnTypes /\ n <= MaxFrames /\ Len(up) < MaxUp /\ up' = Append(up, f)
      /\ \E w \in BOOLEAN :
            /\ peer' = [peer EXCEPT !.sent = n, !.parts = IF fin \/ w THEN 0 ELSE peer.parts + 1]
            /\ peer.parts = MaxParts => w
            /\ excuse' = [excuse EXCEPT !.given = excuse.given \/ w]
      /\ UNCHANGED <<role, reader, message, writer, downlink, queue, left, done, conn>>
  BY DEF ConnInv, PeerSends, Send, ConnTypes
<1>2. peer.sent \in Nat /\ n \in 0..MaxFrames /\ peer.parts \in 0..MaxParts
  <2>1. peer.sent \in 0..MaxFrames /\ peer.parts \in 0..MaxParts
    BY DEF ConnInv, ConnTypes
  <2>2. n <= MaxFrames
    BY <1>1
  <2> QED
    BY <2>1, <2>2, ConnConstants
<1>3. f \in Frames /\ f.op \in DataOps /\ f.n = peer.sent + 1
  BY <1>2 DEF Frame, Frames, DataOps
<1> HIDE DEF n, f
<1>4. up' \in Seq(Frames) /\ Len(up') <= MaxUp
  BY <1>1, <1>3, AppendUp
<1>5. PICK w \in BOOLEAN :
            /\ peer' = [peer EXCEPT !.sent = n, !.parts = IF fin \/ w THEN 0 ELSE peer.parts + 1]
            /\ peer.parts = MaxParts => w
            /\ excuse' = [excuse EXCEPT !.given = excuse.given \/ w]
  BY <1>1
<1>6. (IF fin \/ w THEN 0 ELSE peer.parts + 1) \in 0..MaxParts
  BY <1>2, <1>5, ConnConstants
<1>7. peer' \in [live : BOOLEAN, owes : BOOLEAN, parts : 0..MaxParts, sent : 0..MaxFrames] /\ peer'.sent = n
  BY <1>1, <1>2, <1>5, <1>6 DEF ConnTypes
<1>8. excuse' \in Excuses /\ excuse'.replaced = excuse.replaced
  BY <1>1, <1>5 DEF ConnTypes, Excuses
<1>9. ConnTypes'
  BY <1>1, <1>4, <1>7, <1>8 DEF ConnTypes, Excuses
<1>10. StreamInv'
  <2>1. ASSUME reader.on PROVE \E b \in 0..n : Follows(b)'
    <3>1. PICK b \in 0..peer.sent : Follows(b)
      BY <2>1 DEF ConnInv, StreamInv
    <3>2. b \in Nat /\ b <= peer.sent
      BY <1>2, <3>1
    <3>3. Stream(Append(up, f), b, peer.sent + 1)
      BY <1>1, <1>2, <1>3, <3>1, <3>2, StreamAppendData DEF ConnTypes, Follows
    <3>4. Follows(b)'
      BY <1>1, <1>7, <3>1, <3>3 DEF Follows, n
    <3>5. b \in 0..n
      BY <1>2, <3>2 DEF n
    <3> QED
      BY <3>4, <3>5
  <2> QED
    BY <1>1, <1>7, <2>1 DEF ConnInv, StreamInv
<1>11. MessagesWhole'
  BY <1>1 DEF ConnInv, MessagesWhole
<1>12. PumpInv' /\ NoZombie'
  BY <1>1, <1>8 DEF ConnInv, PumpInv, NoZombie, Open
<1> QED
  BY <1>9, <1>10, <1>11, <1>12 DEF ConnInv

LEMMA PeerVanishesInv ==
    ASSUME ConnInv, PeerVanishes
    PROVE  ConnInv'
<1>1. /\ peer' = [peer EXCEPT !.live = FALSE, !.owes = FALSE]
      /\ excuse' = [excuse EXCEPT !.given = TRUE]
      /\ UNCHANGED <<role, up, reader, message, writer, downlink, queue, left, done, conn>>
  BY DEF PeerVanishes
<1>2. ConnTypes' /\ peer'.sent = peer.sent /\ excuse'.replaced = excuse.replaced
  BY <1>1 DEF ConnInv, ConnTypes
<1>3. StreamInv' /\ MessagesWhole'
  BY <1>1, <1>2, SameStream DEF ConnInv, MessagesWhole
<1>4. PumpInv' /\ NoZombie'
  BY <1>1, <1>2 DEF ConnInv, PumpInv, NoZombie, Open
<1> QED
  BY <1>2, <1>3, <1>4 DEF ConnInv

LEMMA TickInv ==
    ASSUME ConnInv, Tick
    PROVE  ConnInv'
<1>1. /\ left' = [w \in DOMAIN left |-> Less(left[w])]
      /\ excuse' = [excuse EXCEPT !.given = excuse.given \/ Pending]
      /\ UNCHANGED <<role, peer, up, reader, message, writer, downlink, queue, done, conn>>
  BY DEF Tick, ConnInv, ConnTypes
<1>2. ConnTypes /\ left \in Deadlines
  BY DEF ConnInv, ConnTypes, Deadlines
<1>3. left' \in Deadlines
  <2>1. left' = [write |-> Less(left.write), read |-> Less(left.read), ping |-> Less(left.ping)]
    BY <1>1, <1>2 DEF Deadlines
  <2>2. Less(left.write) \in Unset..WriteWait
    BY <1>2, ConnConstants DEF Deadlines, Less, Unset
  <2>3. Less(left.read) \in 0..PongWait /\ Less(left.ping) \in 0..PingPeriod
    BY <1>2, ConnConstants DEF Deadlines, Less
  <2> QED
    BY <2>1, <2>2, <2>3 DEF Deadlines
<1>4. excuse' \in Excuses /\ excuse'.replaced = excuse.replaced
  <2>1. Pending \in BOOLEAN
    BY <1>2 DEF Pending, ConnTypes
  <2> QED
    BY <1>1, <1>2, <2>1 DEF ConnTypes, Excuses
<1>5. ConnTypes'
  BY <1>1, <1>2, <1>3, <1>4 DEF ConnTypes, Excuses, Deadlines
<1>6. StreamInv' /\ MessagesWhole'
  BY <1>1, SameStream DEF ConnInv, MessagesWhole
<1>7. PumpInv' /\ NoZombie'
  BY <1>1, <1>4 DEF ConnInv, PumpInv, NoZombie, Open
<1> QED
  BY <1>5, <1>6, <1>7 DEF ConnInv

LEMMA ConnInitInv == ConnInit => ConnInv
<1> SUFFICES ASSUME ConnInit PROVE ConnInv
  OBVIOUS
<1>1. ConnTypes
  <2>1. /\ role \in Roles /\ role \in {"lobby", "relay"}
        /\ peer = [live |-> TRUE, owes |-> FALSE, parts |-> 0, sent |-> 0]
        /\ up = <<>> /\ reader = [on |-> TRUE, payload |-> <<>>] /\ message = <<>>
        /\ writer = TRUE /\ downlink \in BOOLEAN /\ done = FALSE /\ queue = <<>> /\ conn = "open"
        /\ left = [write |-> Unset, read |-> PongWait, ping |-> PingPeriod]
        /\ excuse = [given |-> FALSE, replaced |-> FALSE, stalls |-> 0]
    BY ConnConstants DEF ConnInit
  <2>2. peer \in [live : BOOLEAN, owes : BOOLEAN, parts : 0..MaxParts, sent : 0..MaxFrames]
    BY <2>1, ConnConstants
  <2>3. left \in [write : Unset..WriteWait, read : 0..PongWait, ping : 0..PingPeriod]
    BY <2>1, ConnConstants DEF Unset
  <2>4. excuse \in [given : BOOLEAN, replaced : BOOLEAN, stalls : 0..MaxStalls]
    BY <2>1, ConnConstants
  <2>5. up \in Seq(Frames) /\ Len(up) <= MaxUp /\ queue \in Seq({"reply", "last", "datagram"}) /\ Len(queue) <= SendCap
    BY <2>1, ConnConstants
  <2>6. reader \in [on : BOOLEAN, payload : Seq(Frames)] /\ message \in Seq(Frames)
    BY <2>1
  <2> QED
    BY <2>1, <2>2, <2>3, <2>4, <2>5, <2>6 DEF ConnTypes
<1>2. StreamInv
  <2>1. Stream(<<>>, 0, 0)
    BY DEF Stream, DataIn
  <2>2. BegunWell(<<>>)
    BY ConnConstants DEF BegunWell
  <2> QED
    BY <2>1, <2>2 DEF ConnInit, StreamInv, Follows
<1>3. MessagesWhole /\ NoZombie
  BY DEF ConnInit, MessagesWhole, NoZombie
<1>4. PumpInv
  <2>1. writer /\ ~excuse.replaced
    BY DEF ConnInit
  <2>2. downlink => role = "relay"
    BY DEF ConnInit
  <2> QED
    BY <2>1, <2>2 DEF PumpInv
<1> QED
  BY <1>1, <1>2, <1>3, <1>4 DEF ConnInv

LEMMA ConnNextInv == ConnInv /\ [ConnNext]_connVars => ConnInv'
<1> SUFFICES ASSUME ConnInv, [ConnNext]_connVars PROVE ConnInv'
  OBVIOUS
<1>1. CASE ServerSteps
  BY <1>1, PumpPingsInv, PumpSendsInv, ShutdownInv, DownlinkWritesInv, ReadPingInv, ReadMessageInv,
     EndsInv, EnqueueInv, ReplacedInv, ReadFailsInv, ReadPongInv, ReadLastInv, ReadPartInv
     DEF ServerSteps
<1>2. CASE PeerSteps
  BY <1>2, PeerControlInv, PeerSendsInv, PeerVanishesInv DEF PeerSteps
<1>3. CASE Tick
  BY <1>3, TickInv
<1>4. CASE UNCHANGED connVars
  <2>1. ConnTypes' /\ MessagesWhole' /\ PumpInv' /\ NoZombie'
    BY <1>4 DEF connVars, ConnInv, ConnTypes, MessagesWhole, PumpInv, NoZombie, Open
  <2>2. StreamInv'
    BY <1>4, SameStream DEF connVars, ConnInv
  <2> QED
    BY <2>1, <2>2 DEF ConnInv
<1> QED
  BY <1>1, <1>2, <1>3, <1>4 DEF ConnNext

(* ConnInv is an invariant of a connection.                                *)
THEOREM ConnectionInvariant == ConnSpec => []ConnInv
BY ConnInitInv, ConnNextInv, PTL DEF ConnSpec

LEMMA ConnInvImplies == ConnInv => ConnTypeOK /\ MessagesWhole /\ NoZombie
BY DEF ConnInv, ConnTypes, ConnTypeOK

=============================================================================
