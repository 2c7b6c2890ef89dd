--------------------------- MODULE Gateway_proofs ---------------------------
(***************************************************************************)
(* Proofs about what stands between the network and the services: the      *)
(* business envelope (EnvelopeGuard), the verification codes               *)
(* (AccountCodes), the callbacks of the battle servers (CallbackGuard) and *)
(* the sessions with their connections (Sessions).  They share no state;   *)
(* each has an inductive invariant of its own.                             *)
(***************************************************************************)
EXTENDS EnvelopeGuard, AccountCodes, CallbackGuard, Sessions, SequenceTheorems, WellFoundedInduction, TLAPS

(* The two helpers of FiniteSetsExt, on the sets they are used with.       *)
LEMMA MaxOfTwo ==
    ASSUME NEW a \in Int, NEW b \in Int
    PROVE  Max({a, b}) = IF a >= b THEN a ELSE b
BY DEF Max

LEMMA MinOfTwo ==
    ASSUME NEW a \in Int, NEW b \in Int
    PROVE  Min({a, b}) = IF a <= b THEN a ELSE b
BY DEF Min

(* A nonempty set of numbers has a least one.                              *)
LEMMA LeastNumber ==
    ASSUME NEW T \in SUBSET Nat, T # {}
    PROVE  Min(T) \in T /\ \A y \in T : Min(T) <= y
<1> DEFINE R == OpToRel(<, Nat)
<1>1. R = {p \in Nat \X Nat : p[1] < p[2]}
  BY DEF OpToRel
<1>2. IsWellFoundedOn(R, Nat)
  BY NatLessThanWellFounded
<1> HIDE DEF R
<1>3. PICK x \in T : \A y \in T : ~(<<y, x>> \in R)
  BY <1>2, WFMin
<1>4. ASSUME NEW y \in T PROVE x <= y
  <2>1. <<y, x>> \in Nat \X Nat /\ <<y, x>>[1] = y /\ <<y, x>>[2] = x
    OBVIOUS
  <2>2. ~(y < x)
    BY <1>1, <1>3, <2>1
  <2> QED
    BY <2>2
<1> QED
  BY <1>4 DEF Min

-----------------------------------------------------------------------------
(* EnvelopeGuard                                                           *)

Requests == [at : (0 - MaxSkew - 1)..(MaxNow + MaxSkew + 1), class : Classes, enveloped : BOOLEAN]

EnvelopeTypes ==
    /\ now \in 0..MaxNow
    /\ request \in Seq(Requests)
    /\ Len(request) <= MaxSeq
    /\ lastSeq \in 0..MaxSeq
    /\ nonceOrder \in Seq(1..MaxSeq)
    /\ Len(nonceOrder) <= EnvelopeNonceCap
    /\ consumed \in Seq(Nat)
    /\ applied \in Seq(Nat)
    /\ Len(consumed) = Len(request)
    /\ Len(applied) = Len(request)

(* Only numbers up to lastSeq are used up, however small the nonce memory. *)
UsedUpInv == \A i \in 1..Len(request) : consumed[i] # 0 => i <= lastSeq

EnvelopeInv == EnvelopeTypes /\ UsedUpInv /\ EnvelopeOnce

LEMMA EnvelopeInitInv == EnvelopeInit => EnvelopeInv
BY EnvelopeGuardAssumptions
   DEF EnvelopeInit, EnvelopeInv, EnvelopeTypes, UsedUpInv, EnvelopeOnce

(* The requests of an operation are guarded at most once.                  *)
LEMMA GuardedOnce ==
    ASSUME NEW class \in Classes
    PROVE  /\ Guards(class) \in {0, 1}
           /\ Guards(class) = 1 => class # "open" /\ class # "service"
BY DEF Guards, UsesBusinessEnvelope, RequiresEnvelope, Classes

(* The bounded memory after a further nonce.                               *)
LEMMA RememberType ==
    ASSUME EnvelopeInv, NEW i \in 1..MaxSeq
    PROVE  /\ Remember(i) \in Seq(1..MaxSeq)
           /\ Len(Remember(i)) <= EnvelopeNonceCap
<1> DEFINE order == Append(nonceOrder, i)
           first == Max({1, Len(order) - EnvelopeNonceCap + 1})
<1>1. order \in Seq(1..MaxSeq) /\ Len(order) \in Nat /\ \A j \in 1..Len(order) : order[j] \in 1..MaxSeq
  <2>1. nonceOrder \in Seq(1..MaxSeq)
    BY DEF EnvelopeInv, EnvelopeTypes
  <2>2. order \in Seq(1..MaxSeq)
    BY <2>1, AppendProperties
  <2> HIDE DEF order
  <2> QED
    BY <2>2, ElementOfSeq, LenProperties
<1>2. first = IF 1 >= Len(order) - EnvelopeNonceCap + 1 THEN 1 ELSE Len(order) - EnvelopeNonceCap + 1
  <2> HIDE DEF order
  <2>1. Len(order) - EnvelopeNonceCap + 1 \in Int
    BY <1>1, EnvelopeGuardAssumptions
  <2> QED
    BY <2>1, MaxOfTwo
<1>3. first \in Int /\ first >= 1 /\ Len(order) - first + 1 <= EnvelopeNonceCap
  <2> HIDE DEF order, first
  <2> QED
    BY <1>1, <1>2, EnvelopeGuardAssumptions
<1>4. /\ SubSeq(order, first, Len(order)) \in Seq(1..MaxSeq)
      /\ Len(SubSeq(order, first, Len(order))) = IF first <= Len(order) THEN Len(order) - first + 1 ELSE 0
  <2> HIDE DEF order, first
  <2>1. \A j \in first..Len(order) : order[j] \in 1..MaxSeq
    BY <1>1, <1>3
  <2> QED
    BY <1>1, <1>3, <2>1, SubSeqProperties
<1>5. Remember(i) = SubSeq(order, first, Len(order))
  BY DEF Remember
<1> HIDE DEF order, first
<1> QED
  BY <1>1, <1>3, <1>4, <1>5, EnvelopeGuardAssumptions

LEMMA SendRequestInv ==
    ASSUME EnvelopeInv, NEW class \in Classes, NEW skew \in (0 - MaxSkew - 1)..(MaxSkew + 1),
           NEW enveloped \in BOOLEAN, SendRequest(class, skew, enveloped)
    PROVE  EnvelopeInv'
<1> DEFINE new == [at |-> IF enveloped THEN now + skew ELSE 0, class |-> class, enveloped |-> enveloped]
<1> USE EnvelopeGuardAssumptions
<1>1. new \in Requests
  BY DEF EnvelopeInv, EnvelopeTypes, Requests
<1> HIDE DEF new
<1> DEFINE n == Len(request)
<1>2. /\ request \in Seq(Requests) /\ consumed \in Seq(Nat) /\ applied \in Seq(Nat)
      /\ Len(consumed) = n /\ Len(applied) = n /\ n \in Nat
  BY DEF EnvelopeInv, EnvelopeTypes
<1>3. /\ request' = Append(request, new) /\ consumed' = Append(consumed, 0) /\ applied' = Append(applied, 0)
      /\ n < MaxSeq
      /\ UNCHANGED <<now, lastSeq, nonceOrder, denied>>
  BY DEF SendRequest, new
<1>4. /\ request' \in Seq(Requests) /\ Len(request') = n + 1
      /\ DOMAIN request' = 1..(n + 1) /\ DOMAIN request = 1..n
      /\ \A i \in 1..n : request'[i] = request[i]
  BY <1>1, <1>2, <1>3, AppendProperties, LenProperties
<1>5. /\ consumed' \in Seq(Nat) /\ Len(consumed') = n + 1 /\ consumed'[n + 1] = 0
      /\ \A i \in 1..n : consumed'[i] = consumed[i]
  BY <1>2, <1>3, AppendProperties
<1>6. /\ applied' \in Seq(Nat) /\ Len(applied') = n + 1 /\ applied'[n + 1] = 0
      /\ \A i \in 1..n : applied'[i] = applied[i]
  <2>1. applied \in Seq(Nat) /\ Len(applied) = n /\ applied' = Append(applied, 0)
    BY <1>2, <1>3
  <2> QED
    BY <2>1, AppendProperties
<1>7. \A i \in 1..(n + 1) : i \in 1..n \/ i = n + 1
  BY <1>2
<1>8. EnvelopeTypes'
  <2>1. n + 1 <= MaxSeq
    BY <1>2, <1>3
  <2> QED
    BY <1>3, <1>4, <1>5, <1>6, <2>1 DEF EnvelopeInv, EnvelopeTypes
<1>9. UsedUpInv'
  <2> SUFFICES ASSUME NEW i \in 1..(n + 1), consumed'[i] # 0
               PROVE  i <= lastSeq
    BY <1>3, <1>4 DEF UsedUpInv
  <2>1. i \in 1..n /\ consumed[i] # 0
    BY <1>5, <1>7
  <2> QED
    BY <2>1 DEF EnvelopeInv, UsedUpInv
<1>10. EnvelopeOnce'
  <2> SUFFICES ASSUME NEW i \in 1..(n + 1), request'[i].enveloped, request'[i].class # "open"
               PROVE  applied'[i] <= consumed'[i] /\ consumed'[i] <= 1
    BY <1>3, <1>4 DEF EnvelopeInv, EnvelopeOnce
  <2>1. CASE i = n + 1
    BY <2>1, <1>5, <1>6
  <2>2. CASE i \in 1..n
    BY <2>2, <1>4, <1>5, <1>6 DEF EnvelopeInv, EnvelopeOnce
  <2> QED
    BY <1>7, <2>1, <2>2
<1> QED
  BY <1>8, <1>9, <1>10 DEF EnvelopeInv

LEMMA AcceptInv ==
    ASSUME EnvelopeInv, NEW i \in DOMAIN request, Accept(i)
    PROVE  EnvelopeInv'
<1> USE EnvelopeGuardAssumptions
<1>1. /\ i \in 1..Len(request) /\ Len(request) \in Nat /\ DOMAIN request = 1..Len(request)
      /\ DOMAIN consumed = 1..Len(request) /\ DOMAIN applied = 1..Len(request)
      /\ i \in 1..MaxSeq
  BY DEF EnvelopeInv, EnvelopeTypes
<1>2. request[i].class \in Classes /\ request[i].enveloped
  <2>1. request[i] \in Requests
    BY <1>1 DEF EnvelopeInv, EnvelopeTypes
  <2> QED
    BY <2>1 DEF Requests, Accept
<1>3. Guards(request[i].class) = 1 /\ request[i].class # "open"
  BY <1>2, GuardedOnce DEF Accept
<1>4. consumed[i] = 0 /\ applied[i] = 0
  <2>1. i > lastSeq
    BY DEF Accept, Valid
  <2>2. consumed[i] = 0
    BY <1>1, <2>1 DEF EnvelopeInv, EnvelopeTypes, UsedUpInv
  <2> QED
    BY <1>1, <1>2, <1>3, <2>2 DEF EnvelopeInv, EnvelopeTypes, EnvelopeOnce
<1>5. /\ consumed' = [consumed EXCEPT ![i] = 1]
      /\ applied' = [applied EXCEPT ![i] = 1] \/ applied' = applied
      /\ denied' = denied
  <2>1. Min({0 + 1, 2}) = 1
    BY MinOfTwo
  <2> QED
    BY <1>3, <1>4, <2>1 DEF Accept, Apply
<1>6. lastSeq' = i /\ nonceOrder' = Remember(i) /\ UNCHANGED <<now, request>> /\ i > lastSeq
  BY DEF Accept, Valid
<1>7. EnvelopeTypes'
  <2>1. consumed' \in Seq(Nat) /\ Len(consumed') = Len(request)
    BY <1>1, <1>5 DEF EnvelopeInv, EnvelopeTypes
  <2>2. applied' \in Seq(Nat) /\ Len(applied') = Len(request)
    <3>1. applied \in Seq(Nat) /\ Len(applied) = Len(request)
      BY DEF EnvelopeInv, EnvelopeTypes
    <3>2. CASE applied' = [applied EXCEPT ![i] = 1]
      BY <1>1, <3>1, <3>2
    <3>3. CASE applied' = applied
      BY <3>1, <3>3
    <3> QED
      BY <1>5, <3>2, <3>3
  <2> QED
    BY <1>1, <1>6, <2>1, <2>2, RememberType DEF EnvelopeInv, EnvelopeTypes
<1>8. UsedUpInv'
  BY <1>1, <1>5, <1>6 DEF EnvelopeInv, EnvelopeTypes, UsedUpInv
<1>9. EnvelopeOnce'
  <2> SUFFICES ASSUME NEW j \in 1..Len(request), request[j].enveloped, request[j].class # "open"
               PROVE  applied'[j] <= consumed'[j] /\ consumed'[j] <= 1
    BY <1>1, <1>5, <1>6 DEF EnvelopeInv, EnvelopeOnce
  <2>1. CASE j = i
    <3>1. consumed'[i] = 1 /\ applied'[i] \in {0, 1}
      BY <1>1, <1>4, <1>5
    <3> QED
      BY <2>1, <3>1
  <2>2. CASE j # i
    <3>1. consumed'[j] = consumed[j] /\ applied'[j] = applied[j]
      BY <1>1, <1>5, <2>2
    <3> QED
      BY <1>1, <3>1 DEF EnvelopeInv, EnvelopeOnce
  <2> QED
    BY <2>1, <2>2
<1> QED
  BY <1>7, <1>8, <1>9 DEF EnvelopeInv

LEMMA PassInv ==
    ASSUME EnvelopeInv, NEW i \in DOMAIN request, Pass(i)
    PROVE  EnvelopeInv'
<1>1. /\ i \in 1..Len(request) /\ Len(request) \in Nat /\ DOMAIN request = 1..Len(request)
      /\ DOMAIN applied = 1..Len(request)
  BY DEF EnvelopeInv, EnvelopeTypes
<1>2. ~request[i].enveloped \/ request[i].class = "open"
  BY DEF Pass, ServiceTakes
<1>3. PICK n \in Nat : applied' = [applied EXCEPT ![i] = n]
  <2>1. applied[i] \in Nat
    BY <1>1 DEF EnvelopeInv, EnvelopeTypes
  <2>2. Min({applied[i] + 1, 2}) \in Nat
    BY <2>1, MinOfTwo
  <2> QED
    BY <2>2 DEF Pass, Apply
<1>4. UNCHANGED <<now, request, lastSeq, nonceOrder, consumed, denied>>
  BY DEF Pass
<1>5. EnvelopeTypes'
  BY <1>1, <1>3, <1>4 DEF EnvelopeInv, EnvelopeTypes
<1>6. UsedUpInv'
  BY <1>4 DEF EnvelopeInv, UsedUpInv
<1>7. EnvelopeOnce'
  BY <1>1, <1>2, <1>3, <1>4 DEF EnvelopeInv, EnvelopeTypes, EnvelopeOnce
<1> QED
  BY <1>5, <1>6, <1>7 DEF EnvelopeInv

LEMMA EnvelopeTickInv ==
    ASSUME EnvelopeInv, EnvelopeTick \/ UNCHANGED envelopeVars
    PROVE  EnvelopeInv'
<1>1. now' \in 0..MaxNow /\ UNCHANGED <<request, lastSeq, nonceOrder, consumed, applied, denied>>
  BY EnvelopeGuardAssumptions DEF EnvelopeInv, EnvelopeTypes, EnvelopeTick, envelopeVars
<1> QED
  BY <1>1 DEF EnvelopeInv, EnvelopeTypes, UsedUpInv, EnvelopeOnce

(* The invariant holds whatever the network does with the requests.        *)
THEOREM EnvelopeInvariant == EnvelopeSpec => []EnvelopeInv
<1>1. ASSUME EnvelopeInv, [EnvelopeNext]_envelopeVars
      PROVE  EnvelopeInv'
  BY <1>1, SendRequestInv, AcceptInv, PassInv, EnvelopeTickInv DEF EnvelopeNext
<1> QED
  BY <1>1, EnvelopeInitInv, PTL DEF EnvelopeSpec

(* For any size of the nonce memory and any skew, a guarded request that   *)
(* carries an envelope is applied at most once, only if its envelope was   *)
(* used up, and none is guarded twice (Validate,                           *)
(* routeUsesBusinessEnvelope).                                             *)
THEOREM EnvelopesCountOnce == EnvelopeSpec => []EnvelopeOnce
<1>1. EnvelopeInv => EnvelopeOnce
  BY DEF EnvelopeInv
<1> QED
  BY <1>1, EnvelopeInvariant, PTL

(* The envelope guard keeps its types (Validate).                          *)
THEOREM EnvelopesAreTyped == EnvelopeSpec => []EnvelopeTypeOK
<1>1. EnvelopeInv => EnvelopeTypeOK
  BY DEF EnvelopeInv, EnvelopeTypes, EnvelopeOnce, EnvelopeTypeOK, Requests
<1> QED
  BY <1>1, EnvelopeInvariant, PTL

-----------------------------------------------------------------------------
(* AccountCodes                                                            *)

Codes == [issued : 0..MaxClock, wrong : 0..MaxAttempts,
          mail : {"sending", "delivered", "failed"}, used : BOOLEAN]

CodeTypes ==
    /\ clock \in 0..MaxClock
    /\ code \in Seq(Codes)
    /\ Len(code) <= MaxCodes
    /\ pending \in 0..Len(code)

(* Only the last code can be pending, and it is as long as it is good for  *)
(* something: its mail may still be on its way.                            *)
LastCodeInv ==
    /\ pending \in {0, Len(code)}
    /\ pending # 0 => code[pending].wrong < MaxAttempts
    /\ code # <<>> =>
          LET i == Len(code)
          IN  (/\ code[i].mail # "failed"
               /\ ~code[i].used
               /\ code[i].wrong < MaxAttempts
               /\ clock < Expiry(i)) => pending = i

CodesInv == CodeTypes /\ LastCodeInv

LEMMA CodeInitInv == CodeInit => CodesInv
BY AccountCodesAssumptions DEF CodeInit, CodesInv, CodeTypes, LastCodeInv

LEMMA CodeFacts ==
    ASSUME CodesInv
    PROVE  /\ Len(code) \in Nat /\ DOMAIN code = 1..Len(code)
           /\ code # <<>> <=> Len(code) > 0
           /\ \A i \in 1..Len(code) : code[i] \in Codes
BY LenProperties, ElementOfSeq DEF CodesInv, CodeTypes

LEMMA BeginSendInv ==
    ASSUME CodesInv, BeginSend
    PROVE  CodesInv'
<1> USE AccountCodesAssumptions
<1> DEFINE new == [issued |-> clock, wrong |-> 0, mail |-> "sending", used |-> FALSE]
           n == Len(code)
<1>1. new \in Codes /\ new.wrong < MaxAttempts
  BY DEF CodesInv, CodeTypes, Codes
<1> HIDE DEF new
<1>2. code' = Append(code, new) /\ n < MaxCodes /\ pending' = Len(code') /\ clock' = clock
  BY DEF BeginSend, new
<1>3. code \in Seq(Codes) /\ n \in Nat
  BY CodeFacts DEF CodesInv, CodeTypes
<1>4. code' \in Seq(Codes) /\ Len(code') = n + 1 /\ code'[n + 1] = new
  BY <1>1, <1>2, <1>3, AppendProperties
<1>5. CodeTypes'
  BY <1>2, <1>3, <1>4 DEF CodesInv, CodeTypes
<1>6. LastCodeInv'
  BY <1>1, <1>2, <1>3, <1>4 DEF LastCodeInv
<1> QED
  BY <1>5, <1>6 DEF CodesInv

(* A step that changes one code record, and keeps its date.                *)
LEMMA RecordStep ==
    ASSUME CodesInv, NEW i \in 1..Len(code), NEW r \in Codes,
           code' = [code EXCEPT ![i] = r], r.issued = code[i].issued
    PROVE  /\ code' \in Seq(Codes) /\ Len(code') = Len(code)
           /\ code'[i] = r
           /\ \A j \in 1..Len(code) : j # i => code'[j] = code[j]
           /\ \A j \in 1..Len(code) : Expiry(j)' = Expiry(j)
<1>1. code \in Seq(Codes) /\ i \in 1..Len(code)
  BY DEF CodesInv, CodeTypes
<1>2. /\ code' \in Seq(Codes) /\ Len(code') = Len(code) /\ code'[i] = r
      /\ \A j \in 1..Len(code) : j # i => code'[j] = code[j]
  BY <1>1, ExceptSeq
<1> QED
  BY <1>2 DEF Expiry

LEMMA MailInv ==
    ASSUME CodesInv, NEW i \in DOMAIN code, MailDelivered(i) \/ MailFails(i)
    PROVE  CodesInv'
<1>1. i \in 1..Len(code) /\ code[i] \in Codes /\ Len(code) \in Nat
  BY CodeFacts
<1>2. PICK m \in {"delivered", "failed"} :
         /\ code' = [code EXCEPT ![i] = [code[i] EXCEPT !.mail = m]]
         /\ code[i].mail = "sending"
         /\ m = "failed" => pending' = IF pending = i THEN 0 ELSE pending
         /\ m = "delivered" => pending' = pending
         /\ clock' = clock
  BY DEF MailDelivered, MailFails, DropPending
<1> DEFINE r == [code[i] EXCEPT !.mail = m]
<1>3. /\ r \in Codes /\ r.issued = code[i].issued /\ r.wrong = code[i].wrong /\ r.used = code[i].used
      /\ r.mail = m
  BY <1>1 DEF Codes
<1> HIDE DEF r
<1>4. /\ code' \in Seq(Codes) /\ Len(code') = Len(code)
      /\ code'[i] = r
      /\ \A j \in 1..Len(code) : j # i => code'[j] = code[j]
      /\ \A j \in 1..Len(code) : Expiry(j)' = Expiry(j)
  BY <1>1, <1>2, <1>3, RecordStep DEF r
<1>5. CodeTypes'
  BY <1>1, <1>2, <1>4 DEF CodesInv, CodeTypes
<1>6. LastCodeInv'
  <2>1. pending \in 0..Len(code)
    BY DEF CodesInv, CodeTypes
  <2> QED
    BY <1>1, <1>2, <1>3, <1>4, <2>1, CodeFacts DEF CodesInv, LastCodeInv
<1> QED
  BY <1>5, <1>6 DEF CodesInv

LEMMA ConsumeCodeInv ==
    ASSUME CodesInv, NEW i \in DOMAIN code, ConsumeCode(i)
    PROVE  CodesInv'
<1>1. i \in 1..Len(code) /\ code[i] \in Codes /\ Len(code) \in Nat /\ i = Len(code)
  BY CodeFacts DEF ConsumeCode, CodesInv, LastCodeInv
<1> DEFINE r == [code[i] EXCEPT !.used = TRUE]
<1>2. r \in Codes /\ r.issued = code[i].issued /\ r.used
  BY <1>1 DEF Codes
<1>3. code' = [code EXCEPT ![i] = r] /\ pending' = 0 /\ clock' = clock
  BY DEF ConsumeCode
<1> HIDE DEF r
<1>4. code' \in Seq(Codes) /\ Len(code') = Len(code) /\ code'[i] = r
  BY <1>1, <1>2, <1>3, RecordStep
<1>5. CodeTypes'
  BY <1>1, <1>3, <1>4 DEF CodesInv, CodeTypes
<1>6. LastCodeInv'
  BY <1>1, <1>2, <1>3, <1>4 DEF LastCodeInv
<1> QED
  BY <1>5, <1>6 DEF CodesInv

LEMMA WrongCodeInv ==
    ASSUME CodesInv, WrongCode
    PROVE  CodesInv'
<1> USE AccountCodesAssumptions
<1> DEFINE i == pending
           r == [code[i] EXCEPT !.wrong = @ + 1]
<1>1. i \in 1..Len(code) /\ code[i] \in Codes /\ Len(code) \in Nat /\ i = Len(code) /\ code[i].wrong < MaxAttempts
  BY CodeFacts DEF WrongCode, CodesInv, CodeTypes, LastCodeInv
<1>2. r \in Codes /\ r.issued = code[i].issued /\ r.wrong = code[i].wrong + 1
  BY <1>1 DEF Codes
<1>3. /\ code' = [code EXCEPT ![i] = r] /\ clock' = clock
      /\ pending' = IF code[i].wrong + 1 >= MaxAttempts THEN 0 ELSE i
  BY DEF WrongCode
<1>4. code[i].wrong \in Nat
  BY <1>1 DEF Codes
<1> HIDE DEF r, i
<1>5. code' \in Seq(Codes) /\ Len(code') = Len(code) /\ code'[i] = r
  BY <1>1, <1>2, <1>3, RecordStep
<1>6. CodeTypes'
  BY <1>1, <1>3, <1>5 DEF CodesInv, CodeTypes
<1>7. LastCodeInv'
  BY <1>1, <1>2, <1>3, <1>4, <1>5 DEF LastCodeInv
<1> QED
  BY <1>6, <1>7 DEF CodesInv

LEMMA ExpiredCodeInv ==
    ASSUME CodesInv, ExpiredCode
    PROVE  CodesInv'
<1>1. /\ pending = Len(code) /\ Len(code) \in Nat /\ clock >= Expiry(Len(code))
      /\ pending' = 0 /\ UNCHANGED <<clock, code>>
  BY CodeFacts DEF ExpiredCode, CodesInv, CodeTypes, LastCodeInv
<1>2. CodeTypes'
  BY <1>1 DEF CodesInv, CodeTypes
<1>3. LastCodeInv'
  <2>1. code # <<>> => Expiry(Len(code)) \in Int
    BY CodeFacts, AccountCodesAssumptions DEF Expiry, Codes
  <2>2. clock \in Int /\ Expiry(Len(code))' = Expiry(Len(code))
    BY <1>1 DEF CodesInv, CodeTypes, Expiry
  <2> QED
    BY <1>1, <2>1, <2>2 DEF LastCodeInv
<1> QED
  BY <1>2, <1>3 DEF CodesInv

LEMMA ClockTickInv ==
    ASSUME CodesInv, ClockTick
    PROVE  CodesInv'
<1>1. clock' = clock + 1 /\ clock' \in 0..MaxClock /\ clock \in 0..MaxClock /\ UNCHANGED <<code, pending>>
  BY AccountCodesAssumptions DEF ClockTick, CodesInv, CodeTypes
<1>2. CodeTypes'
  BY <1>1 DEF CodesInv, CodeTypes
<1>3. LastCodeInv'
  <2>1. code # <<>> => Expiry(Len(code)) \in Int
    BY CodeFacts, AccountCodesAssumptions DEF Expiry, Codes
  <2>2. Expiry(Len(code))' = Expiry(Len(code))
    BY <1>1 DEF Expiry
  <2> QED
    BY <1>1, <2>1, <2>2 DEF CodesInv, LastCodeInv
<1> QED
  BY <1>2, <1>3 DEF CodesInv

(* The invariant holds whatever requests, mails and registrations overlap. *)
THEOREM CodesInvariant == CodeSpec => []CodesInv
<1>1. ASSUME CodesInv, [CodeNext]_codeVars
      PROVE  CodesInv'
  <2>1. ASSUME AskForCode \/ CodeRefused \/ (\E nameFree \in BOOLEAN : CreateAccount(nameFree)) \/ UNCHANGED codeVars
        PROVE  CodesInv'
    <3>1. UNCHANGED <<clock, code, pending>>
      BY <2>1 DEF AskForCode, CodeRefused, CreateAccount, codeVars
    <3> QED
      BY <1>1, <3>1 DEF CodesInv, CodeTypes, LastCodeInv, Expiry
  <2> QED
    BY <1>1, <2>1, BeginSendInv, MailInv, ConsumeCodeInv, WrongCodeInv, ExpiredCodeInv, ClockTickInv
       DEF CodeNext
<1> QED
  BY <1>1, CodeInitInv, PTL DEF CodeSpec

(* For any cooldown, lifetime and number of attempts, the code issued last *)
(* works once its mail has arrived, until it expires, is used or was       *)
(* guessed too often, although earlier mails fail late (dropPending,       *)
(* consumeCode).                                                           *)
THEOREM DeliveredCodesWork == CodeSpec => []DeliveredCodeWorks
<1>1. ASSUME CodesInv
      PROVE  DeliveredCodeWorks
  BY <1>1, CodeFacts DEF CodesInv, LastCodeInv, DeliveredCodeWorks
<1> QED
  BY <1>1, CodesInvariant, PTL

(* The loop of pruneSendHistory, as far as n.                              *)
PruneRun(n, kept, q, t) ==
    kept = [i \in 0..n |->
       IF i = 0 THEN <<>> ELSE IF q[i] > t - Hour THEN Append(kept[i - 1], q[i]) ELSE kept[i - 1]]

LEMMA PruneExists ==
    ASSUME NEW q, NEW t, NEW k \in Nat
    PROVE  \E kept : PruneRun(k, kept, q, t)
<1> DEFINE Step(prev, i) == IF q[i] > t - Hour THEN Append(prev, q[i]) ELSE prev
           T == {n \in Nat : ~\E kept : PruneRun(n, kept, q, t)}
<1>1. ASSUME T # {} PROVE FALSE
  <2>1. PICK n \in T : \A y \in T : n <= y
    <3> HIDE DEF T
    <3>1. T \in SUBSET Nat
      BY DEF T
    <3> QED
      BY <1>1, <3>1, LeastNumber
  <2>2. n # 0
    <3>1. PruneRun(0, [i \in 0..0 |-> <<>>], q, t)
      BY DEF PruneRun
    <3> QED
      BY <2>1, <3>1
  <2>3. n - 1 \in Nat /\ n - 1 \notin T /\ n \in Nat
    <3>1. n \in Nat
      BY <2>1
    <3> HIDE DEF T
    <3> QED
      BY <2>1, <2>2, <3>1
  <2>4. PICK kept : PruneRun(n - 1, kept, q, t)
    BY <2>3
  <2> DEFINE next == [i \in 0..n |-> IF i = n THEN Step(kept[n - 1], n) ELSE kept[i]]
  <2> HIDE DEF Step
  <2>5. \A i \in 0..(n - 1) : next[i] = kept[i]
    BY <2>3
  <2>6. \A i \in 0..(n - 1) : kept[i] = IF i = 0 THEN <<>> ELSE Step(kept[i - 1], i)
    BY <2>3, <2>4 DEF PruneRun, Step
  <2>7. ASSUME NEW i \in 0..n PROVE next[i] = IF i = 0 THEN <<>> ELSE Step(next[i - 1], i)
    <3>1. CASE i = n
      <4>1. next[n - 1] = kept[n - 1]
        BY <2>2, <2>3, <2>5
      <4>2. next[n] = Step(kept[n - 1], n)
        BY <2>3
      <4> HIDE DEF next
      <4> QED
        BY <2>2, <3>1, <4>1, <4>2
    <3>2. CASE i # n
      <4>1. i \in 0..(n - 1) /\ (i # 0 => i - 1 \in 0..(n - 1))
        BY <2>3, <3>2
      <4> HIDE DEF next
      <4> QED
        BY <2>5, <2>6, <4>1
    <3> QED
      BY <3>1, <3>2
  <2>8. PruneRun(n, next, q, t)
    <3>1. next = [i \in 0..n |-> next[i]]
      OBVIOUS
    <3> HIDE DEF next
    <3> QED
      BY <2>7, <3>1 DEF PruneRun, Step
  <2> QED
    BY <2>1, <2>8
<1> QED
  BY <1>1

LEMMA RecentType ==
    ASSUME NEW A, sends \in Seq(A), NEW t
    PROVE  Recent(t) \in Seq(A)
<1> DEFINE q == sends
           n == Len(q)
           kept == CHOOSE f : PruneRun(n, f, q, t)
<1>1. n \in Nat /\ \A i \in 1..n : q[i] \in A
  OBVIOUS
<1>2. PruneRun(n, kept, q, t)
  BY <1>1, PruneExists
<1>3. Recent(t) = kept[n]
  BY DEF Recent, PruneRun
<1> HIDE DEF kept, n, q
<1>4. /\ kept[0] = <<>>
      /\ \A i \in 1..n : kept[i] = IF q[i] > t - Hour THEN Append(kept[i - 1], q[i]) ELSE kept[i - 1]
  <2>1. 0 \in 0..n /\ \A i \in 1..n : i \in 0..n /\ i # 0
    BY <1>1
  <2> QED
    BY <1>2, <2>1 DEF PruneRun
<1> DEFINE T == {i \in 0..n : kept[i] \notin Seq(A)}
<1>5. T = {}
  <2> SUFFICES ASSUME T # {} PROVE FALSE
    OBVIOUS
  <2>1. T \in SUBSET Nat
    BY <1>1
  <2>2. PICK i \in T : \A y \in T : i <= y
    <3> HIDE DEF T
    <3> QED
      BY <2>1, LeastNumber
  <2>3. i \in 0..n /\ kept[i] \notin Seq(A) /\ i \in Nat
    BY <1>1, <2>2
  <2>4. i # 0
    <3>1. kept[0] \in Seq(A)
      BY <1>4, EmptySeq
    <3> QED
      BY <2>3, <3>1
  <2>5. i \in 1..n /\ i - 1 \in 0..n /\ i - 1 \notin T
    <3>1. i \in 1..n /\ i - 1 \in 0..n /\ i - 1 < i
      BY <1>1, <2>3, <2>4
    <3> HIDE DEF T
    <3> QED
      BY <2>2, <2>3, <3>1
  <2>6. kept[i - 1] \in Seq(A) /\ q[i] \in A
    BY <1>1, <2>5
  <2>7. Append(kept[i - 1], q[i]) \in Seq(A)
    BY <2>6, AppendProperties
  <2>8. kept[i] \in {Append(kept[i - 1], q[i]), kept[i - 1]}
    BY <1>4, <2>5
  <2> QED
    BY <2>3, <2>6, <2>7, <2>8
<1>6. n \in 0..n
  BY <1>1
<1> QED
  BY <1>3, <1>5, <1>6

SendTypes ==
    /\ sends \in Seq(0..MaxClock) /\ registered \in BOOLEAN
    /\ asking \in 0..MaxCalls /\ creating \in 0..MaxCalls

(* The registration service keeps its types (SendVerificationCode,         *)
(* Register).                                                              *)
THEOREM CodesAreTyped == CodeSpec => []CodeTypeOK
<1>1. CodeInit => SendTypes
  <2>1. 0 \in 0..MaxCalls /\ FALSE \in BOOLEAN
    BY AccountCodesAssumptions
  <2>2. <<>> \in Seq(0..MaxClock)
    BY EmptySeq
  <2> QED
    BY <2>1, <2>2 DEF CodeInit, SendTypes
<1>2. ASSUME CodesInv, SendTypes, [CodeNext]_codeVars PROVE SendTypes'
  <2>1. MaxCalls \in Nat /\ clock \in 0..MaxClock /\ \A t : Recent(t) \in Seq(0..MaxClock)
    BY <1>2, AccountCodesAssumptions, RecentType DEF CodesInv, CodeTypes, SendTypes
  <2>2. Append(Recent(clock), clock) \in Seq(0..MaxClock)
    BY <2>1
  <2>3. CASE AskForCode \/ CodeRefused \/ BeginSend
    <3>1. sends' \in {sends, Recent(clock), Append(Recent(clock), clock)}
      BY <2>3 DEF AskForCode, CodeRefused, BeginSend
    <3>2. asking' \in 0..MaxCalls
      <4>1. asking \in 0..MaxCalls
        BY <1>2 DEF SendTypes
      <4>2. (asking < MaxCalls /\ asking' = asking + 1) \/ (asking > 0 /\ asking' = asking - 1)
        BY <2>3 DEF AskForCode, CodeRefused, BeginSend
      <4> QED
        BY <2>1, <4>1, <4>2
    <3>3. UNCHANGED <<creating, registered>>
      BY <2>3 DEF AskForCode, CodeRefused, BeginSend
    <3> QED
      BY <1>2, <2>1, <2>2, <3>1, <3>2, <3>3 DEF SendTypes
  <2>4. ASSUME NEW i, MailDelivered(i) \/ MailFails(i) \/ ConsumeCode(i) PROVE SendTypes'
    BY <1>2, <2>1, <2>4 DEF MailDelivered, MailFails, ConsumeCode, SendTypes
  <2>5. CASE WrongCode \/ ExpiredCode \/ ClockTick \/ UNCHANGED codeVars
    BY <1>2, <2>5 DEF WrongCode, ExpiredCode, ClockTick, codeVars, SendTypes
  <2>6. ASSUME NEW nameFree \in BOOLEAN, CreateAccount(nameFree) PROVE SendTypes'
    BY <1>2, <2>1, <2>6 DEF CreateAccount, Stored, SendTypes
  <2> QED
    BY <1>2, <2>3, <2>4, <2>5, <2>6 DEF CodeNext
<1>3. CodesInv /\ SendTypes => CodeTypeOK
  BY DEF CodesInv, CodeTypes, SendTypes, CodeTypeOK, Codes
<1> QED
  BY <1>1, <1>2, <1>3, CodesInvariant, PTL DEF CodeSpec

-----------------------------------------------------------------------------
(* CallbackGuard                                                           *)

Calls == [nonce : CallbackNonces, now : 0..MaxTicks]
Entries == [nonce : CallbackNonces, at : 0..MaxTicks]

CallbackTypes ==
    /\ ticks \in 0..MaxTicks
    /\ signed \in [CallbackNonces -> Int]
    /\ flying \subseteq Calls
    /\ window \in Seq(Entries)
    /\ accepted \in [CallbackNonces -> 0..2]
    /\ ahead \subseteq CallbackNonces
    /\ forgotten \subseteq CallbackNonces

(* What AcceptedOnce promises something about.                             *)
Promised(n) == n \notin forgotten \cup ahead

(* No call with nonce n can be fresh: neither one that waits for the lock, *)
(* whose reading of the clock is MaxWait old at most, nor a later one.     *)
Stale(n) == signed[n] # Unsigned /\ ticks - MaxWait >= Second * (signed[n] + Window + 1)

FlyingInv ==
    \A call \in flying :
       /\ signed[call.nonce] # Unsigned
       /\ Fresh(signed[call.nonce], call.now)
       /\ call.now <= ticks
       /\ ticks - call.now <= MaxWait
WindowInv ==
    \A i \in DOMAIN window :
       /\ signed[window[i].nonce] # Unsigned
       /\ Promised(window[i].nonce) => Covered(signed[window[i].nonce], window[i].at)

(* An accepted nonce is remembered, stale or out of the promise.           *)
AcceptedInv ==
    \A n \in CallbackNonces : accepted[n] # 0 =>
       /\ signed[n] # Unsigned
       /\ Promised(n) => accepted[n] = 1 /\ (n \in NoncesOf(window) \/ Stale(n))

CallbackInv == CallbackTypes /\ FlyingInv /\ WindowInv /\ AcceptedInv

LEMMA CallbackInitInv == CallbackInit => CallbackInv
BY CallbackGuardAssumptions
   DEF CallbackInit, CallbackInv, CallbackTypes, FlyingInv, WindowInv, AcceptedInv, Unsigned

(* Whole seconds and ticks.                                                *)
LEMMA Seconds ==
    ASSUME NEW t \in Int
    PROVE  /\ Unix(t) \in Int
           /\ Second * Unix(t) <= t
           /\ t < Second * (Unix(t) + 1)
<1>1. Second \in Nat \ {0}
  BY CallbackGuardAssumptions
<1> QED
  BY <1>1 DEF Unix

LEMMA SecondsGrow ==
    ASSUME NEW a \in Int, NEW b \in Int
    PROVE  /\ Second * a \in Int
           /\ a <= b <=> Second * a <= Second * b
           /\ a < b <=> Second * a < Second * b
           /\ Second * (a + b) = Second * a + Second * b
           /\ Second * (a - b) = Second * a - Second * b
<1>1. Second \in Nat /\ Second > 0
  BY CallbackGuardAssumptions
<1>2. Second * a \in Int /\ Second * (a + b) = Second * a + Second * b /\ Second * (a - b) = Second * a - Second * b
  BY <1>1
<1>3. (a <= b => Second * a <= Second * b) /\ (a < b => Second * a < Second * b)
  BY <1>1
<1>4. (b < a => Second * b < Second * a) /\ (b <= a => Second * b <= Second * a)
  BY <1>1
<1> QED
  BY <1>1, <1>2, <1>3, <1>4

(* A call that may still take the lock is not stale.                       *)
LEMMA FlyingNotStale ==
    ASSUME CallbackInv, NEW call \in flying
    PROVE  ~Stale(call.nonce)
<1> DEFINE s == signed[call.nonce]
<1>1. s \in Int /\ call.now \in Int /\ ticks \in Int /\ MaxWait \in Int /\ Window \in Int
  BY CallbackGuardAssumptions DEF CallbackInv, CallbackTypes, Calls
<1>2. Unix(call.now) <= s + Window
  BY <1>1, Seconds DEF CallbackInv, FlyingInv, Fresh
<1>3. call.now >= ticks - MaxWait
  BY <1>1 DEF CallbackInv, FlyingInv
<1> HIDE DEF s
<1>4. call.now < Second * (s + Window + 1)
  <2>1. Unix(call.now) \in Int /\ call.now < Second * (Unix(call.now) + 1)
    BY <1>1, Seconds
  <2>2. Second * (Unix(call.now) + 1) <= Second * (s + Window + 1)
    <3>1. Unix(call.now) + 1 \in Int /\ s + Window + 1 \in Int /\ Unix(call.now) + 1 <= s + Window + 1
      BY <1>1, <1>2, <2>1
    <3> QED
      BY <3>1, SecondsGrow
  <2>3. Second * (Unix(call.now) + 1) \in Int /\ Second * (s + Window + 1) \in Int
    <3>1. Unix(call.now) + 1 \in Int /\ s + Window + 1 \in Int
      BY <1>1, <2>1
    <3> QED
      BY <3>1, SecondsGrow
  <2> QED
    BY <1>1, <2>1, <2>2, <2>3
<1>5. Second * (s + Window + 1) \in Int
  <2>1. s + Window + 1 \in Int
    BY <1>1
  <2> QED
    BY <2>1, SecondsGrow
<1>6. ~(ticks - MaxWait >= Second * (s + Window + 1))
  BY <1>1, <1>3, <1>4, <1>5
<1> QED
  BY <1>6 DEF Stale, s

(* What the memory drops at the end of its retention is stale, unless its  *)
(* timestamp was too far ahead for the retention (Covered).                *)
LEMMA DroppedIsStale ==
    ASSUME CallbackInv, NEW call \in flying, NEW i \in DOMAIN window,
           ~(window[i].at > call.now - Retention), Promised(window[i].nonce)
    PROVE  Stale(window[i].nonce)
<1> DEFINE s == signed[window[i].nonce]
           at == window[i].at
<1>0. window[i] \in Entries
  BY DEF CallbackInv, CallbackTypes
<1>1. /\ s \in Int /\ at \in Int /\ call.now \in Int /\ ticks \in Int
      /\ MaxWait \in Int /\ Window \in Int /\ Second \in Int
  BY <1>0, CallbackGuardAssumptions DEF CallbackInv, CallbackTypes, Calls, Entries
<1>2. s # Unsigned /\ Second * (s + 1) + MaxWait <= at + Second * Window
  BY DEF CallbackInv, WindowInv, Covered
<1>3. call.now <= ticks
  BY DEF CallbackInv, FlyingInv
<1>4. at + 2 * Window * Second <= call.now
  <2>1. 2 * Window * Second \in Int
    BY <1>1
  <2> QED
    BY <1>1, <2>1 DEF Retention
<1> HIDE DEF s, at
<1>5. /\ Second * (s + 1) = Second * s + Second
      /\ Second * (s + Window + 1) = Second * s + Second * Window + Second
      /\ 2 * Window * Second = Second * Window + Second * Window
      /\ Second * s \in Int /\ Second * Window \in Int
  BY <1>1
<1>6. ticks - MaxWait >= Second * (s + Window + 1)
  BY <1>1, <1>2, <1>3, <1>4, <1>5
<1> QED
  BY <1>2, <1>6 DEF Stale, s

(* The memory after the entries past their retention have gone: entries it *)
(* had before, and all that are within the retention.                      *)
LEMMA RetainedFacts ==
    ASSUME CallbackInv, NEW t \in Int
    PROVE  /\ Retained(t) \in Seq(Entries)
           /\ \A i \in DOMAIN Retained(t) : \E j \in DOMAIN window : Retained(t)[i] = window[j]
           /\ \A j \in DOMAIN window : window[j].at > t - Retention
                 => \E i \in DOMAIN Retained(t) : Retained(t)[i] = window[j]
           /\ Len(Retained(t)) <= Len(window)
<1> DEFINE live == {i \in DOMAIN window : window[i].at > t - Retention}
           n == Len(window)
<1>1. window \in Seq(Entries) /\ n \in Nat /\ DOMAIN window = 1..n /\ \A i \in 1..n : window[i] \in Entries
  BY LenProperties, ElementOfSeq DEF CallbackInv, CallbackTypes
<1>2. Retained(t) = IF live = {} THEN <<>> ELSE SubSeq(window, Min(live), n)
  BY DEF Retained
<1>3. CASE live = {}
  <2>1. Retained(t) = <<>>
    BY <1>2, <1>3
  <2>2. Len(Retained(t)) = 0 /\ Retained(t) \in Seq(Entries) /\ DOMAIN Retained(t) = {}
    BY <2>1
  <2> QED
    BY <1>1, <1>3, <2>2
<1>4. CASE live # {}
  <2> DEFINE m == Min(live)
             w == SubSeq(window, m, n)
  <2>1. live \in SUBSET Nat
    BY <1>1
  <2>2. m \in live /\ \A j \in live : m <= j
    <3> HIDE DEF live
    <3> QED
      BY <1>4, <2>1, LeastNumber
  <2>3. m \in 1..n /\ m \in Int /\ n \in Int
    BY <1>1, <2>2
  <2> HIDE DEF m, live
  <2>4. \A i \in m..n : window[i] \in Entries
    BY <1>1, <2>3
  <2>5. /\ w \in Seq(Entries) /\ Len(w) = n - m + 1
        /\ \A i \in 1..(n - m + 1) : w[i] = window[m + i - 1]
    <3> HIDE DEF n
    <3> QED
      BY <2>3, <2>4, SubSeqProperties
  <2>6. DOMAIN w = 1..(n - m + 1)
    <3> HIDE DEF w
    <3> QED
      BY <2>5, LenProperties
  <2>7. \A i \in DOMAIN w : \E j \in DOMAIN window : w[i] = window[j]
    <3> SUFFICES ASSUME NEW i \in 1..(n - m + 1)
                 PROVE  \E j \in 1..n : w[i] = window[j]
      BY <1>1, <2>6
    <3>1. m + i - 1 \in 1..n
      BY <1>1, <2>3
    <3> QED
      BY <2>5, <3>1
  <2>8. \A j \in live : \E i \in DOMAIN w : w[i] = window[j]
    <3> SUFFICES ASSUME NEW j \in live
                 PROVE  \E i \in 1..(n - m + 1) : w[i] = window[j]
      BY <2>6
    <3>1. j \in 1..n /\ m <= j
      BY <1>1, <2>2 DEF live
    <3>2. j - m + 1 \in 1..(n - m + 1) /\ m + (j - m + 1) - 1 = j
      BY <1>1, <2>3, <3>1
    <3> QED
      BY <2>5, <3>2
  <2>9. Retained(t) = w
    BY <1>2, <1>4 DEF m
  <2>10. Len(w) <= n
    BY <1>1, <2>3, <2>5
  <2> QED
    BY <2>5, <2>7, <2>8, <2>9, <2>10 DEF live
<1> QED
  BY <1>3, <1>4

(* What an eviction keeps.                                                 *)
LEMMA KeptFacts ==
    ASSUME NEW w \in Seq(Entries)
    PROVE  LET kept == SubSeq(w, Surplus(w) + 1, Len(w))
           IN  /\ kept \in Seq(Entries)
               /\ \A i \in DOMAIN kept : \E j \in DOMAIN w : kept[i] = w[j]
               /\ Len(kept) + 1 <= NonceCap
<1> DEFINE n == Len(w)
           m == Surplus(w) + 1
           kept == SubSeq(w, m, n)
<1>1. n \in Nat /\ DOMAIN w = 1..n /\ \A i \in 1..n : w[i] \in Entries
  BY LenProperties, ElementOfSeq
<1>2. m \in Int /\ m >= 1 /\ n - m + 2 <= NonceCap
  <2>1. n - NonceCap + 1 \in Int
    BY <1>1, CallbackGuardAssumptions
  <2>2. Surplus(w) = IF 0 >= n - NonceCap + 1 THEN 0 ELSE n - NonceCap + 1
    BY <2>1, MaxOfTwo DEF Surplus
  <2>3. NonceCap \in Nat \ {0}
    BY CallbackGuardAssumptions
  <2> HIDE DEF n
  <2> QED
    BY <1>1, <2>1, <2>2, <2>3
<1> HIDE DEF m
<1>3. \A i \in m..n : w[i] \in Entries
  BY <1>1, <1>2
<1>4. /\ kept \in Seq(Entries) /\ Len(kept) = IF m <= n THEN n - m + 1 ELSE 0
      /\ \A i \in 1..(n - m + 1) : kept[i] = w[m + i - 1]
  <2> HIDE DEF n
  <2> QED
    BY <1>1, <1>2, <1>3, SubSeqProperties
<1>5. \A i \in DOMAIN kept : \E j \in DOMAIN w : kept[i] = w[j]
  <2> SUFFICES ASSUME NEW i \in DOMAIN kept
               PROVE  \E j \in 1..n : kept[i] = w[j]
    BY <1>1
  <2>1. i \in 1..Len(kept)
    <3> HIDE DEF kept
    <3> QED
      BY <1>4, LenProperties
  <2>2. i \in 1..(n - m + 1) /\ m + i - 1 \in 1..n
    BY <1>1, <1>2, <1>4, <2>1
  <2> QED
    BY <1>4, <2>2
<1>6. Len(kept) + 1 <= NonceCap
  <2>1. NonceCap \in Nat \ {0}
    BY CallbackGuardAssumptions
  <2> HIDE DEF n, kept
  <2> QED
    BY <1>1, <1>2, <1>4, <2>1
<1> QED
  BY <1>4, <1>5, <1>6 DEF m

LEMMA SignInvStep ==
    ASSUME CallbackInv, NEW n \in CallbackNonces, NEW skew \in (0 - MaxLead)..MaxLead, Sign(n, skew)
    PROVE  CallbackInv'
<1> USE CallbackGuardAssumptions
<1> DEFINE s == Unix(ticks) + skew
<1>0. ticks \in Int /\ ticks >= 0 /\ Unix(ticks) \in Int /\ MaxLead \in Nat /\ skew \in Int
  BY Seconds DEF CallbackInv, CallbackTypes
<1>1. s \in Int /\ s # Unsigned
  <2>1. Unix(ticks) >= 0
    BY <1>0 DEF Unix
  <2> QED
    BY <1>0, <2>1 DEF Unsigned
<1>2. /\ signed' = [signed EXCEPT ![n] = s] /\ signed[n] = Unsigned
      /\ UNCHANGED <<ticks, flying, window, accepted, ahead, forgotten, legacy>>
  BY DEF Sign
<1> HIDE DEF s
<1>3. CallbackTypes'
  BY <1>1, <1>2 DEF CallbackInv, CallbackTypes
<1>4. \A m \in CallbackNonces : m # n => signed'[m] = signed[m]
  BY <1>2 DEF CallbackInv, CallbackTypes
<1>5. FlyingInv'
  <2> SUFFICES ASSUME NEW call \in flying
               PROVE  /\ signed'[call.nonce] # Unsigned
                      /\ Fresh(signed[call.nonce], call.now)'
                      /\ call.now <= ticks
                      /\ ticks - call.now <= MaxWait
    BY <1>2 DEF FlyingInv, Unsigned
  <2>1. call.nonce \in CallbackNonces /\ call.nonce # n
    BY <1>2 DEF CallbackInv, CallbackTypes, Calls, FlyingInv
  <2>2. signed'[call.nonce] = signed[call.nonce]
    BY <1>4, <2>1
  <2> QED
    BY <2>2 DEF CallbackInv, FlyingInv, Fresh, Unix
<1>6. WindowInv'
  <2> SUFFICES ASSUME NEW i \in DOMAIN window
               PROVE  /\ signed'[window[i].nonce] # Unsigned
                      /\ Promised(window[i].nonce) => Covered(signed'[window[i].nonce], window[i].at)
    BY <1>2 DEF WindowInv, Promised, Unsigned, Covered
  <2>1. window[i] \in Entries /\ window[i].nonce # n
    BY <1>2 DEF CallbackInv, CallbackTypes, WindowInv
  <2>2. signed'[window[i].nonce] = signed[window[i].nonce]
    BY <1>4, <2>1 DEF Entries
  <2> QED
    BY <2>2 DEF CallbackInv, WindowInv
<1>7. AcceptedInv'
  <2>1. accepted[n] = 0
    BY <1>2 DEF CallbackInv, AcceptedInv
  <2> QED
    BY <1>2, <1>4, <2>1 DEF CallbackInv, AcceptedInv, Stale, NoncesOf, Unsigned, Promised
<1> QED
  BY <1>3, <1>5, <1>6, <1>7 DEF CallbackInv

LEMMA VerifyInv ==
    ASSUME CallbackInv, NEW n \in CallbackNonces, Verify(n)
    PROVE  CallbackInv'
<1> DEFINE new == [nonce |-> n, now |-> ticks]
<1>1. /\ signed[n] # Unsigned /\ Fresh(signed[n], ticks) /\ flying' = flying \cup {new}
      /\ UNCHANGED <<ticks, signed, window, accepted, ahead, forgotten, legacy>>
  BY DEF Verify
<1>2. new \in Calls /\ new.nonce = n /\ new.now = ticks /\ ticks \in Nat
  BY CallbackGuardAssumptions DEF CallbackInv, CallbackTypes, Calls
<1> HIDE DEF new
<1>3. CallbackTypes'
  BY <1>1, <1>2 DEF CallbackInv, CallbackTypes
<1>4. FlyingInv'
  <2>1. /\ signed[new.nonce] # Unsigned /\ Fresh(signed[new.nonce], new.now)
        /\ new.now <= ticks /\ ticks - new.now <= MaxWait
    BY <1>1, <1>2, CallbackGuardAssumptions
  <2> QED
    BY <1>1, <2>1 DEF CallbackInv, FlyingInv, Fresh, Unsigned, Unix
<1>5. WindowInv' /\ AcceptedInv'
  BY <1>1 DEF CallbackInv, WindowInv, AcceptedInv, Stale, NoncesOf, Promised, Covered, Unsigned
<1> QED
  BY <1>3, <1>4, <1>5 DEF CallbackInv

(* An accepted nonce is still remembered when the entries past their       *)
(* retention have gone, or it is stale.                                    *)
LEMMA RememberedOrStale ==
    ASSUME CallbackInv, NEW call \in flying, NEW n \in CallbackNonces,
           accepted[n] # 0, Promised(n)
    PROVE  accepted[n] = 1 /\ (n \in NoncesOf(Retained(call.now)) \/ Stale(n))
<1>1. call.now \in Int
  BY DEF CallbackInv, CallbackTypes, Calls
<1>2. accepted[n] = 1 /\ (n \in NoncesOf(window) \/ Stale(n))
  BY DEF CallbackInv, AcceptedInv
<1>3. ASSUME NEW j \in DOMAIN window, window[j].nonce = n
      PROVE  n \in NoncesOf(Retained(call.now)) \/ Stale(n)
  <2>1. CASE window[j].at > call.now - Retention
    <3>1. PICK i \in DOMAIN Retained(call.now) : Retained(call.now)[i] = window[j]
      BY <1>1, <2>1, RetainedFacts
    <3> QED
      BY <1>3, <3>1 DEF NoncesOf
  <2>2. CASE ~(window[j].at > call.now - Retention)
    BY <1>3, <2>2, DroppedIsStale
  <2> QED
    BY <2>1, <2>2
<1> QED
  BY <1>2, <1>3 DEF NoncesOf

LEMMA AdmitInv ==
    ASSUME CallbackInv, NEW call \in flying, Admit(call)
    PROVE  CallbackInv'
<1> USE CallbackGuardAssumptions
<1> DEFINE w == Retained(call.now)
           kept == SubSeq(w, Surplus(w) + 1, Len(w))
           n == call.nonce
           new == [nonce |-> n, at |-> call.now]
<1>1. /\ call \in Calls /\ n \in CallbackNonces /\ call.now \in 0..MaxTicks /\ call.now \in Int
      /\ signed[n] # Unsigned
  BY DEF CallbackInv, CallbackTypes, Calls, FlyingInv
<1>2. flying' = flying \ {call} /\ UNCHANGED <<ticks, signed, legacy>>
  BY DEF Admit
<1>3. /\ w \in Seq(Entries)
      /\ \A i \in DOMAIN w : \E j \in DOMAIN window : w[i] = window[j]
  BY <1>1, RetainedFacts
<1>4. \A i \in DOMAIN w : /\ signed[w[i].nonce] # Unsigned
                          /\ Promised(w[i].nonce) => Covered(signed[w[i].nonce], w[i].at)
  BY <1>3 DEF CallbackInv, WindowInv
<1>5. FlyingInv'
  BY <1>2 DEF CallbackInv, FlyingInv, Fresh, Unsigned, Unix
<1>6. CASE n \in NoncesOf(w)
  <2>1. window' = w /\ UNCHANGED <<accepted, ahead, forgotten>>
    BY <1>6 DEF Admit
  <2> HIDE DEF w
  <2>2. CallbackTypes'
    BY <1>2, <1>3, <2>1 DEF CallbackInv, CallbackTypes
  <2>3. WindowInv'
    BY <1>2, <1>4, <2>1 DEF WindowInv, Promised, Covered, Unsigned
  <2>4. AcceptedInv'
    <3> SUFFICES ASSUME NEW m \in CallbackNonces, accepted[m] # 0
                 PROVE  /\ signed[m] # Unsigned
                        /\ Promised(m) => accepted[m] = 1 /\ (m \in NoncesOf(w) \/ Stale(m))
      BY <1>2, <2>1 DEF AcceptedInv, Stale, NoncesOf, Promised, Unsigned
    <3> QED
      BY RememberedOrStale DEF CallbackInv, AcceptedInv, w
  <2> QED
    BY <1>5, <2>2, <2>3, <2>4 DEF CallbackInv
<1>7. CASE n \notin NoncesOf(w)
  <2>1. /\ window' = Append(kept, new)
        /\ accepted' = [accepted EXCEPT ![n] = Min({accepted[n] + 1, 2})]
        /\ ahead' = IF accepted[n] # 0 \/ Covered(signed[n], call.now) THEN ahead ELSE ahead \cup {n}
        /\ forgotten' = forgotten \cup (NoncesOf(w) \ NoncesOf(kept))
    BY <1>7 DEF Admit
  <2>2. kept \in Seq(Entries) /\ \A i \in DOMAIN kept : \E j \in DOMAIN w : kept[i] = w[j]
    <3> HIDE DEF w
    <3> QED
      BY <1>3, KeptFacts
  <2>3. new \in Entries /\ new.nonce = n /\ new.at = call.now
    BY <1>1 DEF Entries
  <2> HIDE DEF w, kept, new
  <2>4. /\ window' \in Seq(Entries) /\ Len(kept) \in Nat
        /\ DOMAIN kept = 1..Len(kept) /\ DOMAIN window' = 1..(Len(kept) + 1)
        /\ \A i \in 1..Len(kept) : window'[i] = kept[i]
        /\ window'[Len(kept) + 1] = new
    BY <2>1, <2>2, <2>3, AppendProperties, LenProperties
  <2>5. \A i \in DOMAIN window' : i \in DOMAIN kept \/ i = Len(kept) + 1
    BY <2>4
  <2>6. NoncesOf(window') = NoncesOf(kept) \cup {n}
    <3>1. \A i \in DOMAIN window' : window'[i].nonce \in NoncesOf(kept) \cup {n}
      BY <2>3, <2>4, <2>5 DEF NoncesOf
    <3>2. \A i \in DOMAIN kept : i \in DOMAIN window' /\ kept[i].nonce = window'[i].nonce
      BY <2>4
    <3>3. Len(kept) + 1 \in DOMAIN window' /\ window'[Len(kept) + 1].nonce = n
      BY <2>3, <2>4
    <3> QED
      BY <3>1, <3>2, <3>3 DEF NoncesOf
  <2>7. accepted[n] \in 0..2 /\ Min({accepted[n] + 1, 2}) \in 0..2 /\ (accepted[n] = 0 => Min({accepted[n] + 1, 2}) = 1)
        /\ Min({accepted[n] + 1, 2}) # 0
    <3>1. accepted[n] \in 0..2
      BY <1>1 DEF CallbackInv, CallbackTypes
    <3>2. Min({accepted[n] + 1, 2}) = IF accepted[n] + 1 <= 2 THEN accepted[n] + 1 ELSE 2
      BY <3>1, MinOfTwo
    <3> QED
      BY <3>1, <3>2
  <2>8. NoncesOf(w) \subseteq CallbackNonces
    <3>1. \A i \in DOMAIN w : w[i] \in Entries
      BY <1>3
    <3> QED
      BY <3>1 DEF NoncesOf, Entries
  <2>9. CallbackTypes'
    <3>1. ahead' \subseteq CallbackNonces
      BY <1>1, <2>1 DEF CallbackInv, CallbackTypes
    <3>2. accepted' \in [CallbackNonces -> 0..2]
      BY <2>1, <2>7 DEF CallbackInv, CallbackTypes
    <3> QED
      BY <1>2, <2>1, <2>4, <2>8, <3>1, <3>2 DEF CallbackInv, CallbackTypes
  <2>10. Promised(n) => accepted[n] = 0
    BY <1>1, <1>7, RememberedOrStale, FlyingNotStale DEF w
  <2>11. \A m \in CallbackNonces : Promised(m)' => Promised(m)
    BY <2>1 DEF Promised
  <2>12. WindowInv'
    <3> SUFFICES ASSUME NEW i \in DOMAIN window'
                 PROVE  /\ signed[window'[i].nonce] # Unsigned
                        /\ window'[i].nonce \notin forgotten' \cup ahead' => Covered(signed[window'[i].nonce], window'[i].at)
      BY <1>2 DEF WindowInv, Promised, Covered, Unsigned
    <3>1. CASE i \in DOMAIN kept
      <4>1. PICK j \in DOMAIN w : window'[i] = w[j]
        BY <2>2, <2>4, <3>1
      <4>2. w[j].nonce \in CallbackNonces
        BY <2>8, <4>1 DEF NoncesOf
      <4>3. window'[i].nonce \notin forgotten' \cup ahead' => Promised(w[j].nonce)
        BY <2>1, <4>1, <4>2 DEF Promised
      <4> QED
        BY <1>4, <4>1, <4>3
    <3>2. CASE i = Len(kept) + 1
      <4>1. window'[i].nonce = n /\ window'[i].at = call.now
        BY <2>3, <2>4, <3>2
      <4>2. ASSUME window'[i].nonce \notin forgotten' \cup ahead' PROVE Covered(signed[n], call.now)
        <5>1. n \notin ahead' /\ n \notin forgotten'
          BY <4>1, <4>2 DEF Promised
        <5>2. accepted[n] = 0
          BY <1>1, <2>1, <2>10, <5>1 DEF Promised
        <5> QED
          BY <2>1, <5>1, <5>2
      <4> QED
        BY <1>1, <4>1, <4>2
    <3> QED
      BY <2>5, <3>1, <3>2
  <2>13. AcceptedInv'
    <3> SUFFICES ASSUME NEW m \in CallbackNonces, accepted'[m] # 0
                 PROVE  /\ signed[m] # Unsigned
                        /\ Promised(m)' => accepted'[m] = 1 /\ (m \in NoncesOf(window') \/ Stale(m))
      BY <1>2 DEF AcceptedInv, Stale, NoncesOf, Unsigned
    <3>1. CASE m = n
      BY <1>1, <2>1, <2>6, <2>7, <2>10, <2>11, <3>1 DEF CallbackInv, CallbackTypes
    <3>2. CASE m # n
      <4>1. accepted'[m] = accepted[m]
        BY <2>1, <3>2 DEF CallbackInv, CallbackTypes
      <4>2. signed[m] # Unsigned
        BY <4>1 DEF CallbackInv, AcceptedInv
      <4>3. Promised(m) => accepted[m] = 1 /\ (m \in NoncesOf(w) \/ Stale(m))
        BY <4>1, RememberedOrStale DEF w
      <4> QED
        <5>1. Promised(m)' /\ m \in NoncesOf(w) => m \in NoncesOf(kept)
          BY <2>1 DEF Promised
        <5> QED
          BY <2>6, <2>11, <4>1, <4>2, <4>3, <5>1
    <3> QED
      BY <3>1, <3>2
  <2> QED
    BY <1>5, <2>9, <2>12, <2>13 DEF CallbackInv
<1> QED
  BY <1>6, <1>7

LEMMA CallbackTickInv ==
    ASSUME CallbackInv, CallbackTick
    PROVE  CallbackInv'
<1> USE CallbackGuardAssumptions
<1>1. /\ ticks' = ticks + 1 /\ ticks' \in 0..MaxTicks /\ ticks \in 0..MaxTicks
      /\ \A call \in flying : ticks - call.now < MaxWait
      /\ UNCHANGED <<signed, flying, window, accepted, ahead, forgotten>>
  BY DEF CallbackTick, Elapsed, CallbackInv, CallbackTypes
<1>2. CallbackTypes'
  BY <1>1 DEF CallbackInv, CallbackTypes
<1>3. ASSUME NEW n \in CallbackNonces
      PROVE  Second * (signed[n] + Window + 1) \in Int
  <2>1. signed[n] + Window + 1 \in Int
    BY DEF CallbackInv, CallbackTypes
  <2> QED
    BY <2>1, SecondsGrow
<1>4. FlyingInv'
  <2>1. \A call \in flying : call.now \in Int
    BY DEF CallbackInv, CallbackTypes, Calls
  <2> QED
    BY <1>1, <2>1 DEF CallbackInv, FlyingInv, Fresh, Unsigned, Unix
<1>5. WindowInv'
  BY <1>1 DEF CallbackInv, WindowInv, Promised, Covered, Unsigned
<1>6. AcceptedInv'
  BY <1>1, <1>3 DEF CallbackInv, AcceptedInv, Stale, NoncesOf, Promised, Unsigned
<1> QED
  BY <1>2, <1>4, <1>5, <1>6 DEF CallbackInv

(* The invariant holds for every order in which calls arrive and take the  *)
(* lock.                                                                   *)
THEOREM CallbackInvariant == CallbackSpec => []CallbackInv
<1>1. ASSUME CallbackInv, [CallbackNext]_callbackVars
      PROVE  CallbackInv'
  <2>1. ASSUME LegacyCallback \/ UNCHANGED callbackVars
        PROVE  CallbackInv'
    <3>1. UNCHANGED <<ticks, signed, flying, window, accepted, ahead, forgotten>>
      BY <2>1 DEF LegacyCallback, callbackVars
    <3>2. CallbackTypes'
      BY <1>1, <3>1 DEF CallbackInv, CallbackTypes
    <3>3. FlyingInv' /\ WindowInv' /\ AcceptedInv'
      BY <1>1, <3>1 DEF CallbackInv, FlyingInv, WindowInv, AcceptedInv, Promised, Covered, Fresh, Stale, NoncesOf,
                        Unsigned, Unix
    <3> QED
      BY <3>2, <3>3 DEF CallbackInv
  <2> QED
    BY <1>1, <2>1, SignInvStep, VerifyInv, AdmitInv, CallbackTickInv DEF CallbackNext
<1> QED
  BY <1>1, CallbackInitInv, PTL DEF CallbackSpec

(* A callback is accepted at most once, unless its nonce was evicted from  *)
(* a full memory or its timestamp was too far ahead for the retention      *)
(* (Covered): for every window, every size of the memory, every skew and   *)
(* every wait for the lock (VerifyBattleCallback).                         *)
THEOREM CallbacksCountOnce == CallbackSpec => []AcceptedOnce
<1>1. ASSUME CallbackInv
      PROVE  AcceptedOnce
  BY <1>1 DEF CallbackInv, CallbackTypes, AcceptedInv, AcceptedOnce, Promised
<1> QED
  BY <1>1, CallbackInvariant, PTL

MemoryTypes ==
    /\ signed \in [CallbackNonces -> Unsigned..(Unix(MaxTicks) + MaxLead)]
    /\ Len(window) <= NonceCap
    /\ legacy \in 0..MaxLegacy

LEMMA SignTypes ==
    ASSUME CallbackInv, MemoryTypes, NEW n \in CallbackNonces, NEW skew \in (0 - MaxLead)..MaxLead, Sign(n, skew)
    PROVE  MemoryTypes'
<1> DEFINE s == Unix(ticks) + skew
<1>1. /\ MaxLead \in Nat /\ MaxTicks \in Nat /\ Second \in Nat \ {0}
      /\ ticks \in 0..MaxTicks /\ ticks \in Int /\ skew \in Int
  BY CallbackGuardAssumptions DEF CallbackInv, CallbackTypes
<1>2. /\ Unix(ticks) \in Int /\ Unix(MaxTicks) \in Int
      /\ Unix(ticks) >= 0 /\ Unix(ticks) <= Unix(MaxTicks)
  <2>1. /\ Unix(ticks) \in Int /\ Second * Unix(ticks) <= ticks /\ ticks < Second * (Unix(ticks) + 1)
        /\ Unix(MaxTicks) \in Int /\ Second * Unix(MaxTicks) <= MaxTicks /\ MaxTicks < Second * (Unix(MaxTicks) + 1)
    BY <1>1, Seconds
  <2>2. Second * Unix(ticks) < Second * (Unix(MaxTicks) + 1) /\ Second * 0 < Second * (Unix(ticks) + 1)
    <3>1. Second * Unix(ticks) \in Int /\ Second * (Unix(MaxTicks) + 1) \in Int /\ Second * 0 = 0 /\ Second * (Unix(ticks) + 1) \in Int
      BY <1>1, <2>1
    <3> QED
      BY <1>1, <2>1, <3>1
  <2>3. Unix(ticks) < Unix(MaxTicks) + 1 /\ 0 < Unix(ticks) + 1
    <3>1. Unix(ticks) \in Int /\ Unix(MaxTicks) + 1 \in Int /\ Unix(ticks) + 1 \in Int /\ 0 \in Int
      BY <2>1
    <3> QED
      BY <2>2, <3>1, SecondsGrow
  <2> QED
    BY <2>1, <2>3
<1>3. s \in Unsigned..(Unix(MaxTicks) + MaxLead)
  BY <1>1, <1>2 DEF Unsigned
<1>4. signed' = [signed EXCEPT ![n] = s] /\ UNCHANGED <<window, legacy>>
  BY DEF Sign
<1> HIDE DEF s
<1> QED
  BY <1>3, <1>4 DEF MemoryTypes, Unsigned, Unix

LEMMA AdmitTypes ==
    ASSUME CallbackInv, MemoryTypes, NEW call \in flying, Admit(call)
    PROVE  MemoryTypes'
<1> DEFINE w == Retained(call.now)
           kept == SubSeq(w, Surplus(w) + 1, Len(w))
           new == [nonce |-> call.nonce, at |-> call.now]
<1>1. call \in Calls /\ call.now \in Int /\ new \in Entries
  BY CallbackGuardAssumptions DEF CallbackInv, CallbackTypes, Calls, Entries
<1>2. w \in Seq(Entries) /\ Len(w) <= Len(window)
  BY <1>1, RetainedFacts
<1>3. kept \in Seq(Entries) /\ Len(kept) + 1 <= NonceCap
  <2> HIDE DEF w
  <2> QED
    BY <1>2, KeptFacts
<1>4. (window' = w \/ window' = Append(kept, new)) /\ UNCHANGED <<signed, legacy>>
  BY DEF Admit
<1> HIDE DEF w, kept, new
<1>5. Len(Append(kept, new)) = Len(kept) + 1 /\ Len(kept) \in Nat /\ Len(w) \in Nat
  BY <1>1, <1>2, <1>3, AppendProperties, LenProperties
<1>6. Len(window) \in Nat /\ NonceCap \in Nat /\ Len(window) <= NonceCap
  BY CallbackGuardAssumptions, LenProperties DEF CallbackInv, CallbackTypes, MemoryTypes
<1>7. Len(window') <= NonceCap
  BY <1>2, <1>3, <1>4, <1>5, <1>6
<1> QED
  BY <1>4, <1>7 DEF MemoryTypes, Unsigned, Unix

(* The memory of nonces stays within its bound, whatever the callbacks are *)
(* and however they overlap (allowBattleCallbackNonceLocked).              *)
THEOREM CallbackMemoryIsBounded == CallbackSpec => []CallbackTypeOK
<1>1. CallbackInit => MemoryTypes
  <2>1. /\ Unsigned \in Unsigned..(Unix(MaxTicks) + MaxLead)
        /\ 0 \in 0..MaxLegacy /\ NonceCap \in Nat
    <3>1. MaxLead \in Nat /\ MaxTicks \in Int /\ MaxTicks >= 0 /\ Second \in Nat \ {0} /\ MaxLegacy \in Nat /\ NonceCap \in Nat
      BY CallbackGuardAssumptions
    <3>2. Unix(MaxTicks) \in Int /\ Unix(MaxTicks) >= 0
      BY <3>1, Seconds DEF Unix
    <3> QED
      BY <3>1, <3>2 DEF Unsigned
  <2>2. CallbackInit => Len(window) = 0
    BY DEF CallbackInit
  <2>3. CallbackInit => Len(window) <= NonceCap
    BY <2>1, <2>2
  <2> QED
    BY <2>1, <2>3 DEF CallbackInit, MemoryTypes
<1>2. ASSUME CallbackInv, MemoryTypes, [CallbackNext]_callbackVars PROVE MemoryTypes'
  <2>1. CASE LegacyCallback
    <3>1. legacy \in 0..MaxLegacy /\ legacy < MaxLegacy /\ legacy' = legacy + 1 /\ MaxLegacy \in Nat
      BY <1>2, <2>1, CallbackGuardAssumptions DEF MemoryTypes, LegacyCallback
    <3>2. legacy' \in 0..MaxLegacy /\ UNCHANGED <<signed, window>>
      BY <2>1, <3>1 DEF LegacyCallback
    <3> QED
      BY <1>2, <3>2 DEF MemoryTypes, Unsigned, Unix
  <2>2. ASSUME NEW n \in CallbackNonces, Verify(n) PROVE MemoryTypes'
    BY <1>2, <2>2 DEF Verify, MemoryTypes, Unsigned, Unix
  <2>3. CASE CallbackTick \/ UNCHANGED callbackVars
    BY <1>2, <2>3 DEF CallbackTick, callbackVars, MemoryTypes, Unsigned, Unix
  <2> QED
    BY <1>2, <2>1, <2>2, <2>3, SignTypes, AdmitTypes DEF CallbackNext
<1>3. CallbackInv /\ MemoryTypes => CallbackTypeOK
  BY DEF CallbackInv, CallbackTypes, Calls, Entries, MemoryTypes, CallbackTypeOK
<1> QED
  BY <1>1, <1>2, <1>3, CallbackInvariant, PTL DEF CallbackSpec

-----------------------------------------------------------------------------
(* Sessions, for any sets of users, tokens and connections and any number  *)
(* of sign-ins.                                                            *)

(* A user who carries a token has signed in with it, and core knows him.   *)
CarriedInv ==
    \A u \in Players : tokenOf[u] # NoToken => u \in signers[tokenOf[u]] /\ u \in known

(* A read goroutine inside handleAuth has a token to work with.            *)
AuthInv ==
    \A c \in Conns : /\ stage[c] \in {"login", "bootstrap", "register"} => auth[c] \in Tokens
                     /\ stage[c] = "login" => signing[c] \in Players

(* The parts of OneSession.                                                *)
HolderInv == \A t \in Tokens, u \in Players : holder[t] = u => tokenOf[u] = t
KeptInv ==
    \A t \in Tokens, u \in Players : tokenOf[u] = t /\ signers[t] = {u} => holder[t] = u
IndexInv ==
    \A c \in Conns : link[c].st = "open" /\ link[c].token # NoToken /\ ~Leaving(c)
                        => index[link[c].token] = c

CoreInv == CarriedInv /\ HolderInv /\ KeptInv
SessInv == SessTypeOK /\ AuthInv /\ CoreInv /\ IndexInv

LEMMA SessInitInv == SessInit => SessInv
BY SessionsAssumptions
   DEF SessInit, SessInv, SessTypeOK, AuthInv, CoreInv, CarriedInv, HolderInv, KeptInv, IndexInv, Free, Leaving

-----------------------------------------------------------------------------
(* What the steps of core leave of the connections, and the other way      *)
(* round.                                                                  *)
LEMMA SameServer ==
    ASSUME IndexInv, UNCHANGED <<server, evicts>>
    PROVE  IndexInv'
BY DEF IndexInv, Leaving, server

LEMMA SameCore ==
    ASSUME CoreInv, UNCHANGED core
    PROVE  CoreInv'
BY DEF CoreInv, CarriedInv, HolderInv, KeptInv, core

(* A sign-in, with whatever token: the user gave up the only one that      *)
(* resolved to him, and took none from a user who alone has signed in with *)
(* his (CarriedInv).                                                       *)
LEMMA LoginCore ==
    ASSUME SessInv, NEW u \in Players, NEW t \in Tokens, NEW by, Login(u, t, by)
    PROVE  CoreInv'
<1> USE SessionsAssumptions DEF SessInv, SessTypeOK
<1>1. /\ tokenOf'[u] = t /\ \A v \in Players \ {u} : tokenOf'[v] = tokenOf[v]
      /\ signers'[t] = signers[t] \cup {u} /\ \A x \in Tokens \ {t} : signers'[x] = signers[x]
      /\ holder'[t] = u
      /\ \A x \in Tokens \ {t} : holder'[x] = IF x = tokenOf[u] THEN Nobody ELSE holder[x]
      /\ known' = known \cup {u}
  BY DEF Login
<1>2. CarriedInv'
  <2> SUFFICES ASSUME NEW v \in Players, tokenOf'[v] # NoToken
               PROVE  v \in signers'[tokenOf'[v]] /\ v \in known'
    BY DEF CarriedInv
  <2>1. CASE v = u
    BY <1>1, <2>1
  <2>2. CASE v # u
    <3>1. tokenOf'[v] = tokenOf[v] /\ tokenOf[v] \in Tokens
      BY <1>1, <2>2
    <3>2. v \in signers[tokenOf[v]] /\ v \in known
      BY <3>1 DEF CoreInv, CarriedInv
    <3> QED
      BY <1>1, <3>1, <3>2
  <2> QED
    BY <2>1, <2>2
<1>3. HolderInv'
  <2> SUFFICES ASSUME NEW x \in Tokens, NEW v \in Players, holder'[x] = v
               PROVE  tokenOf'[v] = x
    BY DEF HolderInv
  <2>1. CASE x = t
    BY <1>1, <2>1
  <2>2. CASE x # t
    <3>1. x # tokenOf[u] /\ holder[x] = v
      BY <1>1, <2>2
    <3>2. tokenOf[v] = x
      BY <3>1 DEF CoreInv, HolderInv
    <3> QED
      BY <1>1, <3>1, <3>2
  <2> QED
    BY <2>1, <2>2
<1>4. KeptInv'
  <2> SUFFICES ASSUME NEW x \in Tokens, NEW v \in Players, tokenOf'[v] = x, signers'[x] = {v}
               PROVE  holder'[x] = v
    BY DEF KeptInv
  <2>1. CASE x = t
    <3>1. u \in signers'[x]
      BY <1>1, <2>1
    <3> QED
      BY <1>1, <2>1, <3>1
  <2>2. CASE x # t
    <3>1. v # u /\ tokenOf[v] = x /\ signers[x] = {v}
      BY <1>1, <2>2
    <3>2. tokenOf[u] # x
      BY <3>1 DEF CoreInv, CarriedInv
    <3>3. holder[x] = v
      BY <3>1 DEF CoreInv, KeptInv
    <3> QED
      BY <1>1, <2>2, <3>2, <3>3
  <2> QED
    BY <2>1, <2>2
<1> QED
  BY <1>2, <1>3, <1>4 DEF CoreInv

LEMMA LoginTypes ==
    ASSUME SessInv, NEW u \in Players, NEW t \in Tokens, NEW by \in Conns \cup {"http"}, Login(u, t, by)
    PROVE  /\ tokenOf' \in [Players -> Tokens \cup {NoToken}]
           /\ holder' \in [Tokens -> Players \cup {Nobody}]
           /\ known' \subseteq Players
           /\ signers' \in [Tokens -> SUBSET Players]
           /\ hooks' \subseteq [by : Conns \cup {"http"}, token : Tokens]
           /\ logins' \in 0..MaxLogins
BY SessionsAssumptions DEF Login, SessInv, SessTypeOK

LEMMA HttpLoginInv ==
    ASSUME SessInv, NEW u \in Players, NEW t \in Tokens, LoginExternal(u, t) \/ LoginAccount(u, t)
    PROVE  SessInv'
<1>1. /\ Login(u, t, "http")
      /\ UNCHANGED <<server, stage, auth, signing, evicts>>
  BY DEF LoginExternal, LoginAccount, handling
<1>2. SessTypeOK'
  BY <1>1, LoginTypes DEF SessInv, SessTypeOK, server
<1>3. CoreInv'
  BY <1>1, LoginCore
<1>4. AuthInv' /\ IndexInv'
  BY <1>1, SameServer DEF SessInv, AuthInv
<1> QED
  BY <1>2, <1>3, <1>4 DEF SessInv

LEMMA LoginAnonymousInv ==
    ASSUME SessInv, NEW u \in Players, NEW t \in Tokens, LoginAnonymous(u, t)
    PROVE  SessInv'
<1> USE SessionsAssumptions DEF SessInv, SessTypeOK
<1>1. SessTypeOK'
  BY DEF LoginAnonymous, server, handling
<1>2. tokenOf[u] = NoToken /\ \A v \in Players : tokenOf[v] # t
  BY DEF LoginAnonymous, NewToken, CoreInv, CarriedInv
<1>3. CarriedInv'
  BY <1>2 DEF LoginAnonymous, CoreInv, CarriedInv
<1>4. HolderInv'
  BY <1>2 DEF LoginAnonymous, CoreInv, HolderInv
<1>5. KeptInv'
  BY <1>2 DEF LoginAnonymous, CoreInv, KeptInv
<1>6. AuthInv' /\ IndexInv'
  BY SameServer DEF LoginAnonymous, AuthInv, handling
<1> QED
  BY <1>1, <1>3, <1>4, <1>5, <1>6 DEF CoreInv

LEMMA LogoutAccountInv ==
    ASSUME SessInv, NEW t \in Tokens, LogoutAccount(t)
    PROVE  SessInv'
<1> USE SessionsAssumptions DEF SessInv, SessTypeOK
<1>1. SessTypeOK'
  BY DEF LogoutAccount, server, handling
<1>2. CarriedInv'
  BY DEF LogoutAccount, CoreInv, CarriedInv
<1>3. HolderInv'
  BY DEF LogoutAccount, CoreInv, HolderInv
<1>4. KeptInv'
  BY DEF LogoutAccount, CoreInv, KeptInv
<1>5. AuthInv' /\ IndexInv'
  BY SameServer DEF LogoutAccount, AuthInv, handling
<1> QED
  BY <1>1, <1>2, <1>3, <1>4, <1>5 DEF CoreInv

-----------------------------------------------------------------------------
(* unregister removes the entry of the connection that closes and of no    *)
(* other, so the others are still found under their tokens.                *)
LEMMA CloseInv ==
    ASSUME SessInv, NEW c \in Conns, Close(c), evicts' \subseteq evicts,
           \A e \in evicts \ evicts' : e.conn = c
    PROVE  /\ link' \in [Conns -> [st : {"none", "open", "closed"}, token : Tokens \cup {NoToken}, told : BOOLEAN]]
           /\ index' \in [Tokens -> Conns \cup {NoConn}]
           /\ rooms' \subseteq Conns
           /\ IndexInv'
<1> USE SessionsAssumptions DEF SessInv, SessTypeOK
<1>1. CASE link[c].st # "open"
  <2>1. UNCHANGED <<link, index, rooms>>
    BY <1>1 DEF Close, server
  <2>2. ASSUME NEW d \in Conns, d # c
        PROVE  Leaving(d)' <=> Leaving(d)
    BY <2>1, <2>2 DEF Leaving
  <2> QED
    BY <1>1, <2>1, <2>2 DEF IndexInv
<1>2. CASE link[c].st = "open"
  <2>1. /\ link' = [link EXCEPT ![c].st = "closed"]
        /\ rooms' = rooms \ {c}
        /\ index' = [t \in Tokens |-> IF t = link[c].token /\ index[t] = c THEN NoConn ELSE index[t]]
    BY <1>2 DEF Close
  <2>2. ASSUME NEW d \in Conns, d # c
        PROVE  link'[d] = link[d] /\ (Leaving(d)' <=> Leaving(d))
    BY <2>1, <2>2 DEF Leaving
  <2>3. link'[c].st = "closed"
    BY <2>1
  <2>4. IndexInv'
    BY <2>1, <2>2, <2>3 DEF IndexInv
  <2> QED
    BY <2>1, <2>4
<1> QED
  BY <1>1, <1>2

LEMMA PumpClosesInv ==
    ASSUME SessInv, NEW c \in Conns, PumpCloses(c) \/ ReadEnds(c)
    PROVE  SessInv'
<1>1. Close(c) /\ UNCHANGED <<core, auth, signing, hooks, evicts>>
  BY DEF PumpCloses, ReadEnds, handling
<1>2. stage' = stage \/ stage' = [stage EXCEPT ![c] = "done"]
  BY DEF PumpCloses, ReadEnds, handling
<1>3. SessTypeOK'
  BY <1>1, <1>2, CloseInv DEF SessInv, SessTypeOK, core
<1>4. AuthInv'
  BY <1>1, <1>2 DEF SessInv, SessTypeOK, AuthInv
<1>5. IndexInv' /\ CoreInv'
  BY <1>1, CloseInv, SameCore DEF SessInv
<1> QED
  BY <1>3, <1>4, <1>5 DEF SessInv

LEMMA ConnectInv ==
    ASSUME SessInv, NEW c \in Conns, Connect(c)
    PROVE  SessInv'
<1> USE SessionsAssumptions DEF SessInv, SessTypeOK
<1>1. SessTypeOK' /\ AuthInv'
  <2>1. link' = [link EXCEPT ![c].st = "open"] /\ UNCHANGED <<core, index, rooms, handling, hooks, evicts>>
    BY DEF Connect
  <2>2. link' \in [Conns -> [st : {"none", "open", "closed"}, token : Tokens \cup {NoToken}, told : BOOLEAN]]
    BY <2>1
  <2>3. SessTypeOK'
    BY <2>1, <2>2 DEF core, handling
  <2>4. AuthInv'
    BY <2>1 DEF AuthInv, handling
  <2> QED
    BY <2>3, <2>4
<1>2. link'[c].token = NoToken /\ \A d \in Conns \ {c} : link'[d] = link[d]
  BY DEF Connect, Free
<1>3. IndexInv'
  BY <1>2 DEF Connect, IndexInv, Leaving
<1> QED
  BY <1>1, <1>3, SameCore DEF Connect

LEMMA AuthStepInv ==
    ASSUME SessInv, NEW c \in Conns,
           \/ \E t \in Tokens : AuthKnown(c, t)
           \/ \E u \in Players, t \in Tokens : AuthUnknown(c, u, t)
           \/ AuthBootstrap(c)
    PROVE  SessInv'
<1> USE SessionsAssumptions DEF SessInv, SessTypeOK
<1>1. UNCHANGED <<core, server, hooks, evicts>>
  BY DEF AuthKnown, AuthUnknown, AuthBootstrap
<1>2. SessTypeOK' /\ AuthInv'
  <2>1. ASSUME NEW t \in Tokens, AuthKnown(c, t) PROVE SessTypeOK' /\ AuthInv'
    <3>1. tokenOf[holder[t]] = t
      BY <2>1 DEF AuthKnown, CoreInv, HolderInv
    <3> QED
      BY <1>1, <2>1, <3>1 DEF AuthKnown, AuthInv, core, server
  <2>2. ASSUME NEW u \in Players, NEW t \in Tokens, AuthUnknown(c, u, t) PROVE SessTypeOK' /\ AuthInv'
    BY <1>1, <2>2 DEF AuthUnknown, AuthInv, core, server
  <2>3. CASE AuthBootstrap(c)
    <3>1. auth[c] \in Tokens /\ UNCHANGED signing
      BY <2>3 DEF AuthBootstrap, AuthInv
    <3>2. CASE holder[auth[c]] # Nobody
      <4>1. tokenOf[holder[auth[c]]] = auth[c]
        BY <3>1, <3>2 DEF CoreInv, HolderInv
      <4>2. stage' = [stage EXCEPT ![c] = "register"] /\ auth' = [auth EXCEPT ![c] = auth[c]]
        BY <2>3, <3>2, <4>1 DEF AuthBootstrap
      <4> QED
        BY <1>1, <3>1, <4>2 DEF AuthInv, core, server
    <3>3. CASE holder[auth[c]] = Nobody
      <4>1. stage' = [stage EXCEPT ![c] = "idle"] /\ auth' = [auth EXCEPT ![c] = NoToken]
        BY <2>3, <3>3 DEF AuthBootstrap
      <4> QED
        BY <1>1, <3>1, <4>1 DEF AuthInv, core, server
    <3> QED
      BY <3>2, <3>3
  <2> QED
    BY <2>1, <2>2, <2>3
<1> QED
  BY <1>1, <1>2, SameCore, SameServer

LEMMA AuthLoginInv ==
    ASSUME SessInv, NEW c \in Conns, AuthLogin(c)
    PROVE  SessInv'
<1>1. signing[c] \in Players /\ auth[c] \in Tokens
  BY DEF AuthLogin, SessInv, AuthInv
<1>2. /\ Login(signing[c], auth[c], c)
      /\ UNCHANGED <<server, auth, evicts>>
      /\ signing' = [signing EXCEPT ![c] = Nobody]
      /\ stage' = [stage EXCEPT ![c] = "bootstrap"]
  BY DEF AuthLogin
<1>3. SessTypeOK'
  BY <1>1, <1>2, LoginTypes DEF SessInv, SessTypeOK, server
<1>4. AuthInv'
  BY <1>1, <1>2 DEF SessInv, SessTypeOK, AuthInv
<1> QED
  BY <1>1, <1>2, <1>3, <1>4, LoginCore, SameServer DEF SessInv

(* Whoever was found under the token before is now being evicted.          *)
LEMMA RegisterSessionInv ==
    ASSUME SessInv, NEW c \in Conns, RegisterSession(c)
    PROVE  SessInv'
<1> USE SessionsAssumptions DEF SessInv, SessTypeOK
<1> DEFINE t == auth[c]
<1>1. t \in Tokens
  BY DEF RegisterSession, AuthInv
<1>2. /\ link' = [link EXCEPT ![c].token = t]
      /\ index' = [index EXCEPT ![t] = c]
      /\ evicts' = IF index[t] \in {NoConn, c} THEN evicts
                   ELSE evicts \cup {[by |-> c, conn |-> index[t]]}
      /\ stage' = [stage EXCEPT ![c] = "idle"]
      /\ auth' = [auth EXCEPT ![c] = NoToken]
      /\ UNCHANGED <<core, rooms, signing, hooks>>
  BY DEF RegisterSession
<1> HIDE DEF t
<1>3. index[t] \in Conns \cup {NoConn}
  BY <1>1
<1>4. evicts' \subseteq [by : Conns \cup {"http"}, conn : Conns]
  BY <1>2, <1>3
<1>5. SessTypeOK' /\ AuthInv'
  <2>1. link' \in [Conns -> [st : {"none", "open", "closed"}, token : Tokens \cup {NoToken}, told : BOOLEAN]]
    BY <1>1, <1>2
  <2>2. /\ index' \in [Tokens -> Conns \cup {NoConn}]
        /\ stage' \in [Conns -> {"idle", "login", "bootstrap", "register", "room", "done"}]
        /\ auth' \in [Conns -> Tokens \cup {NoToken}]
    BY <1>1, <1>2
  <2>3. SessTypeOK'
    BY <1>2, <1>4, <2>1, <2>2 DEF core
  <2>4. AuthInv'
    BY <1>2 DEF AuthInv
  <2> QED
    BY <2>3, <2>4
<1>6. ASSUME NEW d \in Conns, d # c, link'[d].st = "open", link'[d].token # NoToken, ~Leaving(d)'
      PROVE  index'[link'[d].token] = d
  <2>1. link'[d] = link[d] /\ ~Leaving(d)
    BY <1>2, <1>6 DEF Leaving
  <2>2. index[link[d].token] = d /\ link[d].token \in Tokens
    BY <1>6, <2>1 DEF IndexInv
  <2>3. CASE link[d].token = t
    <3>1. [by |-> c, conn |-> d] \in evicts'
      BY <1>2, <1>6, <2>2, <2>3
    <3> QED
      BY <3>1, <1>6 DEF Leaving
  <2>4. CASE link[d].token # t
    BY <1>2, <2>1, <2>2, <2>4
  <2> QED
    BY <2>3, <2>4
<1>7. index'[link'[c].token] = c
  BY <1>1, <1>2
<1>8. IndexInv'
  BY <1>6, <1>7 DEF IndexInv
<1> QED
  BY <1>2, <1>5, <1>8, SameCore

LEMMA RevokeSessionInv ==
    ASSUME SessInv, NEW h \in hooks, RevokeSession(h)
    PROVE  SessInv'
<1> USE SessionsAssumptions DEF SessInv, SessTypeOK
<1>1. index[h.token] \in Conns \cup {NoConn} /\ h.by \in Conns \cup {"http"}
  OBVIOUS
<1>2. evicts' \subseteq [by : Conns \cup {"http"}, conn : Conns] /\ evicts \subseteq evicts'
  BY <1>1 DEF RevokeSession
<1>3. SessTypeOK' /\ AuthInv'
  BY <1>2 DEF RevokeSession, AuthInv, core, server, handling
<1>4. IndexInv'
  BY <1>2 DEF RevokeSession, IndexInv, Leaving, server
<1> QED
  BY <1>3, <1>4, SameCore DEF RevokeSession

LEMMA TellReplacedInv ==
    ASSUME SessInv, NEW e \in evicts, TellReplaced(e)
    PROVE  SessInv'
<1> USE SessionsAssumptions DEF SessInv, SessTypeOK
<1>1. e.conn \in Conns /\ evicts' = evicts \ {e} /\ UNCHANGED <<core, stage, auth, signing, hooks>>
  BY DEF TellReplaced, handling
<1>2. CASE link' = [link EXCEPT ![e.conn].told = TRUE] /\ UNCHANGED <<index, rooms>>
  <2>1. SessTypeOK' /\ AuthInv'
    BY <1>1, <1>2, ZenonT(40) DEF AuthInv, core
  <2>2. ASSUME NEW d \in Conns, ~Leaving(d)'
        PROVE  link'[d] = link[d] /\ ~Leaving(d)
    BY <1>1, <1>2, <2>2 DEF Leaving
  <2>3. IndexInv'
    BY <1>2, <2>2 DEF IndexInv
  <2> QED
    BY <1>1, <2>1, <2>3, SameCore
<1>3. CASE Close(e.conn)
  <2>1. \A x \in evicts \ evicts' : x.conn = e.conn
    BY <1>1
  <2>2. /\ link' \in [Conns -> [st : {"none", "open", "closed"}, token : Tokens \cup {NoToken}, told : BOOLEAN]]
        /\ index' \in [Tokens -> Conns \cup {NoConn}]
        /\ rooms' \subseteq Conns
        /\ IndexInv'
    BY <1>1, <1>3, <2>1, CloseInv
  <2>3. SessTypeOK' /\ AuthInv'
    BY <1>1, <2>2 DEF AuthInv, core
  <2> QED
    BY <1>1, <2>2, <2>3, SameCore
<1> QED
  BY <1>2, <1>3 DEF TellReplaced

LEMMA RoomStepInv ==
    ASSUME SessInv, NEW c \in Conns, RoomRequest(c) \/ SetRoom(c) \/ RoomLeave(c)
    PROVE  SessInv'
<1> USE DEF SessInv, SessTypeOK
<1>1. UNCHANGED <<core, link, index, auth, signing, hooks, evicts>>
  BY DEF RoomRequest, SetRoom, RoomLeave, server, handling
<1>2. SessTypeOK' /\ AuthInv'
  BY <1>1 DEF RoomRequest, SetRoom, RoomLeave, AuthInv, core, server, handling
<1>3. IndexInv'
  BY <1>1 DEF IndexInv, Leaving
<1> QED
  BY <1>1, <1>2, <1>3, SameCore

LEMMA SessNextInv == SessInv /\ [SessNext]_sessVars => SessInv'
<1> SUFFICES ASSUME SessInv, [SessNext]_sessVars PROVE SessInv'
  OBVIOUS
<1>1. CASE SignIns
  BY <1>1, HttpLoginInv, LoginAnonymousInv, LogoutAccountInv DEF SignIns
<1>2. CASE Connections
  BY <1>2, ConnectInv, PumpClosesInv, AuthStepInv, AuthLoginInv, RegisterSessionInv, RoomStepInv
     DEF Connections
<1>3. CASE \E h \in hooks : RevokeSession(h)
  BY <1>3, RevokeSessionInv
<1>4. CASE \E e \in evicts : TellReplaced(e)
  BY <1>4, TellReplacedInv
<1>5. CASE UNCHANGED sessVars
  BY <1>5 DEF sessVars, core, server, handling, SessInv, SessTypeOK, AuthInv, CoreInv, CarriedInv, HolderInv, KeptInv,
              IndexInv, Leaving
<1> QED
  BY <1>1, <1>2, <1>3, <1>4, <1>5 DEF SessNext

(* SessInv is an invariant of the sign-ins and the connections.            *)
THEOREM SessionInvariant == SessSpec => []SessInv
BY SessInitInv, SessNextInv, PTL DEF SessSpec

(* The tables of core and of the lobby server keep their types.            *)
THEOREM SessionTypes == SessSpec => []SessTypeOK
<1>1. SessInv => SessTypeOK
  BY DEF SessInv
<1> QED
  BY <1>1, SessionInvariant, PTL

(* One session per user and one connection per session, through any        *)
(* interleaving of logins with any user and token, hooks, registrations    *)
(* and closing pumps (loginExternal, OnSessionRevoked, registerSession,    *)
(* unregister).                                                            *)
THEOREM SessionsAreUnique == SessSpec => []OneSession
<1>1. SessInv => OneSession
  BY DEF SessInv, CoreInv, HolderInv, KeptInv, IndexInv, OneSession
<1> QED
  BY <1>1, SessionInvariant, PTL
=============================================================================
