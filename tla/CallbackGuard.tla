---------------------------- MODULE CallbackGuard ----------------------------
(***************************************************************************)
(* Freshness and replay protection of the callbacks of one battle server   *)
(* (runtime/core/battle_callback_freshness.go), for the lifetime of one    *)
(* lobby process.                                                          *)
(*                                                                         *)
(* The lobby's clock runs in ticks, Second of them to a second: timestamps *)
(* are whole seconds while the nonce memory compares full instants.        *)
(* VerifyBattleCallback reads the clock and checks the timestamp before it *)
(* takes Service.mu, so a call can wait between the two.                   *)
(***************************************************************************)
EXTENDS Integers, Sequences, FiniteSets, SequencesExt

CONSTANTS
    CallbackNonces,     \* one callback each: a nonce never signs a second body
    Second,             \* ticks in a second
    Window,             \* battleCallbackTimestampWindow, in seconds
    NonceCap,           \* maxBattleCallbackNoncesPerServer
    MaxLead,            \* how far the signer's clock may be off, in seconds
    MaxWait,            \* how long a call may wait for Service.mu, in ticks
    MaxFlying,          \* bound on calls between the clock and the lock
    MaxTicks,           \* bound on the lobby's clock
    MaxLegacy           \* bound on callbacks in the legacy form

ASSUME CallbackGuardAssumptions ==
    /\ IsFiniteSet(CallbackNonces)
    /\ {Second, Window, NonceCap, MaxFlying} \subseteq Nat \ {0}
    /\ {MaxLead, MaxWait, MaxTicks, MaxLegacy} \subseteq Nat

VARIABLES
    ticks,      \* the lobby's clock
    signed,     \* [CallbackNonces -> timestamp in seconds, or Unsigned]
    flying,     \* calls that found their timestamp fresh: [nonce, now]
    window,     \* battleCallbackNonceWindow: seen and order as one sequence
    accepted,   \* how often a callback was accepted; 2 for more than once
    ahead,      \* history: accepted with a timestamp the retention does not cover
    forgotten,  \* history: evicted because the memory was full
    legacy      \* s.legacyBattleCallbacks

callbackVars == <<ticks, signed, flying, window, accepted, ahead, forgotten, legacy>>

Unsigned == 0 - MaxLead - 1

(* battleCallbackNonceRetention: a timestamp is fresh for a window on       *)
(* either side.                                                             *)
(* Mutant: one window.                                                      *)
RetentionOneWindow == Window * Second
Retention == 2 * Window * Second

Unix(t) == t \div Second
Elapsed(t) == ticks - t

(* battleCallbackTimestampFresh                                             *)
Fresh(timestamp, now) == Unix(now) - timestamp \in (0 - Window)..Window

(* The retention outlasts the timestamp: at its acceptance it led the       *)
(* lobby's clock by less than the window, by a second and the longest wait  *)
(* for the lock at least.  A timestamp a whole window ahead is still fresh  *)
(* at the instant its nonce is dropped.                                     *)
Covered(timestamp, now) == Second * (timestamp + 1) + MaxWait <= now + Second * Window

(* The battle server signs a callback; its clock is off by skew seconds.    *)
Sign(n, skew) ==
    /\ signed[n] = Unsigned
    /\ n = CHOOSE x \in CallbackNonces : signed[x] = Unsigned
    /\ signed' = [signed EXCEPT ![n] = Unix(ticks) + skew]
    /\ UNCHANGED <<ticks, flying, window, accepted, ahead, forgotten, legacy>>

(* VerifyBattleCallback up to the lock: the network delivers a callback,    *)
(* for the first or a further time.  A stale one is refused here.           *)
Verify(n) ==
    /\ signed[n] # Unsigned
    /\ Fresh(signed[n], ticks)
    /\ Cardinality(flying) < MaxFlying
    /\ flying' = flying \cup {[nonce |-> n, now |-> ticks]}
    /\ UNCHANGED <<ticks, signed, window, accepted, ahead, forgotten, legacy>>

(* allowBattleCallbackNonceLocked: the prefix of order that is past its     *)
(* retention goes.                                                          *)
Retained(now) ==
    LET live == {i \in DOMAIN window : window[i].at > now - Retention}
    IN  IF live = {} THEN <<>> ELSE SubSeq(window, Min(live), Len(window))

(* allowBattleCallbackNonceLocked: the oldest go when the memory is full.   *)
Surplus(w) == Max({0, Len(w) - NonceCap + 1})
NoncesOf(w) == {w[i].nonce : i \in DOMAIN w}

(* The rest of VerifyBattleCallback under Service.mu.                       *)
Admit(call) ==
    /\ call \in flying
    /\ flying' = flying \ {call}
    /\ LET w == Retained(call.now)
           kept == SubSeq(w, Surplus(w) + 1, Len(w))
       IN  IF call.nonce \in NoncesOf(w)
           THEN window' = w /\ UNCHANGED <<accepted, ahead, forgotten>>
           ELSE /\ window' = Append(kept, [nonce |-> call.nonce, at |-> call.now])
                /\ accepted' = [accepted EXCEPT ![call.nonce] = Min({@ + 1, 2})]
                /\ ahead' = IF accepted[call.nonce] # 0 \/ Covered(signed[call.nonce], call.now)
                            THEN ahead ELSE ahead \cup {call.nonce}
                /\ forgotten' = forgotten \cup (NoncesOf(w) \ NoncesOf(kept))
    /\ UNCHANGED <<ticks, signed, legacy>>

(* VerifyBattleCallback without the two headers: accepted and counted.      *)
LegacyCallback ==
    /\ legacy < MaxLegacy
    /\ legacy' = legacy + 1
    /\ UNCHANGED <<ticks, signed, flying, window, accepted, ahead, forgotten>>

CallbackTick ==
    /\ ticks < MaxTicks
    /\ \A call \in flying : Elapsed(call.now) < MaxWait
    /\ ticks' = ticks + 1
    /\ UNCHANGED <<signed, flying, window, accepted, ahead, forgotten, legacy>>

CallbackInit ==
    /\ ticks = 0
    /\ signed = [n \in CallbackNonces |-> Unsigned]
    /\ flying = {}
    /\ window = <<>>
    /\ accepted = [n \in CallbackNonces |-> 0]
    /\ ahead = {}
    /\ forgotten = {}
    /\ legacy = 0

CallbackNext ==
    \/ \E n \in CallbackNonces, skew \in (0 - MaxLead)..MaxLead : Sign(n, skew)
    \/ \E n \in CallbackNonces : Verify(n)
    \/ \E call \in flying : Admit(call)
    \/ LegacyCallback
    \/ CallbackTick

CallbackSpec == CallbackInit /\ [][CallbackNext]_callbackVars

-----------------------------------------------------------------------------
(* Properties.                                                              *)

CallbackTypeOK ==
    /\ ticks \in 0..MaxTicks
    /\ signed \in [CallbackNonces -> Unsigned..(Unix(MaxTicks) + MaxLead)]
    /\ flying \subseteq [nonce : CallbackNonces, now : 0..MaxTicks]
    /\ window \in Seq([nonce : CallbackNonces, at : 0..MaxTicks])
    /\ Len(window) <= NonceCap
    /\ accepted \in [CallbackNonces -> 0..2]
    /\ ahead \subseteq CallbackNonces
    /\ forgotten \subseteq CallbackNonces
    /\ legacy \in 0..MaxLegacy

(* A signed callback is accepted at most once, however often and however    *)
(* late the network delivers it and in whatever order the calls take the    *)
(* lock: what the nonce memory drops at the end of its retention is stale   *)
(* by then (VerifyBattleCallback with allowBattleCallbackNonceLocked).      *)
(* Out of this promise are a nonce that was evicted because the memory was  *)
(* full, and one accepted with a timestamp that is not Covered.             *)
AcceptedOnce == \A n \in CallbackNonces \ (forgotten \cup ahead) : accepted[n] <= 1
=============================================================================
