---------------------------- MODULE EnvelopeGuard ----------------------------
(***************************************************************************)
(* The business envelope of one session (runtime/security) and the places  *)
(* that check it: the guard in front of the HTTP routes, the handlers of   *)
(* the routes that require an envelope (runtime/httpapi), and the Nakama   *)
(* RPC and WSS entries, which share the guard (runtime/nakamaapi).         *)
(*                                                                         *)
(* The client numbers its envelopes 1, 2, ... and gives each a nonce of    *)
(* its own; the network delays, repeats and reorders the requests.  The    *)
(* model covers one process: the guard's memory is not persisted.          *)
(***************************************************************************)
EXTENDS Integers, Sequences, SequencesExt

CONSTANTS
    MaxSeq,             \* bound on the envelopes of the session
    EnvelopeNonceCap,   \* BusinessEnvelopeNonceCap
    MaxSkew,            \* BusinessEnvelopeMaxSkew
    MaxNow              \* bound on the guard's clock

ASSUME EnvelopeGuardAssumptions ==
    /\ {MaxSeq, EnvelopeNonceCap} \subseteq Nat \ {0}
    /\ {MaxSkew, MaxNow} \subseteq Nat

VARIABLES
    now,        \* guard.now
    request,    \* the requests sent, by seq: [at, class, enveloped]
    lastSeq,    \* businessEnvelopeSessionGuard.lastSeq
    nonceOrder, \* seenNonce and nonceOrder
    consumed,   \* how often Validate accepted an envelope
    applied,    \* how often the operation ran; 2 for more than once
    denied      \* history: requests refused because their own envelope was used up

envelopeVars == <<now, request, lastSeq, nonceOrder, consumed, applied, denied>>

(* The operations as the guards see them: "open" ones look at no envelope   *)
(* (sign-in, check-in, the older shop), "service" ones refuse a request     *)
(* that carries one, "checked" HTTP routes pass the front guard, "required" *)
(* ones check in their handler, "nakama" stands for HandleRPC and           *)
(* HandleWSSMessage.                                                        *)
Classes == {"open", "service", "checked", "required", "nakama"}

(* routeUsesBusinessEnvelope                                                *)
(* Mutant: the front guard checks the routes that check for themselves too. *)
UsesBusinessEnvelopeAlways(class) == class \in {"checked", "required"}
UsesBusinessEnvelope(class) == class = "checked"

(* requireBusinessEnvelopeHeaders in gachaPull, gachaFaithExchange and      *)
(* shopPurchase; validateRPCEnvelope and validateWSSEnvelope.               *)
RequiresEnvelope(class) == class \in {"required", "nakama"}

(* Validate, with the nonce of envelope i written as i.                     *)
Valid(i, last, order) ==
    /\ request[i].at >= now - MaxSkew
    /\ request[i].at <= now + MaxSkew
    /\ i > last
    /\ i \notin ToSet(order)
Remember(i) ==
    LET order == Append(nonceOrder, i)
    IN  SubSeq(order, Max({1, Len(order) - EnvelopeNonceCap + 1}), Len(order))

(* How often Validate is asked about one delivery of a request.             *)
Guards(class) ==
    (IF UsesBusinessEnvelope(class) THEN 1 ELSE 0) + (IF RequiresEnvelope(class) THEN 1 ELSE 0)

(* The client sends its next request; its clock is off by skew.             *)
SendRequest(class, skew, enveloped) ==
    /\ Len(request) < MaxSeq
    /\ request' = Append(request, [at |-> IF enveloped THEN now + skew ELSE 0, class |-> class, enveloped |-> enveloped])
    /\ consumed' = Append(consumed, 0)
    /\ applied' = Append(applied, 0)
    /\ UNCHANGED <<now, lastSeq, nonceOrder, denied>>

Apply(i) == applied' = [applied EXCEPT ![i] = Min({@ + 1, 2})]

(* A delivery whose envelope is accepted.  The first Validate takes the     *)
(* number; a second one for the same delivery finds it used.  Behind the    *)
(* guards the request may still be refused for what it asks: a body that    *)
(* does not decode, a field of the server's, an error of the operation.     *)
Accept(i) ==
    /\ request[i].enveloped
    /\ Guards(request[i].class) > 0
    /\ Valid(i, lastSeq, nonceOrder)
    /\ lastSeq' = i
    /\ nonceOrder' = Remember(i)
    /\ consumed' = [consumed EXCEPT ![i] = @ + 1]
    /\ IF Guards(request[i].class) = 1
       THEN (Apply(i) \/ UNCHANGED applied) /\ UNCHANGED denied
       ELSE UNCHANGED applied /\ denied' = denied \cup {i}
    /\ UNCHANGED <<now, request>>

(* serviceOriginPayloadHasBusinessEnvelope,                                 *)
(* rejectBusinessEnvelopeHeadersForServiceRoute: a service operation takes  *)
(* no player envelope.                                                      *)
ServiceTakes(i) == request[i].class = "service" /\ ~request[i].enveloped

(* A delivery nobody validates: an open operation, a service one, or a      *)
(* request without an envelope where none is required                       *)
(* (validateBusinessEnvelopeHeaders).                                       *)
Pass(i) ==
    /\ \/ request[i].class = "open"
       \/ ServiceTakes(i)
       \/ ~request[i].enveloped /\ request[i].class = "checked"
    /\ Apply(i)
    /\ UNCHANGED <<now, request, lastSeq, nonceOrder, consumed, denied>>

EnvelopeTick ==
    /\ now < MaxNow
    /\ now' = now + 1
    /\ UNCHANGED <<request, lastSeq, nonceOrder, consumed, applied, denied>>

EnvelopeInit ==
    /\ now = 0
    /\ request = <<>>
    /\ lastSeq = 0
    /\ nonceOrder = <<>>
    /\ consumed = <<>>
    /\ applied = <<>>
    /\ denied = {}

EnvelopeNext ==
    \/ \E class \in Classes, skew \in (0 - MaxSkew - 1)..(MaxSkew + 1), enveloped \in BOOLEAN :
          SendRequest(class, skew, enveloped)
    \/ \E i \in DOMAIN request : Accept(i) \/ Pass(i)
    \/ EnvelopeTick

EnvelopeSpec == EnvelopeInit /\ [][EnvelopeNext]_envelopeVars

-----------------------------------------------------------------------------
(* Properties.                                                              *)

EnvelopeTypeOK ==
    /\ now \in 0..MaxNow
    /\ request \in Seq([at : (0 - MaxSkew - 1)..(MaxNow + MaxSkew + 1), class : Classes, enveloped : BOOLEAN])
    /\ Len(request) <= MaxSeq
    /\ lastSeq \in 0..MaxSeq
    /\ nonceOrder \in Seq(1..MaxSeq)
    /\ Len(nonceOrder) <= EnvelopeNonceCap
    /\ {consumed, applied} \subseteq Seq(Nat)
    /\ denied \subseteq 1..MaxSeq

(* However often and in whatever order the network delivers the requests of *)
(* a session, one that carries an envelope to a guarded operation is        *)
(* applied at most once, and only if its envelope was used up, also when    *)
(* its nonce has left the bounded memory; and none is guarded twice, which  *)
(* would refuse every request for the envelope it has just used up          *)
(* (Validate and routeUsesBusinessEnvelope).                                *)
EnvelopeOnce ==
    /\ \A i \in DOMAIN request :
          request[i].enveloped /\ request[i].class # "open"
             => applied[i] <= consumed[i] /\ consumed[i] <= 1
    /\ denied = {}
=============================================================================
