---------------------------- MODULE AccountCodes ----------------------------
(***************************************************************************)
(* Verification codes and registration of one e-mail address               *)
(* (runtime/account).  Service.mu guards the pending code and the send     *)
(* history and is held neither across the mail call nor across password    *)
(* hashing, so requests for the same address overlap there.                *)
(*                                                                         *)
(* A code is the number of its issue; guessing one is a wrong code.        *)
(***************************************************************************)
EXTENDS Integers, FiniteSets, Sequences

CONSTANTS
    MaxCodes,       \* bound on codes issued
    MaxClock,       \* bound on the clock
    MaxCalls,       \* bound on requests between two critical sections
    CodeTTL,        \* DefaultVerificationTTL
    Cooldown,       \* DefaultResendCooldown
    Hour,           \* the window of pruneSendHistory
    HourlyLimit,    \* DefaultHourlySendLimit
    MaxAttempts     \* MaxVerificationAttempts

ASSUME AccountCodesAssumptions ==
    /\ {MaxCodes, MaxClock, MaxCalls} \subseteq Nat
    /\ {CodeTTL, Cooldown, Hour, HourlyLimit, MaxAttempts} \subseteq Nat \ {0}

VARIABLES
    clock,
    code,       \* the codes issued: [issued, wrong, mail, used]
    pending,    \* s.pending[address]: the number of the code, 0 when absent
    sends,      \* s.sends[address]
    asking,     \* SendVerificationCode calls past the AccountByEmail check
    creating,   \* Register calls past consumeCode
    registered  \* the store has an account with this address

codeVars == <<clock, code, pending, sends, asking, creating, registered>>

Expiry(i) == code[i].issued + CodeTTL

(* pruneSendHistory                                                         *)
Recent(now) ==
    LET kept[i \in 0..Len(sends)] ==
          IF i = 0 THEN <<>>
          ELSE IF sends[i] > now - Hour THEN Append(kept[i - 1], sends[i]) ELSE kept[i - 1]
    IN kept[Len(sends)]

(* SendVerificationCode: the address is free.                               *)
AskForCode ==
    /\ ~registered
    /\ asking < MaxCalls
    /\ asking' = asking + 1
    /\ UNCHANGED <<clock, code, pending, sends, creating, registered>>

(* beginSend refuses: too many codes in the hour, or too soon.              *)
CodeRefused ==
    /\ asking > 0
    /\ \/ Len(Recent(clock)) >= HourlyLimit
       \/ pending # 0 /\ clock - code[pending].issued < Cooldown
    /\ asking' = asking - 1
    /\ sends' = Recent(clock)
    /\ UNCHANGED <<clock, code, pending, creating, registered>>

(* beginSend                                                                *)
BeginSend ==
    /\ asking > 0
    /\ Len(Recent(clock)) < HourlyLimit
    /\ pending # 0 => clock - code[pending].issued >= Cooldown
    /\ Len(code) < MaxCodes
    /\ code' = Append(code, [issued |-> clock, wrong |-> 0, mail |-> "sending", used |-> FALSE])
    /\ pending' = Len(code')
    /\ sends' = Append(Recent(clock), clock)
    /\ asking' = asking - 1
    /\ UNCHANGED <<clock, creating, registered>>

MailDelivered(i) ==
    /\ code[i].mail = "sending"
    /\ code' = [code EXCEPT ![i].mail = "delivered"]
    /\ UNCHANGED <<clock, pending, sends, asking, creating, registered>>

(* dropPending                                                              *)
(* Mutant: whatever code is pending goes.                                   *)
DropPendingAny(i) == 0
DropPending(i) == IF pending = i THEN 0 ELSE pending

(* The mail call reports an error, however late.                            *)
MailFails(i) ==
    /\ code[i].mail = "sending"
    /\ code' = [code EXCEPT ![i].mail = "failed"]
    /\ pending' = DropPending(i)
    /\ UNCHANGED <<clock, sends, asking, creating, registered>>

(* consumeCode with the code of the mail.                                   *)
ConsumeCode(i) ==
    /\ pending = i
    /\ clock < Expiry(i)
    /\ creating < MaxCalls
    /\ pending' = 0
    /\ code' = [code EXCEPT ![i].used = TRUE]
    /\ creating' = creating + 1
    /\ UNCHANGED <<clock, sends, asking, registered>>

(* consumeCode with anything else.                                          *)
WrongCode ==
    /\ pending # 0
    /\ clock < Expiry(pending)
    /\ code' = [code EXCEPT ![pending].wrong = @ + 1]
    /\ pending' = IF code[pending].wrong + 1 >= MaxAttempts THEN 0 ELSE pending
    /\ UNCHANGED <<clock, sends, asking, creating, registered>>

(* consumeCode after the expiry.                                            *)
ExpiredCode ==
    /\ pending # 0
    /\ clock >= Expiry(pending)
    /\ pending' = 0
    /\ UNCHANGED <<clock, code, sends, asking, creating, registered>>

(* SQLStore.CreateAccount: the unique indexes decide.                       *)
Stored(nameFree) == registered \/ nameFree

(* Register after consumeCode: the password is hashed, and CreateAccount    *)
(* stores the account or finds the address or the name taken.               *)
CreateAccount(nameFree) ==
    /\ creating > 0
    /\ creating' = creating - 1
    /\ registered' = Stored(nameFree)
    /\ UNCHANGED <<clock, code, pending, sends, asking>>

ClockTick ==
    /\ clock < MaxClock
    /\ clock' = clock + 1
    /\ UNCHANGED <<code, pending, sends, asking, creating, registered>>

CodeInit ==
    /\ clock = 0
    /\ code = <<>>
    /\ pending = 0
    /\ sends = <<>>
    /\ asking = 0
    /\ creating = 0
    /\ registered = FALSE

CodeNext ==
    \/ AskForCode \/ CodeRefused \/ BeginSend
    \/ \E i \in DOMAIN code : MailDelivered(i) \/ MailFails(i) \/ ConsumeCode(i)
    \/ WrongCode \/ ExpiredCode
    \/ \E nameFree \in BOOLEAN : CreateAccount(nameFree)
    \/ ClockTick

CodeSpec == CodeInit /\ [][CodeNext]_codeVars

-----------------------------------------------------------------------------
(* Properties.                                                              *)

CodeTypeOK ==
    /\ clock \in 0..MaxClock
    /\ code \in Seq([issued : 0..MaxClock, wrong : 0..MaxAttempts,
                     mail : {"sending", "delivered", "failed"}, used : BOOLEAN])
    /\ Len(code) <= MaxCodes
    /\ pending \in 0..Len(code)
    /\ sends \in Seq(0..MaxClock)
    /\ asking \in 0..MaxCalls
    /\ creating \in 0..MaxCalls
    /\ registered \in BOOLEAN

(* The code issued last can be used once its mail has arrived, until it     *)
(* expires, is used or was guessed too often: the error of a slower mail    *)
(* that was sent before does not take it away (dropPending), nor does a     *)
(* registration that ran meanwhile.  An older code that arrived is gone as  *)
(* soon as a newer one is issued, also if the mail of the newer one fails.  *)
DeliveredCodeWorks ==
    \A i \in DOMAIN code :
       (/\ i = Len(code)
        /\ code[i].mail = "delivered"
        /\ ~code[i].used
        /\ code[i].wrong < MaxAttempts
        /\ clock < Expiry(i)) => pending = i
=============================================================================
