------------------------------ MODULE Sessions ------------------------------
(***************************************************************************)
(* Sign-ins and live connections.  runtime/core keeps one session token    *)
(* per user under Service.mu (service.go, account_bridge.go) and reports a *)
(* superseded token to a hook after the mutex is released; the lobby       *)
(* server (runtime/lobbyws/server.go) keeps the connection of each token   *)
(* under another mutex and hangs up on the ones that were superseded.      *)
(*                                                                         *)
(* Every connection has a read goroutine, which handles one message at a   *)
(* time, and a write pump.  The steps below are the critical sections, so  *)
(* logins, hooks, reads and closing pumps interleave between them.         *)
(***************************************************************************)
EXTENDS Naturals, FiniteSets

CONSTANTS
    Players, Nobody,        \* user ids
    Tokens, NoToken,        \* session tokens
    Conns, NoConn,          \* *client values
    MaxLogins,              \* bound on sign-ins
    MaxListed               \* bound on connections in a room at a time

ASSUME SessionsAssumptions ==
    /\ Nobody \notin Players
    /\ NoToken \notin Tokens
    /\ NoConn \notin Conns
    /\ "http" \notin Conns
    /\ MaxLogins \in Nat
    /\ MaxListed \in Nat

VARIABLES
    tokenOf,    \* user.SessionToken
    holder,     \* s.sessionToUser
    known,      \* DOMAIN s.users
    signers,    \* history: the users who have signed in with each token
    link,       \* the connections: [st, token, told]
    stage,      \* where each read goroutine is
    auth,       \* the token its current handleAuth works with ...
    signing,    \* ... and the user id of the request, if it has to sign in
    index,      \* Server.sessionClients
    rooms,      \* the connections listed in Server.rooms
    hooks,      \* calls of OnSessionRevoked under way: [by, token]
    evicts,     \* calls of replacedByNewSession under way: [by, conn]
    logins

core == <<tokenOf, holder, known, signers, logins>>
server == <<link, index, rooms>>
handling == <<stage, auth, signing>>
sessVars == <<core, server, handling, hooks, evicts>>

Free == [st |-> "none", token |-> NoToken, told |-> FALSE]

(* A read goroutine runs the hook of its own login and the eviction of its  *)
(* own registration before it goes on.                                      *)
Waits(c) == (\E h \in hooks : h.by = c) \/ (\E e \in evicts : e.by = c)
Ready(c) == stage[c] = "idle" /\ link[c].st # "none" /\ ~Waits(c)

-----------------------------------------------------------------------------
(* core: sign-in and sign-out.                                              *)

(* nextIDLocked mints a token that nobody has signed in with.               *)
NewToken(t) == signers[t] = {}

(* loginExternal and attachAccountSession.  The token that is given up no    *)
(* longer resolves, whoever it resolved to; the user to whom the new one    *)
(* resolved so far goes on carrying it.                                     *)
Login(u, t, by) ==
    /\ holder' = [x \in Tokens |-> IF x = t THEN u ELSE IF x = tokenOf[u] THEN Nobody ELSE holder[x]]
    /\ tokenOf' = [tokenOf EXCEPT ![u] = t]
    /\ known' = known \cup {u}
    /\ signers' = [signers EXCEPT ![t] = @ \cup {u}]
    /\ hooks' = IF tokenOf[u] \in {NoToken, t} THEN hooks ELSE hooks \cup {[by |-> by, token |-> tokenOf[u]]}
    /\ logins < MaxLogins /\ logins' = logins + 1

(* LoginExternal over HTTP or Nakama takes the user and the token that the  *)
(* provider names: also a token this or another user has signed in with.    *)
LoginExternal(u, t) ==
    /\ Login(u, t, "http")
    /\ UNCHANGED <<server, handling, evicts>>

(* LoginAccount and RegisterAccount mint a new token.                       *)
LoginAccount(u, t) ==
    /\ NewToken(t)
    /\ Login(u, t, "http")
    /\ UNCHANGED <<server, handling, evicts>>

(* LoginAnonymous mints the user as well.                                   *)
LoginAnonymous(u, t) ==
    /\ NewToken(t)
    /\ u \notin known
    /\ tokenOf' = [tokenOf EXCEPT ![u] = t]
    /\ holder' = [holder EXCEPT ![t] = u]
    /\ known' = known \cup {u}
    /\ signers' = [signers EXCEPT ![t] = @ \cup {u}]
    /\ logins < MaxLogins /\ logins' = logins + 1
    /\ UNCHANGED <<server, handling, hooks, evicts>>

(* LogoutAccount tells no connection.                                       *)
LogoutAccount(t) ==
    /\ holder[t] # Nobody
    /\ holder' = [holder EXCEPT ![t] = Nobody]
    /\ tokenOf' = [u \in Players |-> IF u = holder[t] /\ tokenOf[u] = t THEN NoToken ELSE tokenOf[u]]
    /\ UNCHANGED <<known, signers, logins, server, handling, hooks, evicts>>

-----------------------------------------------------------------------------
(* lobbyws: connections.                                                    *)

(* HandleLobby with register.                                               *)
Connect(c) ==
    /\ link[c] = Free
    /\ c = CHOOSE x \in Conns : link[x] = Free
    /\ link' = [link EXCEPT ![c].st = "open"]
    /\ UNCHANGED <<core, index, rooms, handling, hooks, evicts>>

(* client.close with unregister: once, from the pump, the read loop or an   *)
(* eviction.                                                                *)
(* Mutant: the entry of the token goes, whoever holds it.                   *)
CloseForgetting(c) ==
    IF link[c].st # "open" THEN UNCHANGED server
    ELSE /\ link' = [link EXCEPT ![c].st = "closed"]
         /\ rooms' = rooms \ {c}
         /\ index' = [t \in Tokens |-> IF t = link[c].token THEN NoConn ELSE index[t]]
Close(c) ==
    IF link[c].st # "open" THEN UNCHANGED server
    ELSE /\ link' = [link EXCEPT ![c].st = "closed"]
         /\ rooms' = rooms \ {c}
         /\ index' = [t \in Tokens |-> IF t = link[c].token /\ index[t] = c THEN NoConn ELSE index[t]]

(* writePump: a failed ping or write, a vanished peer, or the terminal      *)
(* frame of an eviction.                                                    *)
PumpCloses(c) ==
    /\ link[c].st = "open"
    /\ Close(c)
    /\ UNCHANGED <<core, handling, hooks, evicts>>

(* readLoop ends between two messages.                                      *)
ReadEnds(c) ==
    /\ Ready(c)
    /\ Close(c)
    /\ stage' = [stage EXCEPT ![c] = "done"]
    /\ UNCHANGED <<core, auth, signing, hooks, evicts>>

(* handleAuth: Bootstrap resolves the token, and its snapshot names the     *)
(* token the user carries.                                                  *)
AuthKnown(c, t) ==
    /\ Ready(c)
    /\ holder[t] # Nobody
    /\ auth' = [auth EXCEPT ![c] = tokenOf[holder[t]]]
    /\ stage' = [stage EXCEPT ![c] = "register"]
    /\ UNCHANGED <<core, server, signing, hooks, evicts>>

(* handleAuth: the token is unknown, or tokenOrRandom makes one up.         *)
AuthUnknown(c, u, t) ==
    /\ Ready(c)
    /\ holder[t] = Nobody
    /\ auth' = [auth EXCEPT ![c] = t]
    /\ signing' = [signing EXCEPT ![c] = u]
    /\ stage' = [stage EXCEPT ![c] = "login"]
    /\ UNCHANGED <<core, server, hooks, evicts>>

(* handleAuth: LoginExternal signs the request's user in with it, whoever   *)
(* has done so since.                                                       *)
AuthLogin(c) ==
    /\ stage[c] = "login"
    /\ Login(signing[c], auth[c], c)
    /\ signing' = [signing EXCEPT ![c] = Nobody]
    /\ stage' = [stage EXCEPT ![c] = "bootstrap"]
    /\ UNCHANGED <<server, auth, evicts>>

(* handleAuth: the second Bootstrap, which another sign-in may have undone. *)
AuthBootstrap(c) ==
    /\ stage[c] = "bootstrap"
    /\ ~Waits(c)
    /\ LET u == holder[auth[c]]
       IN IF u # Nobody
          THEN stage' = [stage EXCEPT ![c] = "register"] /\ auth' = [auth EXCEPT ![c] = tokenOf[u]]
          ELSE stage' = [stage EXCEPT ![c] = "idle"] /\ auth' = [auth EXCEPT ![c] = NoToken]
    /\ UNCHANGED <<core, server, signing, hooks, evicts>>

(* registerSession                                                          *)
RegisterSession(c) ==
    /\ stage[c] = "register"
    /\ LET t == auth[c]
       IN /\ link' = [link EXCEPT ![c].token = t]
          /\ index' = [index EXCEPT ![t] = c]
          /\ evicts' = IF index[t] \in {NoConn, c} THEN evicts
                       ELSE evicts \cup {[by |-> c, conn |-> index[t]]}
    /\ stage' = [stage EXCEPT ![c] = "idle"]
    /\ auth' = [auth EXCEPT ![c] = NoToken]
    /\ UNCHANGED <<core, rooms, signing, hooks>>

(* OnSessionRevoked looks the connection up, then tells it.                 *)
RevokeSession(h) ==
    /\ h \in hooks
    /\ hooks' = hooks \ {h}
    /\ evicts' = IF index[h.token] = NoConn THEN evicts ELSE evicts \cup {[by |-> h.by, conn |-> index[h.token]]}
    /\ UNCHANGED <<core, server, handling>>

(* replacedByNewSession: the terminal frame fits the buffer, or the socket  *)
(* is closed at once.                                                       *)
TellReplaced(e) ==
    /\ e \in evicts
    /\ evicts' = evicts \ {e}
    /\ \/ link' = [link EXCEPT ![e.conn].told = TRUE] /\ UNCHANGED <<index, rooms>>
       \/ Close(e.conn)
    /\ UNCHANGED <<core, handling, hooks>>

(* handleRoomCreate, handleRoomJoin: core takes the seat for the session ... *)
RoomRequest(c) ==
    /\ Ready(c)
    /\ link[c].token # NoToken
    /\ holder[link[c].token] # Nobody
    /\ Cardinality(rooms \cup {x \in Conns : stage[x] = "room"}) < MaxListed
    /\ stage' = [stage EXCEPT ![c] = "room"]
    /\ UNCHANGED <<core, server, auth, signing, hooks, evicts>>

(* ... and setRoom lists the connection for broadcasts.                     *)
SetRoom(c) ==
    /\ stage[c] = "room"
    /\ rooms' = rooms \cup {c}
    /\ stage' = [stage EXCEPT ![c] = "idle"]
    /\ UNCHANGED <<core, link, index, auth, signing, hooks, evicts>>

(* handleRoomLeave                                                          *)
RoomLeave(c) ==
    /\ Ready(c)
    /\ link[c].token # NoToken
    /\ holder[link[c].token] # Nobody
    /\ rooms' = rooms \ {c}
    /\ UNCHANGED <<core, link, index, handling, hooks, evicts>>

-----------------------------------------------------------------------------
SessInit ==
    /\ tokenOf = [u \in Players |-> NoToken]
    /\ holder = [t \in Tokens |-> Nobody]
    /\ known = {}
    /\ signers = [t \in Tokens |-> {}]
    /\ link = [c \in Conns |-> Free]
    /\ stage = [c \in Conns |-> "idle"]
    /\ auth = [c \in Conns |-> NoToken]
    /\ signing = [c \in Conns |-> Nobody]
    /\ index = [t \in Tokens |-> NoConn]
    /\ rooms = {}
    /\ hooks = {}
    /\ evicts = {}
    /\ logins = 0

SignIns ==
    \/ \E u \in Players, t \in Tokens :
          LoginExternal(u, t) \/ LoginAccount(u, t) \/ LoginAnonymous(u, t)
    \/ \E t \in Tokens : LogoutAccount(t)

Connections ==
    \E c \in Conns :
       \/ Connect(c) \/ PumpCloses(c) \/ ReadEnds(c)
       \/ \E t \in Tokens : AuthKnown(c, t)
       \/ \E u \in Players, t \in Tokens : AuthUnknown(c, u, t)
       \/ AuthLogin(c) \/ AuthBootstrap(c) \/ RegisterSession(c)
       \/ RoomRequest(c) \/ SetRoom(c) \/ RoomLeave(c)

SessNext ==
    \/ SignIns
    \/ Connections
    \/ \E h \in hooks : RevokeSession(h)
    \/ \E e \in evicts : TellReplaced(e)

SessSpec == SessInit /\ [][SessNext]_sessVars

-----------------------------------------------------------------------------
(* Properties.                                                              *)

SessTypeOK ==
    /\ tokenOf \in [Players -> Tokens \cup {NoToken}]
    /\ holder \in [Tokens -> Players \cup {Nobody}]
    /\ known \subseteq Players
    /\ signers \in [Tokens -> SUBSET Players]
    /\ link \in [Conns -> [st : {"none", "open", "closed"}, token : Tokens \cup {NoToken}, told : BOOLEAN]]
    /\ stage \in [Conns -> {"idle", "login", "bootstrap", "register", "room", "done"}]
    /\ auth \in [Conns -> Tokens \cup {NoToken}]
    /\ signing \in [Conns -> Players \cup {Nobody}]
    /\ index \in [Tokens -> Conns \cup {NoConn}]
    /\ rooms \subseteq Conns
    /\ hooks \subseteq [by : Conns \cup {"http"}, token : Tokens]
    /\ evicts \subseteq [by : Conns \cup {"http"}, conn : Conns]
    /\ logins \in 0..MaxLogins

(* Someone has told, or is about to tell, a connection to go.               *)
Leaving(c) == link[c].told \/ \E e \in evicts : e.conn = c

(* One session per user, and one connection per session.  A token resolves  *)
(* only to a user who carries it, so no user is signed in twice, and a user *)
(* whose token no other user ever signed in with is signed in: through any  *)
(* sequence of anonymous, external and account logins, tokens presented     *)
(* again, also by others, and logouts (loginExternal, attachAccountSession, *)
(* LogoutAccount).  An authenticated connection that nobody has superseded  *)
(* is the one found under its token, so the next sign-in reaches it: a      *)
(* superseded connection that closes late does not take the entry of its    *)
(* successor with it (registerSession, unregister).                         *)
OneSession ==
    /\ \A t \in Tokens, u \in Players :
          /\ holder[t] = u => tokenOf[u] = t
          /\ tokenOf[u] = t /\ signers[t] = {u} => holder[t] = u
    /\ \A c \in Conns : link[c].st = "open" /\ link[c].token # NoToken /\ ~Leaving(c)
                           => index[link[c].token] = c
=============================================================================
