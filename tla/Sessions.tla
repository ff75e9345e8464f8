------------------------------- MODULE Sessions -------------------------------
(***************************************************************************)
(* One account and the browser that is signed in to it.  The server keeps  *)
(* the id of the one refresh token it accepts (auth_service.py); its       *)
(* handlers read the account and write it in a later step.  The tabs of    *)
(* the browser share the tokens in localStorage; a call answered 401 waits *)
(* for a refresh, one at a time in each tab, and is repeated once          *)
(* (apiClient.ts).  Answers may overtake each other or never arrive.       *)
(*                                                                         *)
(* Tokens are numbered as they are issued; number n names an access token  *)
(* and the refresh token that came with it.                                *)
(***************************************************************************)
EXTENDS Integers, FiniteSets

CONSTANTS
  Tabs,        \* the tabs of the browser
  Calls,       \* the calls its pages make, each once
  MaxEvents    \* bound: events, page loads, failures, changes by an admin, expired sessions

VARIABLES
  account,   \* the row of the user: the accepted token, unexpired, active
  issued,    \* how many tokens have been issued
  live,      \* the access tokens that have not expired
  store,     \* localStorage: access token, refresh token, user
  tabs,      \* each tab: whether it shows a user, whether it is refreshing
  calls,     \* the state of each call
  handlers,  \* the requests at the server or on their way
  events,    \* how many of the bounded events there were
  causes     \* what has disturbed the session since the last login

vars == <<account, issued, live, store, tabs, calls, handlers, events, causes>>

None == 0
Tokens == 1..(MaxEvents + Cardinality(Calls) + 1)
Elsewhere == "elsewhere"
Nobody == "nobody"

ASSUME CallsAssumption ==
  /\ IsFiniteSet(Calls) /\ MaxEvents \in Nat
  /\ Tabs \cap Calls = {} /\ {Nobody, Elsewhere} \cap (Tabs \cup Calls) = {}

Cleared == [access |-> None, refresh |-> None, user |-> FALSE]

(* A request: who waits for it, the call it was sent for, the operation,   *)
(* the token it carries, the accepted token it has read, and its answer.   *)
Request(to, for, op, token) ==
  [to |-> to, for |-> for, op |-> op, token |-> token, state |-> "arrived", loaded |-> None,
   answer |-> 0]

Idle == [state |-> "idle", tab |-> Nobody, op |-> "fetch", retried |-> FALSE]
Done == [Idle EXCEPT !.state = "done"]
CallOf(t, op, state, retried) == [state |-> state, tab |-> t, op |-> op, retried |-> retried]

Mine(t) == {c \in Calls : calls[c].tab = t}
Waiting(t) == {c \in Mine(t) : calls[c].state = "waiting"}

TypeOK ==
  /\ account \in [jti : {None} \cup Tokens, fresh : BOOLEAN, active : BOOLEAN]
  /\ issued \in Tokens /\ live \subseteq 1..issued
  /\ store \in [access : 0..issued, refresh : 0..issued, user : BOOLEAN]
  /\ tabs \in [Tabs -> [user : BOOLEAN, refreshing : BOOLEAN]]
  /\ calls \in [Calls -> [state : {"idle", "sent", "waiting", "done"}, tab : Tabs \cup {Nobody},
                          op : {"fetch", "logout"}, retried : BOOLEAN]]
  /\ events \in 0..MaxEvents
  /\ \A t \in Tabs : ~ tabs[t].refreshing => Waiting(t) = {}
  /\ \A c \in Calls : Cardinality({h \in handlers : h.to = c}) =
                        (IF calls[c].state = "sent" THEN 1 ELSE 0)

(* Signed in, with both tabs open.                                         *)
Init ==
  /\ account = [jti |-> 1, fresh |-> TRUE, active |-> TRUE]
  /\ issued = 1 /\ live = {1}
  /\ store = [access |-> 1, refresh |-> 1, user |-> TRUE]
  /\ tabs = [t \in Tabs |-> [user |-> TRUE, refreshing |-> FALSE]]
  /\ calls = [c \in Calls |-> Idle]
  /\ handlers = {} /\ events = 0
  /\ causes = {}

Event == events < MaxEvents /\ events' = events + 1

Disturbed(cause) == causes \cup {cause}

-----------------------------------------------------------------------------
(* The server.                                                             *)

(* An answer nobody in this browser waits for is dropped at once.          *)
Becomes(h, g) ==
  handlers' = (handlers \ {h}) \cup
                (IF g.state = "done" /\ h.to \in {Nobody, Elsewhere} THEN {} ELSE {g})

Answered(h, status) ==
  [h EXCEPT !.state = "done", !.token = None, !.loaded = None, !.answer = status]

(* get_current_user: any call, and the first step of a logout.             *)
GetCurrentUser(h) ==
  /\ h.op \in {"fetch", "logout"} /\ h.state = "arrived"
  /\ Becomes(h, IF h.token \notin live THEN Answered(h, 401)
                ELSE IF ~ account.active THEN Answered(h, 403)
                ELSE IF h.op = "fetch" THEN Answered(h, 200)
                ELSE [h EXCEPT !.state = "read", !.loaded = account.jti])
  /\ UNCHANGED <<account, issued, live, store, tabs, calls, events, causes>>

\* Mutant: an account without a token accepts any.
AcceptsNoneToo(h) == account.jti # None => account.jti = h.token /\ account.fresh

(* The refresh token compared with the one the account accepts.            *)
Accepts(h) == account.jti = h.token /\ account.fresh

ReadForRefresh(h) ==
  /\ h.op = "refresh" /\ h.state = "arrived"
  /\ Becomes(h, IF account.active /\ Accepts(h)
                THEN [h EXCEPT !.state = "read", !.loaded = account.jti]
                ELSE Answered(h, 401))
  /\ UNCHANGED <<account, issued, live, store, tabs, calls, events, causes>>

(* A wrong password changes nothing and is not modelled.                   *)
ReadForLogin(h) ==
  /\ h.op = "login" /\ h.state = "arrived"
  /\ Becomes(h, IF account.active THEN [h EXCEPT !.state = "read", !.loaded = account.jti]
                ELSE Answered(h, 403))
  /\ UNCHANGED <<account, issued, live, store, tabs, calls, events, causes>>

(* set_refresh_token and the commit.  Only the token's columns are         *)
(* written: a deactivation committed since the read stays.                 *)
SetRefreshToken(h) ==
  /\ h.op \in {"refresh", "login"} /\ h.state = "read"
  /\ issued' = issued + 1 /\ live' = live \cup {issued'}
  /\ account' = [account EXCEPT !.jti = issued', !.fresh = TRUE]
  /\ Becomes(h, [Answered(h, 200) EXCEPT !.token = issued'])
  /\ UNCHANGED <<store, tabs, calls, events, causes>>

(* clear_refresh_token and the commit: the token's id and its expiry are   *)
(* gone.  No UPDATE is sent if the account had no token when it was read.  *)
ClearRefreshToken(h) ==
  /\ h.op = "logout" /\ h.state = "read"
  /\ account' = IF h.loaded = None THEN account ELSE [account EXCEPT !.jti = None, !.fresh = FALSE]
  /\ Becomes(h, Answered(h, 204))
  /\ UNCHANGED <<issued, live, store, tabs, calls, events, causes>>

Handle(h) ==
  \/ GetCurrentUser(h) \/ ReadForRefresh(h) \/ ReadForLogin(h)
  \/ SetRefreshToken(h) \/ ClearRefreshToken(h)

(* An admin deactivates the account, or reactivates it.  Neither touches   *)
(* the tokens.                                                             *)
SetActive(active) ==
  /\ Event /\ account.active # active
  /\ account' = [account EXCEPT !.active = active]
  /\ UNCHANGED <<issued, live, store, tabs, calls, handlers, causes>>

(* The lifetime of the stored access token ends.  (That of one replaced    *)
(* meanwhile may end too; it is then the 401 of a call sent before.)       *)
AccessTokenExpires ==
  /\ store.access \in live
  /\ live' = live \ {store.access}
  /\ UNCHANGED <<account, issued, store, tabs, calls, handlers, events, causes>>

RefreshTokenExpires ==
  /\ Event /\ account.jti # None /\ account.fresh
  /\ account' = [account EXCEPT !.fresh = FALSE]
  /\ UNCHANGED <<issued, live, store, tabs, calls, handlers, causes>>

-----------------------------------------------------------------------------
(* The browser.                                                            *)

(* Requests whose sender is gone run on at the server; answers that it had *)
(* still to receive are dropped.                                           *)
Abandon(hs, xs) ==
  {h \in hs : h.to \notin xs} \cup
  {[h EXCEPT !.to = Nobody] : h \in {g \in hs : g.to \in xs /\ g.state # "done"}}

(* A page is loaded: its calls are gone, and AuthProvider takes the user   *)
(* from what the storage s holds.                                          *)
Load(t, s, hs) ==
  /\ store' = IF s.access # None /\ ~ s.user THEN Cleared ELSE s
  /\ tabs' = [tabs EXCEPT ![t] = [user |-> s.access # None /\ s.user, refreshing |-> FALSE]]
  /\ calls' = [c \in Calls |-> IF c \in Mine(t) THEN Done ELSE calls[c]]
  /\ handlers' = Abandon(hs, Mine(t) \cup {t})

Reload(t) ==
  /\ Event
  /\ Load(t, store, handlers)
  /\ causes' = IF tabs[t].refreshing THEN Disturbed("aborted") ELSE causes
  /\ UNCHANGED <<account, issued, live>>

(* The request interceptor attaches the stored access token.               *)
Send(c, t, op) ==
  /\ tabs[t].user /\ calls[c] = Idle
  /\ calls' = [calls EXCEPT ![c] = CallOf(t, op, "sent", FALSE)]
  /\ handlers' = handlers \cup {Request(c, c, op, store.access)}
  /\ causes' = IF op = "logout" THEN Disturbed("logout") ELSE causes
  /\ UNCHANGED <<account, issued, live, store, tabs, events>>

(* A login beside a refresh leaves one of the two without a good token.    *)
Login(to) ==
  /\ Event
  /\ IF to \in Tabs THEN ~ tabs[to].user ELSE TRUE
  /\ \A h \in handlers : h.to # to
  /\ handlers' = handlers \cup {Request(to, to, "login", None)}
  /\ causes' = Disturbed("login")
  /\ UNCHANGED <<account, issued, live, store, tabs, calls>>

\* Mutant: every call that is refused starts a refresh of its own.
RefreshingNever(t) == FALSE

(* refreshPromise: a refresh of this tab that a call can wait for.         *)
Refreshing(t) == tabs[t].refreshing

(* Another tab's refresh is under way with the token this one would use.   *)
Beside(t) == \E u \in Tabs \ {t} : tabs[u].refreshing

(* An answer to a call.  401 the first time: wait for a refresh, started   *)
(* unless there is one; without a refresh token, load the login page.      *)
Unauthorized(h, c) ==
  LET t == calls[c].tab
      asks == [calls EXCEPT ![c] = CallOf(t, @.op, "waiting", TRUE)]
  IN  /\ h.answer = 401 /\ ~ calls[c].retried
      /\ IF Refreshing(t)
         THEN /\ calls' = asks /\ handlers' = handlers \ {h}
              /\ UNCHANGED <<store, tabs, causes>>
         ELSE IF store.refresh # None
         THEN /\ calls' = asks
              /\ handlers' = (handlers \ {h}) \cup {Request(t, c, "refresh", store.refresh)}
              /\ tabs' = [tabs EXCEPT ![t].refreshing = TRUE]
              /\ causes' = IF Beside(t) THEN Disturbed("beside") ELSE causes
              /\ UNCHANGED store
         ELSE /\ Load(t, IF calls[c].op = "logout" THEN Cleared ELSE store, handlers \ {h})
              /\ UNCHANGED causes
      /\ UNCHANGED <<account, issued, live, events>>

(* Any other end of a call.  A logout clears the storage whatever came.    *)
Settle(c, hs) ==
  /\ calls' = [calls EXCEPT ![c] = Done]
  /\ handlers' = hs
  /\ IF calls[c].op = "logout"
     THEN store' = Cleared /\ tabs' = [tabs EXCEPT ![calls[c].tab].user = FALSE]
     ELSE UNCHANGED <<store, tabs>>

CallAnswered(h) ==
  /\ h.to \in Calls /\ h.state = "done"
  /\ \/ Unauthorized(h, h.to)
     \/ /\ ~ (h.answer = 401 /\ ~ calls[h.to].retried)
        /\ Settle(h.to, handlers \ {h})
        /\ UNCHANGED <<account, issued, live, events, causes>>

\* Mutant: only the call that started the refresh is sent again.
ResumedStarter(t, h) == Waiting(t) \cap {h.for}

(* The tokens of a refresh are stored, and every call that waited is sent  *)
(* again with the new one.                                                 *)
Resumed(t, h) == Waiting(t)

Refreshed(h) ==
  LET t == h.to
      again == {Request(c, c, calls[c].op, h.token) : c \in Resumed(t, h)}
  IN  /\ h.op = "refresh" /\ h.to \in Tabs /\ h.state = "done" /\ h.answer = 200
      /\ store' = [store EXCEPT !.access = h.token, !.refresh = h.token]
      /\ tabs' = [tabs EXCEPT ![t].refreshing = FALSE]
      /\ calls' = [c \in Calls |-> IF c \in Resumed(t, h) THEN CallOf(t, calls[c].op, "sent", TRUE)
                                   ELSE calls[c]]
      /\ handlers' = (handlers \ {h}) \cup again
      /\ UNCHANGED <<account, issued, live, events, causes>>

(* A refresh refused or failed: the session is cleared, the calls that     *)
(* waited are rejected, and the login page is loaded.                      *)
RefreshRefused(h) ==
  /\ h.op = "refresh" /\ h.to \in Tabs /\ h.state = "done" /\ h.answer = 401
  /\ Load(h.to, Cleared, handlers \ {h})
  /\ UNCHANGED <<account, issued, live, events, causes>>

LoginAnswered(h) ==
  /\ h.op = "login" /\ h.to \in Tabs /\ h.state = "done"
  /\ handlers' = handlers \ {h}
  /\ IF h.answer = 200
     THEN /\ store' = [access |-> h.token, refresh |-> h.token, user |-> TRUE]
          /\ tabs' = [tabs EXCEPT ![h.to].user = TRUE]
          /\ causes' = IF handlers = {h} /\ account.jti = h.token
                      THEN {} ELSE causes
     ELSE UNCHANGED <<store, tabs, causes>>
  /\ UNCHANGED <<account, issued, live, calls, events>>

Deliver(h) ==
  CallAnswered(h) \/ Refreshed(h) \/ RefreshRefused(h) \/ LoginAnswered(h)

(* The network fails or the client's timeout ends the wait: the request is *)
(* lost, or runs on at the server.                                         *)
Lose(h) ==
  /\ Event /\ h.to \in Calls \cup Tabs
  /\ \E arrives \in BOOLEAN :
       LET rest == (handlers \ {h}) \cup (IF arrives THEN Abandon({h}, {h.to}) ELSE {})
       IN  CASE h.to \in Calls -> Settle(h.to, rest)
             [] h.op = "refresh" -> Load(h.to, Cleared, rest)
             [] OTHER -> handlers' = rest /\ UNCHANGED <<store, tabs, calls>>
  /\ causes' = Disturbed("lost")
  /\ UNCHANGED <<account, issued, live>>

Next ==
  \/ \E h \in handlers : Handle(h) \/ Deliver(h) \/ Lose(h)
  \/ \E c \in Calls, t \in Tabs, op \in {"fetch", "logout"} : Send(c, t, op)
  \/ \E to \in Tabs \cup {Elsewhere} : Login(to)
  \/ \E t \in Tabs : Reload(t)
  \/ \E active \in BOOLEAN : SetActive(active)
  \/ AccessTokenExpires
  \/ RefreshTokenExpires

(* What is under way goes on: the server runs a request it has and the     *)
(* answer arrives or is given up.  Nothing is promised of what the user,   *)
(* an admin or a token's lifetime do.                                      *)
Progress(to) == \E h \in handlers : h.to = to /\ (Handle(h) \/ Deliver(h))

Spec == Init /\ [][Next]_vars /\ \A to \in Calls \cup Tabs : WF_vars(Progress(to))

-----------------------------------------------------------------------------
(* The silent refresh never costs the session: one refused is one of an    *)
(* account deactivated or a session left to expire, unless the user logged *)
(* out or in, or a refresh was lost, was cut off by a page load, or ran    *)
(* beside that of another tab.  However many calls of a tab are answered   *)
(* 401 and however late, they share one refresh or use a token that the    *)
(* next one accepts.                                                       *)
StaysSignedIn ==
  [][\A h \in handlers :
       h.op = "refresh" /\ h.state = "arrived" /\ Answered(h, 401) \in handlers' =>
         causes # {} \/ ~ account.active \/ ~ account.fresh]_vars

(* A logout ends the session, whatever other requests it overlaps: from    *)
(* its commit on, only a login opens the session again, or a refresh that  *)
(* had read the account before that, while it still had a token.  No       *)
(* refresh that arrives later does, with whatever token.                   *)
LogoutEnds ==
  [][account.jti = None /\ account'.jti # None =>
       \E h \in handlers \ handlers' :
         h.state = "read" /\ (h.op = "login" \/ (h.op = "refresh" /\ h.loaded # None))]_vars

(* Every call a page makes comes to an end, with its answer, an error or   *)
(* the login page: none waits for ever on a refresh that another call      *)
(* started, that failed, or that was answered for the others only.         *)
CallsSettle == \A c \in Calls : (calls[c].state \in {"sent", "waiting"}) ~> (calls[c].state = "done")
=============================================================================
