---------------------------- MODULE SessionsProofs ----------------------------
(***************************************************************************)
(* Proofs about Sessions, for any number of tabs, calls and bounded        *)
(* events: a logout ends the session (SessionInv), the silent refresh      *)
(* alone never does (SignedInv), and the types, with the count of tokens   *)
(* and of the requests of each call (CountInv).                            *)
(***************************************************************************)
EXTENDS Sessions, FiniteSetTheorems, TLAPS

Senders == Calls \cup Tabs \cup {Nobody, Elsewhere}

Handler == [to : Senders, for : Senders, op : {"fetch", "logout", "refresh", "login"},
            token : Nat, state : {"arrived", "read", "done"}, loaded : Nat, answer : Nat]

Call == [state : {"idle", "sent", "waiting", "done"}, tab : Tabs \cup {Nobody},
         op : {"fetch", "logout"}, retried : BOOLEAN]

Causes == {"aborted", "logout", "login", "beside", "lost"}

Shape ==
  /\ account \in [jti : Nat, fresh : BOOLEAN, active : BOOLEAN]
  /\ issued \in Nat
  /\ store \in [access : Nat, refresh : Nat, user : BOOLEAN]
  /\ calls \in [Calls -> Call]
  /\ causes \in SUBSET Causes

(* A refresh carries a token, and one that has still to write had read an  *)
(* account with a token.                                                   *)
Harmless(h) ==
  /\ h \in Handler
  /\ h.op = "refresh" /\ h.state = "arrived" => h.token # None
  /\ h.op = "refresh" /\ h.state = "read" => h.loaded # None

AllHarmless(hs) == \A h \in hs : Harmless(h)

(***************************************************************************)
(* The inductive invariant of Spec.                                        *)
(***************************************************************************)
SessionInv == Shape /\ AllHarmless(handlers)

-----------------------------------------------------------------------------
LEMMA RequestHarmless ==
  ASSUME NEW to \in Senders, NEW for \in Senders, NEW op \in {"fetch", "logout", "refresh", "login"},
         NEW token \in Nat, op = "refresh" => token # None
  PROVE  Harmless(Request(to, for, op, token))
BY DEF Harmless, Request, Handler, None

LEMMA AnsweredHarmless ==
  ASSUME NEW h \in Handler, NEW status \in Nat
  PROVE  /\ Harmless(Answered(h, status))
         /\ \A token \in Nat : Harmless([Answered(h, status) EXCEPT !.token = token])
BY DEF Harmless, Answered, Handler, None

LEMMA AbandonHarmless ==
  ASSUME NEW hs, NEW xs, AllHarmless(hs)
  PROVE  AllHarmless(Abandon(hs, xs))
<1>1. ASSUME NEW h \in hs PROVE Harmless([h EXCEPT !.to = Nobody])
  BY DEF AllHarmless, Harmless, Handler, Senders
<1>2. QED
  BY <1>1 DEF AllHarmless, Abandon

LEMMA BecomesHarmless ==
  ASSUME NEW h \in handlers, NEW g, AllHarmless(handlers),
         Harmless(g), Becomes(h, g)
  PROVE  AllHarmless(handlers')
BY DEF Becomes, AllHarmless

LEMMA CallFacts ==
  /\ Idle \in Call /\ Done \in Call
  /\ \A t \in Tabs \cup {Nobody}, op \in {"fetch", "logout"}, state \in {"sent", "waiting"}, retried \in BOOLEAN :
       CallOf(t, op, state, retried) \in Call
BY DEF Idle, Done, Call, CallOf

LEMMA InitInv ==
  ASSUME Init
  PROVE  SessionInv
BY CallFacts DEF Init, SessionInv, Shape, AllHarmless

-----------------------------------------------------------------------------
(* The server.                                                             *)
LEMMA HandleInv ==
  ASSUME SessionInv, NEW h \in handlers, Handle(h)
  PROVE  SessionInv'
<1>1. h \in Handler /\ Harmless(h) /\ AllHarmless(handlers)
  BY DEF SessionInv, AllHarmless, Harmless
<1>2. CASE GetCurrentUser(h)
  <2> DEFINE g == IF h.token \notin live THEN Answered(h, 401)
                  ELSE IF ~ account.active THEN Answered(h, 403)
                  ELSE IF h.op = "fetch" THEN Answered(h, 200)
                  ELSE [h EXCEPT !.state = "read", !.loaded = account.jti]
  <2>1. h.op # "refresh" /\ Becomes(h, g)
    BY <1>2 DEF GetCurrentUser
  <2>2. Harmless([h EXCEPT !.state = "read", !.loaded = account.jti])
    BY <1>1, <2>1 DEF Harmless, Handler, SessionInv, Shape, None
  <2>3. Harmless(g)
    BY <1>1, <2>2, AnsweredHarmless
  <2> HIDE DEF g
  <2>4. AllHarmless(handlers')
    BY <1>1, <2>1, <2>3, BecomesHarmless
  <2>5. QED
    BY <1>2, <2>4 DEF GetCurrentUser, SessionInv, Shape
<1>3. CASE ReadForRefresh(h)
  <2> DEFINE g == IF account.active /\ Accepts(h)
                  THEN [h EXCEPT !.state = "read", !.loaded = account.jti]
                  ELSE Answered(h, 401)
  <2>1. h.op = "refresh" /\ h.state = "arrived" /\ Becomes(h, g)
    BY <1>3 DEF ReadForRefresh
  <2>2. Accepts(h) => account.jti # None
    BY <1>1, <2>1 DEF Accepts, Harmless
  <2>3. Accepts(h) => Harmless([h EXCEPT !.state = "read", !.loaded = account.jti])
    BY <1>1, <2>2 DEF Harmless, Handler, SessionInv, Shape, None
  <2>4. Harmless(g)
    BY <1>1, <2>3, AnsweredHarmless
  <2> HIDE DEF g
  <2>5. AllHarmless(handlers')
    BY <1>1, <2>1, <2>4, BecomesHarmless
  <2>6. QED
    BY <1>3, <2>5 DEF ReadForRefresh, SessionInv, Shape
<1>4. CASE ReadForLogin(h)
  <2> DEFINE g == IF account.active THEN [h EXCEPT !.state = "read", !.loaded = account.jti]
                  ELSE Answered(h, 403)
  <2>1. h.op = "login" /\ Becomes(h, g)
    BY <1>4 DEF ReadForLogin
  <2>2. Harmless([h EXCEPT !.state = "read", !.loaded = account.jti])
    BY <1>1, <2>1 DEF Harmless, Handler, SessionInv, Shape, None
  <2>3. Harmless(g)
    BY <1>1, <2>2, AnsweredHarmless
  <2> HIDE DEF g
  <2>4. AllHarmless(handlers')
    BY <1>1, <2>1, <2>3, BecomesHarmless
  <2>5. QED
    BY <1>4, <2>4 DEF ReadForLogin, SessionInv, Shape
<1>5. CASE SetRefreshToken(h)
  <2>1. issued' \in Nat /\ issued' = issued + 1 /\ account' = [account EXCEPT !.jti = issued', !.fresh = TRUE]
    BY <1>5 DEF SetRefreshToken, SessionInv, Shape
  <2>2. Harmless([Answered(h, 200) EXCEPT !.token = issued'])
    BY <1>1, <2>1, AnsweredHarmless
  <2>3. AllHarmless(handlers')
    BY <1>1, <1>5, <2>2, BecomesHarmless DEF SetRefreshToken
  <2>4. QED
    BY <1>5, <2>1, <2>3 DEF SetRefreshToken, SessionInv, Shape
<1>6. CASE ClearRefreshToken(h)
  <2>1. AllHarmless(handlers')
    BY <1>1, <1>6, AnsweredHarmless, BecomesHarmless DEF ClearRefreshToken
  <2>2. account' \in [jti : Nat, fresh : BOOLEAN, active : BOOLEAN]
    BY <1>6 DEF ClearRefreshToken, SessionInv, Shape, None
  <2>3. QED
    BY <1>6, <2>1, <2>2 DEF ClearRefreshToken, SessionInv, Shape
<1>7. QED
  BY <1>2, <1>3, <1>4, <1>5, <1>6 DEF Handle

-----------------------------------------------------------------------------
(* The browser.  The account is as before.                                 *)
LEMMA BrowserInv ==
  ASSUME SessionInv, UNCHANGED <<account, issued>>,
         causes' \in SUBSET Causes,
         store' \in [access : Nat, refresh : Nat, user : BOOLEAN], calls' \in [Calls -> Call],
         AllHarmless(handlers')
  PROVE  SessionInv'
BY DEF SessionInv, Shape

LEMMA DisturbedFacts ==
  ASSUME SessionInv, NEW cause \in Causes
  PROVE  Disturbed(cause) \in SUBSET Causes
BY DEF SessionInv, Shape, Disturbed

LEMMA ClearedType == Cleared \in [access : Nat, refresh : Nat, user : BOOLEAN]
BY DEF Cleared, None

LEMMA LoadFacts ==
  ASSUME SessionInv, NEW t, NEW s \in [access : Nat, refresh : Nat, user : BOOLEAN],
         NEW hs, AllHarmless(hs), Load(t, s, hs)
  PROVE  /\ store' \in [access : Nat, refresh : Nat, user : BOOLEAN]
         /\ calls' \in [Calls -> Call]
         /\ AllHarmless(handlers')
<1>1. store' \in [access : Nat, refresh : Nat, user : BOOLEAN]
  BY ClearedType DEF Load
<1>2. calls' \in [Calls -> Call]
  BY CallFacts DEF Load, SessionInv, Shape
<1>3. AllHarmless(handlers')
  BY AbandonHarmless DEF Load
<1>4. QED
  BY <1>1, <1>2, <1>3

LEMMA SettleFacts ==
  ASSUME SessionInv, NEW c \in Calls, NEW hs, AllHarmless(hs), Settle(c, hs)
  PROVE  /\ store' \in [access : Nat, refresh : Nat, user : BOOLEAN]
         /\ calls' \in [Calls -> Call]
         /\ AllHarmless(handlers')
<1>1. store' \in [access : Nat, refresh : Nat, user : BOOLEAN]
  BY ClearedType DEF Settle, SessionInv, Shape
<1>2. calls' \in [Calls -> Call]
  BY CallFacts DEF Settle, SessionInv, Shape
<1>3. QED
  BY <1>1, <1>2 DEF Settle

LEMMA FewerHarmless ==
  ASSUME SessionInv, NEW hs \in SUBSET handlers
  PROVE  AllHarmless(hs)
BY DEF SessionInv, AllHarmless

LEMMA SendInv ==
  ASSUME SessionInv, NEW c \in Calls, NEW t \in Tabs, NEW op \in {"fetch", "logout"}, Send(c, t, op)
  PROVE  SessionInv'
<1>1. Harmless(Request(c, c, op, store.access))
  BY RequestHarmless DEF Senders, SessionInv, Shape
<1>2. AllHarmless(handlers')
  BY <1>1, FewerHarmless DEF Send, AllHarmless
<1>3. calls' \in [Calls -> Call]
  BY CallFacts DEF Send, SessionInv, Shape
<1>4. causes' \in SUBSET Causes
  BY DisturbedFacts DEF Causes, Send, SessionInv, Shape
<1>5. UNCHANGED <<account, issued>> /\ store' \in [access : Nat, refresh : Nat, user : BOOLEAN]
  BY DEF Send, SessionInv, Shape
<1>6. QED
  BY <1>2, <1>3, <1>4, <1>5, BrowserInv

LEMMA LoginInv ==
  ASSUME SessionInv, NEW to \in Tabs \cup {Elsewhere}, Login(to)
  PROVE  SessionInv'
<1>1. Harmless(Request(to, to, "login", None))
  BY RequestHarmless DEF Senders, None
<1>2. AllHarmless(handlers')
  BY <1>1, FewerHarmless DEF Login, AllHarmless
<1>3. causes' \in SUBSET Causes
  BY DisturbedFacts DEF Causes, Login
<1>4. /\ UNCHANGED <<account, issued>> /\ store' \in [access : Nat, refresh : Nat, user : BOOLEAN]
      /\ calls' \in [Calls -> Call]
  BY DEF Login, SessionInv, Shape
<1>5. QED
  BY <1>2, <1>3, <1>4, BrowserInv

LEMMA ReloadInv ==
  ASSUME SessionInv, NEW t \in Tabs, Reload(t)
  PROVE  SessionInv'
<1>1. AllHarmless(handlers) /\ store \in [access : Nat, refresh : Nat, user : BOOLEAN]
  BY DEF SessionInv, Shape
<1>2. /\ store' \in [access : Nat, refresh : Nat, user : BOOLEAN] /\ calls' \in [Calls -> Call]
      /\ AllHarmless(handlers')
  BY <1>1, LoadFacts DEF Reload
<1>3. causes' \in SUBSET Causes
  BY DisturbedFacts DEF Causes, Reload, SessionInv, Shape
<1>4. QED
  BY <1>2, <1>3, BrowserInv DEF Reload

LEMMA UnauthorizedInv ==
  ASSUME SessionInv, NEW h \in handlers, NEW c \in Calls, Unauthorized(h, c)
  PROVE  SessionInv'
<1> DEFINE t == calls[c].tab
           asks == [calls EXCEPT ![c] = CallOf(t, @.op, "waiting", TRUE)]
<1>1. t \in Tabs \cup {Nobody} /\ asks \in [Calls -> Call]
  <2>1. calls[c] \in Call
    BY DEF SessionInv, Shape
  <2>2. t \in Tabs \cup {Nobody} /\ calls[c].op \in {"fetch", "logout"}
    BY <2>1 DEF Call
  <2>3. CallOf(t, calls[c].op, "waiting", TRUE) \in Call
    BY <2>2, CallFacts
  <2>4. QED
    BY <2>2, <2>3 DEF SessionInv, Shape
<1>2. /\ UNCHANGED <<account, issued>> /\ AllHarmless(handlers \ {h})
      /\ store \in [access : Nat, refresh : Nat, user : BOOLEAN]
      /\ causes \in SUBSET Causes
  BY FewerHarmless DEF Unauthorized, SessionInv, Shape
<1>3. CASE /\ calls' = asks /\ handlers' = handlers \ {h}
           /\ UNCHANGED <<store, tabs, causes>>
  BY <1>1, <1>2, <1>3, BrowserInv
<1>4. CASE /\ store.refresh # None /\ calls' = asks
           /\ handlers' = (handlers \ {h}) \cup {Request(t, c, "refresh", store.refresh)}
           /\ causes' = IF Beside(t) THEN Disturbed("beside") ELSE causes
           /\ UNCHANGED store
  <2>1. Harmless(Request(t, c, "refresh", store.refresh))
    BY <1>1, <1>2, <1>4, RequestHarmless DEF Senders
  <2>2. AllHarmless(handlers')
    BY <1>2, <1>4, <2>1 DEF AllHarmless
  <2>3. causes' \in SUBSET Causes
    BY <1>2, <1>4, DisturbedFacts DEF Causes
  <2>4. QED
    BY <1>1, <1>2, <1>4, <2>2, <2>3, BrowserInv
<1>5. CASE /\ Load(t, IF calls[c].op = "logout" THEN Cleared ELSE store, handlers \ {h})
           /\ UNCHANGED causes
  <2>1. /\ store' \in [access : Nat, refresh : Nat, user : BOOLEAN] /\ calls' \in [Calls -> Call]
        /\ AllHarmless(handlers')
    BY <1>2, <1>5, LoadFacts, ClearedType
  <2>2. QED
    BY <1>2, <1>5, <2>1, BrowserInv
<1>6. QED
  BY <1>3, <1>4, <1>5 DEF Unauthorized

LEMMA AnsweredCallInv ==
  ASSUME SessionInv, NEW h \in handlers, CallAnswered(h)
  PROVE  SessionInv'
<1>1. CASE Unauthorized(h, h.to)
  BY <1>1, UnauthorizedInv DEF CallAnswered
<1>2. CASE Settle(h.to, handlers \ {h}) /\ UNCHANGED <<account, issued, live, events, causes>>
  <2>1. AllHarmless(handlers \ {h}) /\ h.to \in Calls
    BY FewerHarmless DEF CallAnswered
  <2>2. /\ store' \in [access : Nat, refresh : Nat, user : BOOLEAN] /\ calls' \in [Calls -> Call]
        /\ AllHarmless(handlers')
    BY <1>2, <2>1, SettleFacts
  <2>3. causes' \in SUBSET Causes
    BY <1>2 DEF SessionInv, Shape
  <2>4. QED
    BY <1>2, <2>2, <2>3, BrowserInv
<1>3. QED
  BY <1>1, <1>2 DEF CallAnswered

LEMMA RefreshedInv ==
  ASSUME SessionInv, NEW h \in handlers, Refreshed(h)
  PROVE  SessionInv'
<1> DEFINE again == {Request(c, c, calls[c].op, h.token) : c \in Resumed(h.to, h)}
<1>1. h \in Handler /\ h.to \in Tabs /\ AllHarmless(handlers \ {h})
  BY FewerHarmless DEF Refreshed, SessionInv, AllHarmless, Harmless
<1>2. ASSUME NEW c \in Resumed(h.to, h)
      PROVE  /\ Harmless(Request(c, c, calls[c].op, h.token))
             /\ CallOf(h.to, calls[c].op, "sent", TRUE) \in Call
  <2>1. c \in Calls
    BY <1>2 DEF Resumed, Waiting, Mine
  <2>2. calls[c] \in Call
    BY <2>1 DEF SessionInv, Shape
  <2>3. calls[c].op \in {"fetch", "logout"} /\ h.token \in Nat /\ c \in Senders
    BY <1>1, <2>1, <2>2 DEF Call, Handler, Senders
  <2>4. QED
    BY <1>1, <2>3, RequestHarmless, CallFacts
<1>3. handlers' = (handlers \ {h}) \cup again
  BY DEF Refreshed
<1>4. \A g \in again : Harmless(g)
  BY <1>2
<1> HIDE DEF again
<1>5. AllHarmless(handlers')
  BY <1>1, <1>3, <1>4 DEF AllHarmless
<1>6. calls' \in [Calls -> Call]
  BY <1>2 DEF Refreshed, SessionInv, Shape
<1>7. store' \in [access : Nat, refresh : Nat, user : BOOLEAN]
  BY <1>1 DEF Refreshed, SessionInv, Shape, Handler
<1>8. /\ UNCHANGED <<account, issued>>
      /\ causes' \in SUBSET Causes
  BY DEF Refreshed, SessionInv, Shape
<1>9. QED
  BY <1>5, <1>6, <1>7, <1>8, BrowserInv

LEMMA RefreshRefusedInv ==
  ASSUME SessionInv, NEW h \in handlers, RefreshRefused(h)
  PROVE  SessionInv'
<1>1. /\ store' \in [access : Nat, refresh : Nat, user : BOOLEAN] /\ calls' \in [Calls -> Call]
      /\ AllHarmless(handlers')
  BY LoadFacts, FewerHarmless, ClearedType DEF RefreshRefused
<1>2. /\ UNCHANGED <<account, issued>>
      /\ causes' \in SUBSET Causes
  BY DEF RefreshRefused, SessionInv, Shape
<1>3. QED
  BY <1>1, <1>2, BrowserInv

LEMMA LoginAnsweredInv ==
  ASSUME SessionInv, NEW h \in handlers, LoginAnswered(h)
  PROVE  SessionInv'
<1>1. h \in Handler /\ AllHarmless(handlers')
  BY FewerHarmless DEF LoginAnswered, SessionInv, AllHarmless, Harmless
<1>2. store' \in [access : Nat, refresh : Nat, user : BOOLEAN]
  <2>1. h.token \in Nat
    BY <1>1 DEF Handler
  <2>2. CASE store' = [access |-> h.token, refresh |-> h.token, user |-> TRUE]
    BY <2>1, <2>2
  <2>3. CASE store' = store
    BY <2>3 DEF SessionInv, Shape
  <2>4. QED
    BY <2>2, <2>3 DEF LoginAnswered
<1>3. /\ UNCHANGED <<account, issued>> /\ calls' \in [Calls -> Call]
      /\ causes' \in SUBSET Causes
  BY DEF LoginAnswered, SessionInv, Shape
<1>4. QED
  BY <1>1, <1>2, <1>3, BrowserInv

LEMMA LoseInv ==
  ASSUME SessionInv, NEW h \in handlers, Lose(h)
  PROVE  SessionInv'
<1>1. PICK rest : /\ rest = (handlers \ {h}) \cup Abandon({h}, {h.to}) \/ rest = handlers \ {h}
                  /\ \/ h.to \in Calls /\ Settle(h.to, rest)
                     \/ Load(h.to, Cleared, rest)
                     \/ handlers' = rest /\ UNCHANGED <<store, tabs, calls>>
  BY DEF Lose
<1>2. AllHarmless(rest)
  <2>1. AllHarmless({h}) /\ AllHarmless(handlers \ {h})
    BY FewerHarmless
  <2>2. AllHarmless(Abandon({h}, {h.to}))
    BY <2>1, AbandonHarmless
  <2>3. QED
    BY <1>1, <2>1, <2>2 DEF AllHarmless
<1>3. /\ store' \in [access : Nat, refresh : Nat, user : BOOLEAN] /\ calls' \in [Calls -> Call]
      /\ AllHarmless(handlers')
  <2>1. CASE h.to \in Calls /\ Settle(h.to, rest)
    BY <1>2, <2>1, SettleFacts
  <2>2. CASE Load(h.to, Cleared, rest)
    BY <1>2, <2>2, LoadFacts, ClearedType
  <2>3. CASE handlers' = rest /\ UNCHANGED <<store, tabs, calls>>
    BY <1>2, <2>3 DEF SessionInv, Shape
  <2>4. QED
    BY <1>1, <2>1, <2>2, <2>3
<1>4. causes' \in SUBSET Causes
  BY DisturbedFacts DEF Causes, Lose
<1>5. QED
  BY <1>3, <1>4, BrowserInv DEF Lose

-----------------------------------------------------------------------------
LEMMA StepInv ==
  ASSUME SessionInv, [Next]_vars
  PROVE  SessionInv'
<1>1. CASE \E h \in handlers : Handle(h) \/ Deliver(h) \/ Lose(h)
  BY <1>1, HandleInv, AnsweredCallInv, RefreshedInv, RefreshRefusedInv, LoginAnsweredInv, LoseInv
     DEF Deliver
<1>2. CASE \E c \in Calls, t \in Tabs, op \in {"fetch", "logout"} : Send(c, t, op)
  BY <1>2, SendInv
<1>3. CASE \E to \in Tabs \cup {Elsewhere} : Login(to)
  BY <1>3, LoginInv
<1>4. CASE \E t \in Tabs : Reload(t)
  BY <1>4, ReloadInv
<1>5. ASSUME UNCHANGED <<issued, store, calls, handlers, causes>>, account'.jti = account.jti,
             account' \in [jti : Nat, fresh : BOOLEAN, active : BOOLEAN]
      PROVE  SessionInv'
  BY <1>5 DEF SessionInv, Shape
<1>6. CASE \E active \in BOOLEAN : SetActive(active)
  BY <1>5, <1>6 DEF SetActive, SessionInv, Shape
<1>7. CASE RefreshTokenExpires
  BY <1>5, <1>7 DEF RefreshTokenExpires, SessionInv, Shape
<1>8. CASE AccessTokenExpires \/ UNCHANGED vars
  BY <1>5, <1>8 DEF AccessTokenExpires, vars, SessionInv, Shape
<1>9. QED
  BY <1>1, <1>2, <1>3, <1>4, <1>6, <1>7, <1>8 DEF Next

(* The inductive invariant holds in every state.                           *)
THEOREM SessionInvHolds == Spec => []SessionInv
<1>1. Init => SessionInv
  BY InitInv
<1>2. SessionInv /\ [Next]_vars => SessionInv'
  BY StepInv
<1>3. QED
  BY <1>1, <1>2, PTL DEF Spec

(* Only a refresh or a login that has read the account opens a session     *)
(* that was ended.                                                         *)
LEMMA OnlySetRefreshToken ==
  ASSUME SessionInv, Next, account.jti = None, account'.jti # None
  PROVE  \E h \in handlers : SetRefreshToken(h)
<1>1. ASSUME NEW h \in handlers, Handle(h) PROVE SetRefreshToken(h)
  BY <1>1 DEF Handle, GetCurrentUser, ReadForRefresh, ReadForLogin, ClearRefreshToken, SessionInv, Shape
<1>2. ASSUME NEW h \in handlers, Deliver(h) \/ Lose(h) PROVE account' = account
  BY <1>2 DEF Deliver, CallAnswered, Unauthorized, Refreshed, RefreshRefused, LoginAnswered, Lose
<1>3. ASSUME NEW active \in BOOLEAN, SetActive(active) PROVE account'.jti = account.jti
  BY <1>3 DEF SetActive, SessionInv, Shape
<1>4. ASSUME RefreshTokenExpires PROVE account'.jti = account.jti
  BY <1>4 DEF RefreshTokenExpires, SessionInv, Shape
<1>5. QED
  BY <1>1, <1>2, <1>3, <1>4 DEF Next, Send, Login, Reload, AccessTokenExpires

(* A logout ends the session, whatever requests it overlaps and however    *)
(* many tabs and calls there are: only a login opens it again, or a        *)
(* refresh that had read the account while it still had a token.           *)
THEOREM LogoutEndsSession == Spec => LogoutEnds
<1>1. ASSUME SessionInv, Next, account.jti = None, account'.jti # None
      PROVE  \E h \in handlers \ handlers' :
               h.state = "read" /\ (h.op = "login" \/ (h.op = "refresh" /\ h.loaded # None))
  <2>1. PICK h \in handlers : SetRefreshToken(h)
    BY <1>1, OnlySetRefreshToken
  <2>2. h.state = "read" /\ h.op \in {"refresh", "login"} /\ h \in Handler /\ Harmless(h)
    BY <1>1, <2>1 DEF SetRefreshToken, SessionInv, AllHarmless, Harmless
  <2>3. h \notin handlers'
    <3>1. [Answered(h, 200) EXCEPT !.token = issued'].state = "done"
      BY <2>2 DEF Answered, Handler
    <3>2. QED
      BY <2>1, <2>2, <3>1 DEF SetRefreshToken, Becomes
  <2>4. QED
    BY <2>2, <2>3 DEF Harmless
<1>2. SessionInv /\ [Next]_vars =>
        [account.jti = None /\ account'.jti # None =>
           \E h \in handlers \ handlers' :
             h.state = "read" /\ (h.op = "login" \/ (h.op = "refresh" /\ h.loaded # None))]_vars
  BY <1>1
<1>3. QED
  BY <1>2, SessionInvHolds, PTL DEF Spec, LogoutEnds

-----------------------------------------------------------------------------
(***************************************************************************)
(* Who waits for what: the second half of the invariant.                   *)
(***************************************************************************)
Tab == [user : BOOLEAN, refreshing : BOOLEAN]

(* A call of a page belongs to its tab until it is done, and waits only    *)
(* for a refresh, once.                                                    *)
Calling(cs, ts) ==
  \A c \in Calls :
    /\ cs[c].state = "idle" => cs[c] = Idle
    /\ cs[c].state = "done" => cs[c] = Done
    /\ cs[c].state \in {"sent", "waiting"} => cs[c].tab \in Tabs
    /\ cs[c].state = "waiting" => cs[c].retried /\ ts[cs[c].tab].refreshing

(* An answer to a call is to one that was sent.                            *)
Answering(cs, hs) ==
  \A h \in hs :
    /\ h.to \in Calls => cs[h.to].state = "sent" /\ h.op = cs[h.to].op
    /\ h.op \in {"fetch", "logout"} => h.to \in Calls \cup {Nobody}

(* At most one request of a kind is under way for a call or a tab.         *)
Single(hs) ==
  \A g, h \in hs : g.to = h.to /\ g.op = h.op /\ g.to \in Calls \cup Tabs => g = h

(* A call that was sent and a tab that is refreshing have a request that   *)
(* will answer them.                                                       *)
Served(cs, ts, hs) ==
  /\ \A c \in Calls : cs[c].state = "sent" => \E h \in hs : h.to = c
  /\ \A t \in Tabs : ts[t].refreshing <=> \E h \in hs : h.to = t /\ h.op = "refresh"

Linked(cs, ts, hs) ==
  /\ ts \in [Tabs -> Tab] /\ cs \in [Calls -> Call]
  /\ Calling(cs, ts) /\ Answering(cs, hs) /\ Single(hs) /\ Served(cs, ts, hs)

LinkInv == SessionInv /\ Linked(calls, tabs, handlers)

LEMMA RequestFacts ==
  \A to, for, op, token :
    LET r == Request(to, for, op, token)
    IN  /\ r.to = to /\ r.for = for /\ r.op = op /\ r.token = token
        /\ r.state = "arrived" /\ r.answer = 0
BY DEF Request

LEMMA IdleFacts ==
  /\ Idle.state = "idle" /\ Idle.op = "fetch" /\ Idle.retried = FALSE
  /\ Done.state = "done" /\ Done.op = "fetch" /\ Done.retried = FALSE
BY DEF Idle, Done

LEMMA SendersDiffer ==
  /\ Tabs \cap Calls = {} /\ Nobody \notin Tabs \cup Calls /\ Elsewhere \notin Tabs \cup Calls
  /\ Nobody # Elsewhere
BY CallsAssumption DEF Nobody, Elsewhere

(* A request at the server goes on to another state of the same one.       *)
LEMMA BecomesLinked ==
  ASSUME NEW cs, NEW ts, Linked(cs, ts, handlers), NEW h \in handlers, NEW g,
         g.to = h.to, g.op = h.op, Becomes(h, g)
  PROVE  Linked(cs, ts, handlers')
<1>1. \A x \in handlers' : x \in handlers \ {h} \/ x = g
  BY DEF Becomes
<1>2. \A x \in handlers : x = h \/ x \in handlers'
  BY DEF Becomes
<1>3. g \in handlers' \/ h.to \in {Nobody, Elsewhere}
  BY DEF Becomes
<1>4. Answering(cs, handlers')
  BY <1>1 DEF Linked, Answering
<1>5. Single(handlers')
  BY <1>1 DEF Linked, Single
<1>6. \A c \in Calls \cup Tabs : \A op : (\E x \in handlers : x.to = c /\ x.op = op) <=>
                                        (\E x \in handlers' : x.to = c /\ x.op = op)
  BY <1>1, <1>2, <1>3, SendersDiffer
<1>7. Served(cs, ts, handlers')
  <2>1. ASSUME NEW c \in Calls, cs[c].state = "sent" PROVE \E x \in handlers' : x.to = c
    <3>1. PICK x \in handlers : x.to = c
      BY <2>1 DEF Linked, Served
    <3>2. \E y \in handlers' : y.to = c /\ y.op = x.op
      BY <1>6, <3>1
    <3>3. QED
      BY <3>2
  <2>2. ASSUME NEW t \in Tabs
        PROVE  ts[t].refreshing <=> \E x \in handlers' : x.to = t /\ x.op = "refresh"
    BY <1>6 DEF Linked, Served
  <2>3. QED
    BY <2>1, <2>2 DEF Served
<1>8. QED
  BY <1>4, <1>5, <1>7 DEF Linked

(* Requests gone, with what they were for: the calls done and the tabs no  *)
(* longer refreshing.                                                      *)
Dropped(cs, ts, hs, cs2, ts2, hs2, gone) ==
  /\ cs2 \in [Calls -> Call] /\ ts2 \in [Tabs -> Tab]
  /\ \A g \in hs2 : g.to = Nobody \/ (g \in hs /\ g \notin gone)
  /\ \A g \in hs : g \in gone \/ g \in hs2
  /\ \A g \in gone : g.to \in Calls => cs2[g.to] = Done
  /\ \A g \in gone : g.op = "refresh" /\ g.to \in Tabs => ~ ts2[g.to].refreshing
  /\ \A c \in Calls : \/ cs2[c] = cs[c]
                      \/ cs2[c] = Done /\ \A h \in hs : h.to = c => h \in gone
  /\ \A t \in Tabs : \/ ts2[t].refreshing = ts[t].refreshing
                     \/ /\ ~ ts2[t].refreshing
                        /\ \A h \in hs : h.to = t /\ h.op = "refresh" => h \in gone
                        /\ \A c \in Calls : cs[c].tab = t => cs2[c] = Done

LEMMA DropLinked ==
  ASSUME NEW cs, NEW ts, NEW hs, Linked(cs, ts, hs), NEW cs2, NEW ts2, NEW hs2, NEW gone,
         Dropped(cs, ts, hs, cs2, ts2, hs2, gone)
  PROVE  Linked(cs2, ts2, hs2)
<1> USE DEF Dropped
<1>1. Calling(cs2, ts2)
  BY IdleFacts DEF Linked, Calling
<1>2. Answering(cs2, hs2)
  BY SendersDiffer DEF Linked, Answering
<1>3. Single(hs2)
  BY SendersDiffer DEF Linked, Single
<1>4. ASSUME NEW c \in Calls, cs2[c].state = "sent" PROVE \E h \in hs2 : h.to = c
  <2>1. cs2[c] = cs[c]
    BY <1>4, IdleFacts
  <2>2. PICK h \in hs : h.to = c
    BY <1>4, <2>1 DEF Linked, Served
  <2>3. h \notin gone
    BY <1>4, <2>2, IdleFacts
  <2>4. QED
    BY <2>2, <2>3
<1>5. ASSUME NEW t \in Tabs
      PROVE  ts2[t].refreshing <=> \E h \in hs2 : h.to = t /\ h.op = "refresh"
  <2>1. ts2[t].refreshing \in BOOLEAN /\ ts[t].refreshing \in BOOLEAN
    BY DEF Tab, Linked
  <2>2. ASSUME ts2[t].refreshing PROVE \E h \in hs2 : h.to = t /\ h.op = "refresh"
    <3>1. ts[t].refreshing
      BY <2>2
    <3>2. PICK h \in hs : h.to = t /\ h.op = "refresh"
      BY <3>1 DEF Linked, Served
    <3>3. h \notin gone
      BY <2>2, <3>2
    <3>4. QED
      BY <3>2, <3>3
  <2>3. ASSUME NEW h \in hs2, h.to = t, h.op = "refresh" PROVE ts2[t].refreshing
    <3>1. h \in hs /\ h \notin gone
      BY <2>3, SendersDiffer
    <3>2. ts[t].refreshing
      BY <2>3, <3>1 DEF Linked, Served
    <3>3. QED
      BY <2>3, <3>1, <3>2
  <2>4. QED
    BY <2>1, <2>2, <2>3
<1>6. QED
  BY <1>1, <1>2, <1>3, <1>4, <1>5 DEF Linked, Served

LEMMA HandlersTyped ==
  ASSUME SessionInv
  PROVE  /\ handlers \subseteq Handler
         /\ \A h \in handlers : h.op = "refresh" /\ h.state = "arrived" => h.token # None
BY DEF SessionInv, AllHarmless, Harmless

LEMMA AnsweredRequest ==
  ASSUME NEW h \in Handler, NEW status
  PROVE  LET a == Answered(h, status)
         IN  /\ a.to = h.to /\ a.for = h.for /\ a.op = h.op /\ a.state = "done"
             /\ a.token = None /\ a.answer = status
             /\ \A n : LET b == [a EXCEPT !.token = n]
                       IN  /\ b.to = h.to /\ b.for = h.for /\ b.op = h.op /\ b.state = "done"
                           /\ b.token = n /\ b.answer = status
BY DEF Handler, Answered

LEMMA ReadRequest ==
  ASSUME NEW h \in Handler, NEW n
  PROVE  LET r == [h EXCEPT !.state = "read", !.loaded = n]
         IN  /\ r.to = h.to /\ r.for = h.for /\ r.op = h.op /\ r.state = "read"
             /\ r.token = h.token /\ r.answer = h.answer
BY DEF Handler

(* The request h at the server goes on as g.                               *)
GoesOn(h, g) ==
  /\ Becomes(h, g)
  /\ g.to = h.to /\ g.op = h.op /\ g.for = h.for /\ g.state \in {"read", "done"}
  /\ UNCHANGED <<store, tabs, calls, events>>

(* A step that reads the account, and may refuse; the other two write.     *)
Looks(h, g) ==
  /\ h.state = "arrived"
  /\ g.state = "read" => g.token = h.token /\ g.answer = h.answer
  /\ g.state = "done" => g.token = None /\ g.answer \in {200, 401, 403}
  /\ g.state = "done" /\ h.op = "refresh" => g.answer = 401 /\ ~ (account.active /\ Accepts(h))
  /\ UNCHANGED <<account, issued, live, causes>>

Renews(h, g) ==
  /\ h.op \in {"refresh", "login"} /\ h.state = "read"
  /\ g.state = "done" /\ g.token = issued' /\ g.answer = 200
  /\ issued' = issued + 1 /\ live' = live \cup {issued'}
  /\ account' = [account EXCEPT !.jti = issued', !.fresh = TRUE]
  /\ causes' = causes

Ends(h, g) ==
  /\ h.op = "logout" /\ h.state = "read"
  /\ g.state = "done" /\ g.token = None /\ g.answer = 204
  /\ account' \in {account, [account EXCEPT !.jti = None, !.fresh = FALSE]}
  /\ causes' = causes
  /\ UNCHANGED <<issued, live>>

LEMMA LooksStep ==
  ASSUME SessionInv, NEW h \in handlers,
         GetCurrentUser(h) \/ ReadForRefresh(h) \/ ReadForLogin(h)
  PROVE  \E g : GoesOn(h, g) /\ Looks(h, g)
<1>1. h \in Handler
  BY HandlersTyped
<1> DEFINE read == [h EXCEPT !.state = "read", !.loaded = account.jti]
<1>2. /\ read.to = h.to /\ read.for = h.for /\ read.op = h.op /\ read.state = "read"
      /\ read.token = h.token /\ read.answer = h.answer
  BY <1>1, ReadRequest
<1>3. \A n : LET a == Answered(h, n)
             IN  /\ a.to = h.to /\ a.for = h.for /\ a.op = h.op /\ a.state = "done"
                 /\ a.token = None /\ a.answer = n
  BY <1>1, AnsweredRequest
<1>4. CASE GetCurrentUser(h)
  <2>1. PICK g \in {Answered(h, 401), Answered(h, 403), Answered(h, 200), read} : Becomes(h, g)
    BY <1>4 DEF GetCurrentUser
  <2> HIDE DEF read
  <2>2. GoesOn(h, g)
    BY <1>2, <1>3, <1>4, <2>1 DEF GoesOn, GetCurrentUser
  <2>3. Looks(h, g)
    BY <1>2, <1>3, <1>4, <2>1 DEF Looks, GetCurrentUser
  <2>4. QED
    BY <2>2, <2>3
<1>5. CASE ReadForRefresh(h)
  <2>1. \/ Becomes(h, read)
        \/ Becomes(h, Answered(h, 401)) /\ ~ (account.active /\ Accepts(h))
    BY <1>5 DEF ReadForRefresh
  <2> HIDE DEF read
  <2>2. ASSUME NEW g \in {Answered(h, 401), read}, Becomes(h, g) PROVE GoesOn(h, g)
    BY <1>2, <1>3, <1>5, <2>2 DEF GoesOn, ReadForRefresh
  <2>3. Looks(h, read)
    BY <1>2, <1>5 DEF Looks, ReadForRefresh
  <2>4. ~ (account.active /\ Accepts(h)) => Looks(h, Answered(h, 401))
    BY <1>3, <1>5 DEF Looks, ReadForRefresh
  <2>5. QED
    BY <2>1, <2>2, <2>3, <2>4
<1>6. CASE ReadForLogin(h)
  <2>1. PICK g \in {Answered(h, 403), read} : Becomes(h, g)
    BY <1>6 DEF ReadForLogin
  <2> HIDE DEF read
  <2>2. GoesOn(h, g)
    BY <1>2, <1>3, <1>6, <2>1 DEF GoesOn, ReadForLogin
  <2>3. Looks(h, g)
    BY <1>2, <1>3, <1>6, <2>1 DEF Looks, ReadForLogin
  <2>4. QED
    BY <2>2, <2>3
<1>7. QED
  BY <1>4, <1>5, <1>6

LEMMA RenewsStep ==
  ASSUME SessionInv, NEW h \in handlers, SetRefreshToken(h)
  PROVE  \E g : GoesOn(h, g) /\ Renews(h, g)
<1>1. h \in Handler /\ causes \in SUBSET Causes
  BY HandlersTyped DEF SessionInv, Shape
<1> DEFINE g == [Answered(h, 200) EXCEPT !.token = issued']
<1>2. /\ g.to = h.to /\ g.for = h.for /\ g.op = h.op /\ g.state = "done"
      /\ g.token = issued' /\ g.answer = 200
  BY <1>1, AnsweredRequest
<1>3. Becomes(h, g)
  BY DEF SetRefreshToken
<1> HIDE DEF g
<1>4. GoesOn(h, g)
  BY <1>2, <1>3 DEF GoesOn, SetRefreshToken
<1>5. Renews(h, g)
  BY <1>1, <1>2 DEF Renews, SetRefreshToken
<1>6. QED
  BY <1>4, <1>5

LEMMA EndsStep ==
  ASSUME SessionInv, NEW h \in handlers, ClearRefreshToken(h)
  PROVE  \E g : GoesOn(h, g) /\ Ends(h, g)
<1>1. h \in Handler /\ causes \in SUBSET Causes
  BY HandlersTyped DEF SessionInv, Shape
<1> DEFINE g == Answered(h, 204)
<1>2. /\ g.to = h.to /\ g.for = h.for /\ g.op = h.op /\ g.state = "done"
      /\ g.token = None /\ g.answer = 204
  BY <1>1, AnsweredRequest
<1>3. Becomes(h, g)
  BY DEF ClearRefreshToken
<1> HIDE DEF g
<1>4. GoesOn(h, g)
  BY <1>2, <1>3 DEF GoesOn, ClearRefreshToken
<1>5. Ends(h, g)
  BY <1>1, <1>2 DEF Ends, ClearRefreshToken
<1>6. QED
  BY <1>4, <1>5

LEMMA HandleStep ==
  ASSUME SessionInv, NEW h \in handlers, Handle(h)
  PROVE  \E g : GoesOn(h, g) /\ (Looks(h, g) \/ Renews(h, g) \/ Ends(h, g))
BY LooksStep, RenewsStep, EndsStep DEF Handle

(* Nothing the server does concerns who waits for what.                    *)
LEMMA HandleLinked ==
  ASSUME LinkInv, NEW h \in handlers, Handle(h)
  PROVE  Linked(calls', tabs', handlers')
<1>1. PICK g : GoesOn(h, g)
  BY HandleStep DEF LinkInv
<1>2. Linked(calls, tabs, handlers')
  BY <1>1, BecomesLinked DEF LinkInv, GoesOn
<1>3. QED
  BY <1>1, <1>2 DEF GoesOn

LEMMA AbandonFacts ==
  ASSUME NEW hs \in SUBSET Handler, NEW xs
  PROVE  /\ \A g \in Abandon(hs, xs) :
              \/ g \in hs /\ g.to \notin xs
              \/ \E h \in hs : /\ h.to \in xs /\ h.state # "done" /\ g = [h EXCEPT !.to = Nobody]
                               /\ g.to = Nobody /\ g.op = h.op /\ g.state = h.state /\ g.for = h.for
                               /\ g.token = h.token /\ g.answer = h.answer
         /\ \A h \in hs : h.to \in xs \/ h \in Abandon(hs, xs)
BY DEF Abandon, Handler

LEMMA AbandonKeeps ==
  ASSUME NEW hs \in SUBSET Handler, NEW xs
  PROVE  /\ \A g \in Abandon(hs, xs) : g.to = Nobody \/ (g \in hs /\ g.to \notin xs)
         /\ \A h \in hs : h.to \in xs \/ h \in Abandon(hs, xs)
BY AbandonFacts

LEMMA LoadLinked ==
  ASSUME LinkInv, NEW t \in Tabs, NEW s, NEW hs \in SUBSET Handler, Load(t, s, hs),
         \A g \in hs : g.to = Nobody \/ g \in handlers,
         \A g \in handlers : g \in hs \/ g.to \in Mine(t) \cup {t}
  PROVE  Linked(calls', tabs', handlers')
<1> DEFINE gone == {g \in handlers : g.to \in Mine(t) \cup {t}}
<1>1. Linked(calls, tabs, handlers)
  BY DEF LinkInv
<1>2. /\ calls' \in [Calls -> Call]
      /\ \A c \in Calls : calls'[c] = IF c \in Mine(t) THEN Done ELSE calls[c]
  BY <1>1, CallFacts DEF Load, Linked
<1>3. /\ tabs' \in [Tabs -> Tab]
      /\ \A u \in Tabs : IF u = t THEN ~ tabs'[u].refreshing ELSE tabs'[u] = tabs[u]
  <2>1. [user |-> s.access # None /\ s.user, refreshing |-> FALSE] \in [user : {s.access # None /\ s.user}, refreshing : BOOLEAN]
    OBVIOUS
  <2>2. QED
    BY <1>1 DEF Load, Linked, Tab
<1>4. Mine(t) \subseteq Calls /\ t \notin Calls /\ Mine(t) \cap Tabs = {}
  BY SendersDiffer DEF Mine
<1>5. /\ \A g \in handlers' : g.to = Nobody \/ (g \in handlers /\ g \notin gone)
      /\ \A g \in handlers : g \in gone \/ g \in handlers'
  <2> DEFINE xs == Mine(t) \cup {t}
  <2>1. handlers' = Abandon(hs, xs)
    BY DEF Load
  <2>2. /\ \A g \in handlers' : g.to = Nobody \/ (g \in hs /\ g.to \notin xs)
        /\ \A g \in hs : g.to \in xs \/ g \in handlers'
    <3> HIDE DEF xs
    <3>1. QED
      BY <2>1, AbandonKeeps
  <2>3. QED
    BY <2>2
<1>6. \A c \in Calls : calls[c].tab = t => c \in Mine(t)
  BY DEF Mine
<1>7. \A c \in Calls : \/ calls'[c] = calls[c]
                       \/ calls'[c] = Done /\ \A h \in handlers : h.to = c => h \in gone
  BY <1>2
<1>8. \A u \in Tabs : \/ tabs'[u].refreshing = tabs[u].refreshing
                      \/ /\ ~ tabs'[u].refreshing
                         /\ \A h \in handlers : h.to = u /\ h.op = "refresh" => h \in gone
                         /\ \A c \in Calls : calls[c].tab = u => calls'[c] = Done
  BY <1>2, <1>3, <1>6
<1>9. \A g \in gone : g.to \in Calls => calls'[g.to] = Done
  BY <1>2, <1>4
<1>10. \A g \in gone : g.op = "refresh" /\ g.to \in Tabs => ~ tabs'[g.to].refreshing
  BY <1>3, <1>4
<1> HIDE DEF gone
<1>11. Dropped(calls, tabs, handlers, calls', tabs', handlers', gone)
  BY <1>2, <1>3, <1>5, <1>7, <1>8, <1>9, <1>10 DEF Dropped
<1>12. QED
  BY <1>1, <1>11, DropLinked

LEMMA LinkFacts ==
  ASSUME LinkInv
  PROVE  /\ Linked(calls, tabs, handlers) /\ handlers \subseteq Handler
         /\ \A h \in handlers : h.op \in {"refresh", "login"} => h.to \notin Calls
         /\ \A g, h \in handlers : g.to = h.to /\ g.to \in Calls => g = h
<1>1. Linked(calls, tabs, handlers) /\ handlers \subseteq Handler
  BY HandlersTyped DEF LinkInv
<1>2. \A c \in Calls : calls[c].op \in {"fetch", "logout"}
  BY <1>1 DEF Linked, Call
<1>3. QED
  BY <1>1, <1>2 DEF Linked, Answering, Single

LEMMA ReloadLinked ==
  ASSUME LinkInv, NEW t \in Tabs, Reload(t)
  PROVE  Linked(calls', tabs', handlers')
BY LinkFacts, LoadLinked DEF Reload

LEMMA SendLinked ==
  ASSUME LinkInv, NEW c \in Calls, NEW t \in Tabs, NEW op \in {"fetch", "logout"}, Send(c, t, op)
  PROVE  Linked(calls', tabs', handlers')
<1> DEFINE r == Request(c, c, op, store.access)
           new == CallOf(t, op, "sent", FALSE)
<1>1. /\ Linked(calls, tabs, handlers) /\ tabs' = tabs /\ handlers' = handlers \cup {r}
      /\ calls' = [calls EXCEPT ![c] = new] /\ calls[c].state = "idle"
  BY LinkFacts, IdleFacts DEF Send
<1>2. r.to = c /\ r.op = op
  BY RequestFacts
<1>3. new \in Call /\ new.state = "sent" /\ new.tab = t /\ new.op = op
  <2>1. new \in Call
    BY CallFacts
  <2>2. QED
    BY <2>1 DEF CallOf
<1> HIDE DEF r, new
<1>4. /\ calls' \in [Calls -> Call]
      /\ \A d \in Calls : calls'[d] = IF d = c THEN new ELSE calls[d]
  BY <1>1, <1>3 DEF Linked
<1>5. \A h \in handlers : h.to # c
  BY <1>1 DEF Linked, Answering
<1>6. Calling(calls', tabs')
  BY <1>1, <1>3, <1>4 DEF Linked, Calling
<1>7. Answering(calls', handlers') /\ Single(handlers')
  BY <1>1, <1>2, <1>3, <1>4, <1>5 DEF Linked, Answering, Single
<1>8. Served(calls', tabs', handlers')
  BY <1>1, <1>2, <1>4, SendersDiffer DEF Linked, Served
<1>9. QED
  BY <1>1, <1>4, <1>6, <1>7, <1>8 DEF Linked

LEMMA LoginLinked ==
  ASSUME LinkInv, NEW to \in Tabs \cup {Elsewhere}, Login(to)
  PROVE  Linked(calls', tabs', handlers')
<1> DEFINE r == Request(to, to, "login", None)
<1>1. /\ Linked(calls, tabs, handlers) /\ tabs' = tabs /\ handlers' = handlers \cup {r}
      /\ calls' = calls /\ \A h \in handlers : h.to # to
  BY LinkFacts DEF Login
<1>2. r.to = to /\ r.op = "login" /\ to \notin Calls
  BY RequestFacts, SendersDiffer
<1> HIDE DEF r
<1>3. Answering(calls, handlers') /\ Single(handlers') /\ Served(calls, tabs, handlers')
  BY <1>1, <1>2 DEF Linked, Answering, Single, Served
<1>4. QED
  BY <1>1, <1>3 DEF Linked

LEMMA UnauthorizedLinked ==
  ASSUME LinkInv, NEW h \in handlers, h.to \in Calls, Unauthorized(h, h.to)
  PROVE  Linked(calls', tabs', handlers')
<1> DEFINE c == h.to
           t == calls[c].tab
           new == CallOf(t, calls[c].op, "waiting", TRUE)
<1>1. /\ Linked(calls, tabs, handlers) /\ handlers \subseteq Handler /\ calls[c].state = "sent"
      /\ t \in Tabs /\ \A g \in handlers : g.to = c => g = h
  BY LinkFacts DEF Linked, Answering, Calling
<1>2. new \in Call /\ new.state = "waiting" /\ new.tab = t /\ new.op = calls[c].op /\ new.retried
  <2>1. calls[c].op \in {"fetch", "logout"}
    BY <1>1 DEF Linked, Call
  <2>2. new \in Call
    BY <1>1, <2>1, CallFacts
  <2>3. QED
    BY <2>2 DEF CallOf
<1>3. ASSUME calls' = [calls EXCEPT ![c] = new], tabs' \in [Tabs -> Tab], tabs'[t].refreshing,
             \A u \in Tabs : u # t => tabs'[u].refreshing = tabs[u].refreshing
      PROVE  /\ calls' \in [Calls -> Call] /\ Calling(calls', tabs')
             /\ \A d \in Calls : calls'[d] = IF d = c THEN new ELSE calls[d]
  <2> HIDE DEF new, t, c
  <2>1. \A d \in Calls : calls'[d] = IF d = c THEN new ELSE calls[d]
    BY <1>1, <1>3 DEF Linked
  <2>2. calls' \in [Calls -> Call]
    BY <1>1, <1>2, <1>3 DEF Linked
  <2>3. Calling(calls', tabs')
    BY <1>1, <1>2, <1>3, <2>1 DEF Linked, Calling
  <2>4. QED
    BY <2>1, <2>2, <2>3
<1>4. CASE /\ Refreshing(t) /\ calls' = [calls EXCEPT ![c] = new] /\ handlers' = handlers \ {h}
           /\ tabs' = tabs
  <2>1. /\ calls' \in [Calls -> Call] /\ Calling(calls', tabs')
        /\ \A d \in Calls : calls'[d] = IF d = c THEN new ELSE calls[d]
    BY <1>1, <1>3, <1>4 DEF Refreshing, Linked
  <2> HIDE DEF new, t
  <2>2. Answering(calls', handlers') /\ Single(handlers')
    BY <1>1, <1>4, <2>1 DEF Linked, Answering, Single
  <2>3. Served(calls', tabs', handlers')
    BY <1>1, <1>2, <1>4, <2>1, SendersDiffer DEF Linked, Served
  <2>4. QED
    BY <1>1, <1>4, <2>1, <2>2, <2>3 DEF Linked
<1>5. CASE /\ ~ Refreshing(t) /\ calls' = [calls EXCEPT ![c] = new]
           /\ handlers' = (handlers \ {h}) \cup {Request(t, c, "refresh", store.refresh)}
           /\ tabs' = [tabs EXCEPT ![t].refreshing = TRUE]
  <2> DEFINE r == Request(t, c, "refresh", store.refresh)
  <2>1. r.to = t /\ r.op = "refresh"
    BY RequestFacts
  <2> HIDE DEF r
  <2>2. /\ tabs' \in [Tabs -> Tab] /\ tabs'[t].refreshing
        /\ \A u \in Tabs : u # t => tabs'[u].refreshing = tabs[u].refreshing
    BY <1>1, <1>5 DEF Linked, Tab
  <2>3. /\ calls' \in [Calls -> Call] /\ Calling(calls', tabs')
        /\ \A d \in Calls : calls'[d] = IF d = c THEN new ELSE calls[d]
    BY <1>3, <1>5, <2>2
  <2>4. \A g \in handlers : ~ (g.to = t /\ g.op = "refresh")
    BY <1>1, <1>5 DEF Refreshing, Linked, Served
  <2>5. handlers' = (handlers \ {h}) \cup {r}
    BY <1>5 DEF r
  <2> HIDE DEF new, t
  <2>6. Answering(calls', handlers') /\ Single(handlers')
    BY <1>1, <2>1, <2>3, <2>4, <2>5, SendersDiffer DEF Linked, Answering, Single
  <2>7. Served(calls', tabs', handlers')
    BY <1>1, <1>2, <2>1, <2>2, <2>3, <2>5, SendersDiffer DEF Linked, Served
  <2>8. QED
    BY <2>2, <2>3, <2>6, <2>7 DEF Linked
<1>6. CASE Load(t, IF calls[c].op = "logout" THEN Cleared ELSE store, handlers \ {h})
  <2>1. c \in Mine(t)
    BY DEF Mine
  <2>2. \A g \in handlers : g \in handlers \ {h} \/ g.to \in Mine(t) \cup {t}
    BY <2>1
  <2> HIDE DEF t
  <2>3. QED
    BY <1>1, <1>6, <2>2, LoadLinked
<1>7. QED
  BY <1>4, <1>5, <1>6 DEF Unauthorized

LEMMA SettleLinked ==
  ASSUME LinkInv, NEW h \in handlers, h.to \in Calls, NEW rest, Settle(h.to, rest),
         \A g \in rest : g.to = Nobody \/ (g \in handlers /\ g # h),
         \A g \in handlers : g = h \/ g \in rest
  PROVE  Linked(calls', tabs', handlers')
<1> DEFINE c == h.to
<1>1. /\ Linked(calls, tabs, handlers) /\ \A g \in handlers : g.to = c => g = h
      /\ h.op \notin {"refresh", "login"}
  BY LinkFacts
<1>2. handlers' = rest /\ calls' = [calls EXCEPT ![c] = Done]
  BY DEF Settle
<1>3. calls' \in [Calls -> Call] /\ \A d \in Calls : calls'[d] = IF d = c THEN Done ELSE calls[d]
  BY <1>1, <1>2, CallFacts DEF Linked
<1>4. tabs' \in [Tabs -> Tab] /\ \A t \in Tabs : tabs'[t].refreshing = tabs[t].refreshing
  <2>1. CASE tabs' = tabs
    BY <1>1, <2>1 DEF Linked
  <2>2. CASE tabs' = [tabs EXCEPT ![calls[c].tab].user = FALSE]
    BY <1>1, <2>2 DEF Linked, Tab
  <2>3. QED
    BY <2>1, <2>2 DEF Settle
<1> HIDE DEF c
<1>5. Dropped(calls, tabs, handlers, calls', tabs', handlers', {h})
  BY <1>1, <1>2, <1>3, <1>4 DEF Dropped, c
<1>6. QED
  BY <1>1, <1>5, DropLinked

(* A login that ends leaves the calls and the refreshing as they are.      *)
LEMMA LoginGoneLinked ==
  ASSUME LinkInv, NEW h \in handlers, h.op = "login", NEW rest,
         \A g \in rest : g.to = Nobody \/ (g \in handlers /\ g # h),
         \A g \in handlers : g = h \/ g \in rest,
         NEW ts \in [Tabs -> Tab], \A t \in Tabs : ts[t].refreshing = tabs[t].refreshing
  PROVE  Linked(calls, ts, rest)
<1>1. Linked(calls, tabs, handlers) /\ h.to \notin Calls
  BY LinkFacts
<1>2. Dropped(calls, tabs, handlers, calls, ts, rest, {h})
  BY <1>1 DEF Dropped, Linked
<1>3. QED
  BY <1>1, <1>2, DropLinked

LEMMA LoginAnsweredLinked ==
  ASSUME LinkInv, NEW h \in handlers, LoginAnswered(h)
  PROVE  Linked(calls', tabs', handlers')
<1>1. tabs' \in [Tabs -> Tab] /\ \A t \in Tabs : tabs'[t].refreshing = tabs[t].refreshing
  <2>1. tabs \in [Tabs -> Tab]
    BY DEF LinkInv, Linked
  <2>2. CASE tabs' = tabs
    BY <2>1, <2>2
  <2>3. CASE tabs' = [tabs EXCEPT ![h.to].user = TRUE]
    BY <2>1, <2>3 DEF Tab
  <2>4. QED
    BY <2>2, <2>3 DEF LoginAnswered
<1>2. Linked(calls, tabs', handlers')
  BY <1>1, LoginGoneLinked DEF LoginAnswered
<1>3. QED
  BY <1>2 DEF LoginAnswered

(* A request that is lost: it, or nothing of it, runs on for nobody.       *)
Remains(h, rest) ==
  \E arrives \in BOOLEAN :
    rest = (handlers \ {h}) \cup (IF arrives THEN Abandon({h}, {h.to}) ELSE {})

LEMMA LostFacts ==
  ASSUME LinkInv, NEW h \in handlers, h.to \in Calls \cup Tabs, NEW rest, Remains(h, rest)
  PROVE  /\ rest \subseteq Handler
         /\ \A g \in rest : \/ g \in handlers /\ g # h
                            \/ g.to = Nobody /\ g.op = h.op /\ g.state = h.state /\ h.state # "done"
                               /\ g.for = h.for /\ g.token = h.token /\ g.answer = h.answer
         /\ \A g \in handlers : g = h \/ g \in rest
<1>1. handlers \subseteq Handler /\ {h} \in SUBSET Handler
  BY LinkFacts
<1>2. \A g \in Abandon({h}, {h.to}) :
        /\ g.to = Nobody /\ g.op = h.op /\ g.state = h.state /\ h.state # "done"
        /\ g.for = h.for /\ g.token = h.token /\ g.answer = h.answer
        /\ g = [h EXCEPT !.to = Nobody]
  BY <1>1 DEF Abandon, Handler
<1>3. [h EXCEPT !.to = Nobody] \in Handler
  BY <1>1 DEF Handler, Senders
<1>4. QED
  BY <1>1, <1>2, <1>3 DEF Remains

(* What becomes of the one who waited for the request h.                   *)
Losing(h, rest) ==
  /\ h.to \in Calls => Settle(h.to, rest)
  /\ h.to \notin Calls /\ h.op = "refresh" => Load(h.to, Cleared, rest)
  /\ h.to \notin Calls /\ h.op # "refresh" =>
       handlers' = rest /\ UNCHANGED <<store, tabs, calls>>

LEMMA LoseForms ==
  ASSUME LinkInv, NEW h \in handlers, Lose(h)
  PROVE  \E rest : Remains(h, rest) /\ Losing(h, rest)
<1>1. PICK arrives \in BOOLEAN :
        LET rest == (handlers \ {h}) \cup (IF arrives THEN Abandon({h}, {h.to}) ELSE {})
        IN  CASE h.to \in Calls -> Settle(h.to, rest)
              [] h.op = "refresh" -> Load(h.to, Cleared, rest)
              [] OTHER -> handlers' = rest /\ UNCHANGED <<store, tabs, calls>>
  BY DEF Lose
<1> DEFINE rest == (handlers \ {h}) \cup (IF arrives THEN Abandon({h}, {h.to}) ELSE {})
<1>2. Remains(h, rest)
  BY DEF Remains
<1> HIDE DEF rest
<1>3. Losing(h, rest)
  <2>1. h.op = "refresh" => h.to \notin Calls
    BY LinkFacts
  <2>2. CASE h.to \in Calls
    BY <1>1, <2>1, <2>2 DEF Losing, rest
  <2>3. CASE h.to \notin Calls /\ h.op = "refresh"
    BY <1>1, <2>3 DEF Losing, rest
  <2>4. CASE h.to \notin Calls /\ h.op # "refresh"
    BY <1>1, <2>4 DEF Losing, rest
  <2>5. QED
    BY <2>2, <2>3, <2>4
<1>4. QED
  BY <1>2, <1>3

LEMMA LoseLinked ==
  ASSUME LinkInv, NEW h \in handlers, Lose(h)
  PROVE  Linked(calls', tabs', handlers')
<1>1. PICK rest : Remains(h, rest) /\ Losing(h, rest)
  BY LoseForms
<1>2. /\ h.to \in Calls \cup Tabs /\ rest \subseteq Handler
      /\ \A g \in rest : g.to = Nobody \/ (g \in handlers /\ g # h)
      /\ \A g \in handlers : g = h \/ g \in rest
  <2>1. h.to \in Calls \cup Tabs
    BY DEF Lose
  <2>2. QED
    BY <1>1, <2>1, LostFacts
<1>3. CASE h.to \in Calls
  <2>1. Settle(h.to, rest)
    BY <1>1, <1>3 DEF Losing
  <2>2. QED
    BY <1>2, <1>3, <2>1, SettleLinked
<1>4. CASE h.to \notin Calls /\ h.op = "refresh"
  <2>1. Load(h.to, Cleared, rest) /\ h.to \in Tabs
    BY <1>1, <1>2, <1>4 DEF Losing
  <2>2. \A g \in handlers : g \in rest \/ g.to \in Mine(h.to) \cup {h.to}
    BY <1>2
  <2>3. QED
    BY <1>2, <2>1, <2>2, LoadLinked
<1>5. CASE h.to \notin Calls /\ h.op # "refresh"
  <2>1. handlers' = rest /\ UNCHANGED <<store, tabs, calls>>
    BY <1>1, <1>5 DEF Losing
  <2>2. h.op = "login"
    BY <1>2, <1>5, LinkFacts, SendersDiffer DEF Linked, Answering, Handler
  <2>3. Linked(calls, tabs, rest)
    BY <1>2, <2>2, LoginGoneLinked DEF LinkInv, Linked
  <2>4. QED
    BY <2>1, <2>3
<1>6. QED
  BY <1>3, <1>4, <1>5

LEMMA RefreshedLinked ==
  ASSUME LinkInv, NEW h \in handlers, Refreshed(h)
  PROVE  Linked(calls', tabs', handlers')
<1> DEFINE t == h.to
           again == {Request(c, c, calls[c].op, h.token) : c \in Waiting(t)}
<1>1. /\ Linked(calls, tabs, handlers) /\ h.op = "refresh" /\ t \in Tabs
      /\ handlers' = (handlers \ {h}) \cup again
      /\ calls' = [c \in Calls |-> IF c \in Waiting(t) THEN CallOf(t, calls[c].op, "sent", TRUE)
                                   ELSE calls[c]]
      /\ tabs' = [tabs EXCEPT ![t].refreshing = FALSE]
  BY LinkFacts DEF Refreshed, Resumed
<1>2. \A c \in Calls : c \in Waiting(t) <=> calls[c].tab = t /\ calls[c].state = "waiting"
  BY DEF Waiting, Mine
<1>3. /\ calls' \in [Calls -> Call]
      /\ \A c \in Calls :
           /\ c \in Waiting(t) => /\ calls'[c].state = "sent" /\ calls'[c].tab = t
                                  /\ calls'[c].op = calls[c].op /\ calls'[c].retried
           /\ c \notin Waiting(t) => calls'[c] = calls[c]
  <2>1. ASSUME NEW c \in Calls
        PROVE  CallOf(t, calls[c].op, "sent", TRUE) \in Call
    <3>1. calls[c].op \in {"fetch", "logout"}
      BY <1>1 DEF Linked, Call
    <3>2. QED
      BY <1>1, <3>1, CallFacts
  <2>2. calls' \in [Calls -> Call]
    BY <1>1, <2>1 DEF Linked
  <2>3. QED
    BY <1>1, <2>2 DEF CallOf
<1>4. /\ \A c \in Calls \cap Waiting(t) : \E g \in again : g.to = c
      /\ \A g \in again : g.to \in Waiting(t) /\ g.to \in Calls /\ g.op = calls[g.to].op
                          /\ g = Request(g.to, g.to, calls[g.to].op, h.token)
  BY RequestFacts DEF Waiting, Mine
<1>5. /\ tabs' \in [Tabs -> Tab] /\ ~ tabs'[t].refreshing
      /\ \A u \in Tabs : u # t => tabs'[u].refreshing = tabs[u].refreshing
  BY <1>1 DEF Linked, Tab
<1> HIDE DEF t, again
<1>6. Calling(calls', tabs')
  BY <1>1, <1>2, <1>3, <1>5 DEF Linked, Calling
<1>8. \A g \in handlers : g.to \in Calls => g.to \notin Waiting(t)
  BY <1>1, <1>2 DEF Linked, Answering
<1>7. Answering(calls', handlers')
  <2>1. ASSUME NEW g \in handlers
        PROVE  /\ g.to \in Calls => calls'[g.to].state = "sent" /\ g.op = calls'[g.to].op
               /\ g.op \in {"fetch", "logout"} => g.to \in Calls \cup {Nobody}
    BY <1>1, <1>3, <1>8 DEF Linked, Answering
  <2>2. ASSUME NEW g \in again
        PROVE  g.to \in Calls /\ calls'[g.to].state = "sent" /\ g.op = calls'[g.to].op
    BY <1>3, <1>4
  <2>3. QED
    BY <1>1, <2>1, <2>2 DEF Answering
<1>9. Single(handlers')
  BY <1>1, <1>4, <1>8, SendersDiffer DEF Linked, Single
<1>10. Served(calls', tabs', handlers')
  <2>1. ASSUME NEW c \in Calls, calls'[c].state = "sent" PROVE \E g \in handlers' : g.to = c
    <3>1. CASE c \in Waiting(t)
      BY <1>1, <1>4, <3>1
    <3>2. CASE c \notin Waiting(t)
      BY <1>1, <1>3, <2>1, <3>2, SendersDiffer DEF Linked, Served, t
    <3>3. QED
      BY <3>1, <3>2
  <2>2. ASSUME NEW u \in Tabs
        PROVE  tabs'[u].refreshing <=> \E g \in handlers' : g.to = u /\ g.op = "refresh"
    <3>1. CASE u = t
      <4>1. \A g \in handlers \ {h} : ~ (g.to = t /\ g.op = "refresh")
        BY <1>1 DEF Linked, Single, t
      <4>2. QED
        BY <1>1, <1>4, <1>5, <3>1, <4>1, SendersDiffer
    <3>2. CASE u # t
      BY <1>1, <1>4, <1>5, <3>2, SendersDiffer DEF Linked, Served, t
    <3>3. QED
      BY <3>1, <3>2
  <2>3. QED
    BY <2>1, <2>2 DEF Served
<1>11. QED
  BY <1>3, <1>5, <1>6, <1>7, <1>9, <1>10 DEF Linked

LEMMA RefreshRefusedLinked ==
  ASSUME LinkInv, NEW h \in handlers, RefreshRefused(h)
  PROVE  Linked(calls', tabs', handlers')
<1>1. handlers \ {h} \in SUBSET Handler /\ h.to \in Tabs
  BY LinkFacts DEF RefreshRefused
<1>2. \A g \in handlers : g \in handlers \ {h} \/ g.to \in Mine(h.to) \cup {h.to}
  OBVIOUS
<1>3. QED
  BY <1>1, <1>2, LoadLinked DEF RefreshRefused

LEMMA StepLinked ==
  ASSUME LinkInv, [Next]_vars
  PROVE  LinkInv'
<1>1. ASSUME NEW h \in handlers, CallAnswered(h) PROVE Linked(calls', tabs', handlers')
  <2>1. CASE Unauthorized(h, h.to)
    BY <1>1, <2>1, UnauthorizedLinked DEF CallAnswered
  <2>2. CASE Settle(h.to, handlers \ {h})
    BY <1>1, <2>2, SettleLinked DEF CallAnswered
  <2>3. QED
    BY <1>1, <2>1, <2>2 DEF CallAnswered
<1>2. ASSUME UNCHANGED <<calls, tabs, handlers>> PROVE Linked(calls', tabs', handlers')
  BY <1>2 DEF LinkInv, Linked, Calling, Answering, Single, Served
<1>3. Linked(calls', tabs', handlers')
  <2>1. CASE \E h \in handlers : Handle(h) \/ Deliver(h) \/ Lose(h)
    BY <1>1, <2>1, HandleLinked, RefreshedLinked, RefreshRefusedLinked, LoginAnsweredLinked, LoseLinked
       DEF Deliver
  <2>2. QED
    BY <1>2, <2>1, SendLinked, LoginLinked, ReloadLinked
       DEF Next, vars, SetActive, AccessTokenExpires, RefreshTokenExpires
<1>4. SessionInv'
  BY StepInv DEF LinkInv
<1>5. QED
  BY <1>3, <1>4 DEF LinkInv

-----------------------------------------------------------------------------
(***************************************************************************)
(* An undisturbed session: one refresh at a time, with the token that the  *)
(* account accepts, and no logout or login under way.  The third part of   *)
(* the invariant.                                                          *)
(***************************************************************************)
Refused(h) == h.state = "done" /\ h.answer = 401

Intact(jti, s, cs, hs) ==
  /\ \A c \in Calls : cs[c].op = "fetch"
  /\ \A h \in hs : h.op \in {"fetch", "refresh"}
  /\ \A h \in hs : h.op = "refresh" => h.to \in Tabs /\ (Refused(h) \/ h.token = jti)
  /\ \A g, h \in hs : g.op = "refresh" /\ h.op = "refresh" => g = h
  /\ (\A h \in hs : h.op # "refresh") => s.refresh \in {None, jti}

Undisturbed == causes = {} => Intact(account.jti, store, calls, handlers)

SignedInv == LinkInv /\ Undisturbed

LEMMA HandleIntact ==
  ASSUME LinkInv, Intact(account.jti, store, calls, handlers), NEW h \in handlers, Handle(h)
  PROVE  Intact(account'.jti, store', calls', handlers')
<1>1. PICK g : GoesOn(h, g) /\ (Looks(h, g) \/ Renews(h, g) \/ Ends(h, g))
  BY HandleStep DEF LinkInv
<1>2. /\ g.to = h.to /\ g.op = h.op /\ g.state \in {"read", "done"} /\ UNCHANGED <<store, calls>>
      /\ Becomes(h, g)
  BY <1>1 DEF GoesOn
<1>3. /\ \A x \in handlers' : (x \in handlers /\ x # h) \/ x = g
      /\ \A x \in handlers : x = h \/ x \in handlers'
      /\ h.op = "refresh" => g \in handlers'
  BY <1>2, SendersDiffer DEF Becomes, Intact
<1>4. CASE Looks(h, g)
  <2>1. account' = account /\ (g.op = "refresh" => Refused(g) \/ (g.token = h.token /\ ~ Refused(h)))
    BY <1>2, <1>4 DEF Looks, Refused
  <2>2. QED
    BY <1>2, <1>3, <2>1 DEF Intact
<1>5. CASE Renews(h, g)
  <2>1. h.op = "refresh" /\ account'.jti = issued' /\ g.token = issued'
    BY <1>5 DEF Renews, Intact, LinkInv, SessionInv, Shape
  <2>2. QED
    BY <1>2, <1>3, <2>1 DEF Intact
<1>6. CASE Ends(h, g)
  BY <1>6 DEF Ends, Intact
<1>7. QED
  BY <1>1, <1>4, <1>5, <1>6

(* A page load in a tab that has no refresh under way.                     *)
LEMMA LoadIntact ==
  ASSUME LinkInv, NEW t \in Tabs, NEW s, NEW hs \in SUBSET handlers,
         Intact(account.jti, s, calls, hs), \A h \in hs : h.op = "refresh" => h.to # t,
         Load(t, s, hs)
  PROVE  Intact(account.jti, store', calls', handlers')
<1> DEFINE xs == Mine(t) \cup {t}
<1>1. handlers' = Abandon(hs, xs) /\ hs \in SUBSET Handler
  BY LinkFacts DEF Load
<1>2. \A h \in hs : h.op = "refresh" => h.to \notin xs
  BY SendersDiffer DEF Mine, Intact
<1>3. \A c \in Calls : calls'[c].op = "fetch"
  BY IdleFacts DEF Load, Intact
<1>4. store'.refresh \in {None, s.refresh}
  BY DEF Load, Cleared
<1> HIDE DEF xs
<1>5. ASSUME NEW g \in handlers'
      PROVE  g.op \in {"fetch", "refresh"} /\ (g.op = "refresh" => g \in hs)
  <2>1. CASE g \in hs /\ g.to \notin xs
    BY <2>1 DEF Intact
  <2>2. CASE \E h \in hs : h.to \in xs /\ g.op = h.op
    <3>1. PICK h \in hs : h.to \in xs /\ g.op = h.op
      BY <2>2
    <3>2. h.op # "refresh" /\ h.op \in {"fetch", "refresh"}
      BY <1>2, <3>1 DEF Intact
    <3>3. QED
      BY <3>1, <3>2
  <2>3. g \in Abandon(hs, xs)
    BY <1>1
  <2>4. \/ g \in hs /\ g.to \notin xs
        \/ \E h \in hs : h.to \in xs /\ g.op = h.op
    <3>1. ASSUME NEW h \in hs PROVE [h EXCEPT !.to = Nobody].op = h.op
      BY <1>1 DEF Handler
    <3>2. QED
      BY <2>3, <3>1 DEF Abandon
  <2>5. QED
    BY <2>1, <2>2, <2>4
<1>6. \A h \in hs : h.op = "refresh" => h \in handlers'
  BY <1>1, <1>2, AbandonKeeps
<1>7. QED
  BY <1>3, <1>4, <1>5, <1>6 DEF Intact

LEMMA DisturbedMarked ==
  ASSUME SessionInv, NEW cause
  PROVE  Disturbed(cause) # {}
BY DEF Disturbed, SessionInv, Shape

LEMMA ReloadIntact ==
  ASSUME SignedInv, NEW t \in Tabs, Reload(t)
  PROVE  Undisturbed'
<1> SUFFICES ASSUME causes' = {} PROVE Intact(account.jti, store', calls', handlers')
  BY DEF Undisturbed, Reload
<1>1. ~ tabs[t].refreshing /\ causes' = causes
  BY DisturbedMarked DEF Reload, SignedInv, LinkInv
<1>2. Intact(account.jti, store, calls, handlers)
  BY <1>1 DEF SignedInv, Undisturbed
<1>3. \A h \in handlers : h.op = "refresh" => h.to # t
  BY <1>1, LinkFacts DEF SignedInv, Linked, Served
<1>4. QED
  BY <1>2, <1>3, LoadIntact DEF Reload, SignedInv

LEMMA SendIntact ==
  ASSUME SignedInv, NEW c \in Calls, NEW t \in Tabs, NEW op \in {"fetch", "logout"}, Send(c, t, op)
  PROVE  Undisturbed'
<1> SUFFICES ASSUME causes' = {} PROVE Intact(account.jti, store, calls', handlers')
  BY DEF Undisturbed, Send
<1>1. op = "fetch" /\ causes' = causes
  BY DisturbedMarked DEF Send, SignedInv, LinkInv
<1>2. Intact(account.jti, store, calls, handlers)
  BY <1>1 DEF SignedInv, Undisturbed
<1> DEFINE r == Request(c, c, op, store.access)
<1>3. r.op = "fetch" /\ handlers' = handlers \cup {r}
  BY <1>1, RequestFacts DEF Send
<1> HIDE DEF r
<1>4. \A d \in Calls : calls'[d].op = "fetch"
  BY <1>1, <1>2 DEF Send, CallOf, Intact, SignedInv, LinkInv, Linked
<1>5. QED
  BY <1>2, <1>3, <1>4 DEF Intact

LEMMA UnauthorizedIntact ==
  ASSUME SignedInv, NEW h \in handlers, h.to \in Calls, Unauthorized(h, h.to)
  PROVE  Undisturbed'
<1> DEFINE c == h.to
           t == calls[c].tab
           new == CallOf(t, calls[c].op, "waiting", TRUE)
<1> SUFFICES ASSUME causes' = {} PROVE Intact(account.jti, store', calls', handlers')
  BY DEF Undisturbed, Unauthorized
<1>1. causes' = causes
  <2>1. SessionInv
    BY DEF SignedInv, LinkInv
  <2>2. Disturbed("beside") # {}
    BY <2>1, DisturbedMarked
  <2>3. causes' = causes \/ causes' = Disturbed("beside")
    BY DEF Unauthorized
  <2>4. QED
    BY <2>2, <2>3
<1>2. /\ Intact(account.jti, store, calls, handlers) /\ Linked(calls, tabs, handlers)
      /\ calls[c].op = "fetch" /\ h.op = "fetch" /\ t \in Tabs
  BY <1>1, LinkFacts DEF SignedInv, Undisturbed, Intact, Linked, Answering, Calling
<1>3. ASSUME calls' = [calls EXCEPT ![c] = new] PROVE \A d \in Calls : calls'[d].op = "fetch"
  BY <1>2, <1>3 DEF CallOf, Intact, Linked
<1>4. CASE /\ calls' = [calls EXCEPT ![c] = new] /\ handlers' = handlers \ {h}
           /\ store' = store
  BY <1>2, <1>3, <1>4 DEF Intact
<1>5. CASE /\ ~ Refreshing(t) /\ ~ Beside(t) /\ store.refresh # None
           /\ calls' = [calls EXCEPT ![c] = new] /\ store' = store
           /\ handlers' = (handlers \ {h}) \cup {Request(t, c, "refresh", store.refresh)}
  <2> DEFINE r == Request(t, c, "refresh", store.refresh)
  <2>1. r.to = t /\ r.op = "refresh" /\ r.token = store.refresh
    BY RequestFacts
  <2>2. handlers' = (handlers \ {h}) \cup {r}
    BY <1>5
  <2> HIDE DEF r, new, t, c
  <2>3. \A g \in handlers : g.op # "refresh"
    BY <1>2, <1>5 DEF Refreshing, Beside, Intact, Linked, Served
  <2>4. store.refresh = account.jti
    BY <1>2, <1>5, <2>3 DEF Intact
  <2>5. \A d \in Calls : calls'[d].op = "fetch"
    BY <1>3, <1>5
  <2>6. QED
    BY <1>2, <1>5, <2>1, <2>2, <2>3, <2>4, <2>5 DEF Intact
<1>6. CASE ~ Refreshing(t) /\ Load(t, IF calls[c].op = "logout" THEN Cleared ELSE store, handlers \ {h})
  <2>1. Load(t, store, handlers \ {h})
    BY <1>2, <1>6
  <2>2. \A g \in handlers : g.op = "refresh" => g.to # t
    BY <1>2, <1>6 DEF Refreshing, Linked, Served
  <2>3. Intact(account.jti, store, calls, handlers \ {h})
    BY <1>2 DEF Intact
  <2> HIDE DEF t
  <2>4. QED
    BY <1>2, <2>1, <2>2, <2>3, LoadIntact DEF SignedInv
<1>7. QED
  <2>1. CASE Refreshing(t)
    BY <1>4, <2>1 DEF Unauthorized
  <2>2. CASE ~ Refreshing(t) /\ store.refresh # None
    <3>1. ~ Beside(t)
      BY <2>2, DisturbedMarked DEF Unauthorized, SignedInv, LinkInv
    <3>2. QED
      BY <1>5, <2>2, <3>1 DEF Unauthorized
  <2>3. CASE ~ Refreshing(t) /\ store.refresh = None
    BY <1>6, <2>3 DEF Unauthorized
  <2>4. QED
    BY <2>1, <2>2, <2>3

LEMMA AnsweredCallIntact ==
  ASSUME SignedInv, NEW h \in handlers, CallAnswered(h)
  PROVE  Undisturbed'
<1>1. CASE Unauthorized(h, h.to)
  BY <1>1, UnauthorizedIntact DEF CallAnswered
<1>2. CASE Settle(h.to, handlers \ {h}) /\ UNCHANGED <<account, causes>>
  <2> SUFFICES ASSUME causes = {} PROVE Intact(account.jti, store', calls', handlers')
    BY <1>2 DEF Undisturbed
  <2>1. /\ Intact(account.jti, store, calls, handlers) /\ Linked(calls, tabs, handlers)
        /\ h.to \in Calls /\ handlers' = handlers \ {h}
    BY <1>2, LinkFacts DEF SignedInv, Undisturbed, CallAnswered, Settle
  <2>2. calls[h.to].op = "fetch" /\ h.op = "fetch"
    BY <2>1 DEF Intact, Linked, Answering
  <2>3. store' = store /\ calls' = [calls EXCEPT ![h.to] = Done]
    BY <1>2, <2>2 DEF Settle
  <2>4. \A d \in Calls : calls'[d].op = "fetch"
    BY <2>1, <2>3, IdleFacts DEF Intact, Linked
  <2>5. QED
    BY <2>1, <2>2, <2>3, <2>4 DEF Intact
<1>3. QED
  BY <1>1, <1>2 DEF CallAnswered

LEMMA RefreshedIntact ==
  ASSUME SignedInv, NEW h \in handlers, Refreshed(h)
  PROVE  Undisturbed'
<1> SUFFICES ASSUME causes = {} PROVE Intact(account.jti, store', calls', handlers')
  BY DEF Undisturbed, Refreshed
<1> DEFINE again == {Request(c, c, calls[c].op, h.token) : c \in Waiting(h.to)}
<1>1. Intact(account.jti, store, calls, handlers) /\ Linked(calls, tabs, handlers)
  BY LinkFacts DEF SignedInv, Undisturbed
<1>2. h.op = "refresh" /\ h.token = account.jti
  BY <1>1 DEF Refreshed, Refused, Intact
<1>3. store'.refresh = h.token
  BY DEF Refreshed, SignedInv, LinkInv, SessionInv, Shape
<1>4. \A c \in Calls : calls'[c].op = "fetch"
  BY <1>1 DEF Refreshed, CallOf, Intact
<1>5. \A g \in again : g.op = "fetch"
  BY <1>1, RequestFacts DEF Intact, Waiting, Mine
<1>6. handlers' = (handlers \ {h}) \cup again
  BY DEF Refreshed, Resumed
<1> HIDE DEF again
<1>7. QED
  BY <1>1, <1>2, <1>3, <1>4, <1>5, <1>6 DEF Intact

LEMMA RefreshRefusedIntact ==
  ASSUME SignedInv, NEW h \in handlers, RefreshRefused(h)
  PROVE  Undisturbed'
<1> SUFFICES ASSUME causes = {} PROVE Intact(account.jti, store', calls', handlers')
  BY DEF Undisturbed, RefreshRefused
<1>1. Intact(account.jti, store, calls, handlers)
  BY DEF SignedInv, Undisturbed
<1>2. Intact(account.jti, Cleared, calls, handlers \ {h})
  BY <1>1 DEF Intact, Cleared
<1>3. \A g \in handlers \ {h} : g.op # "refresh"
  BY <1>1 DEF Intact, RefreshRefused
<1>4. QED
  BY <1>2, <1>3, LoadIntact DEF RefreshRefused, SignedInv

(* A login answered when nothing else is under way starts afresh.          *)
LEMMA LoginAnsweredIntact ==
  ASSUME SignedInv, NEW h \in handlers, LoginAnswered(h)
  PROVE  Undisturbed'
<1> SUFFICES ASSUME causes' = {} PROVE Intact(account.jti, store', calls, handlers')
  BY DEF Undisturbed, LoginAnswered
<1>1. causes # {}
  BY DEF SignedInv, Undisturbed, Intact, LoginAnswered
<1>2. /\ handlers = {h} /\ account.jti = h.token /\ h.op = "login" /\ h.to \in Tabs
      /\ store' = [access |-> h.token, refresh |-> h.token, user |-> TRUE]
      /\ handlers' = {}
  BY <1>1 DEF LoginAnswered
<1>3. Linked(calls, tabs, handlers)
  BY LinkFacts DEF SignedInv
<1>4. \A t \in Tabs : ~ tabs[t].refreshing
  BY <1>2, <1>3 DEF Linked, Served
<1>5. ASSUME NEW c \in Calls PROVE calls[c].op = "fetch"
  <2>1. calls[c].state \notin {"sent", "waiting"}
    BY <1>2, <1>3, <1>4, SendersDiffer DEF Linked, Served, Calling
  <2>2. calls[c].state \in {"idle", "done"}
    BY <1>3, <2>1 DEF Linked, Call
  <2>3. QED
    BY <1>3, <2>2, IdleFacts DEF Linked, Calling
<1>6. QED
  BY <1>2, <1>5 DEF Intact

LEMMA StepSigned ==
  ASSUME SignedInv, [Next]_vars
  PROVE  SignedInv'
<1>1. SessionInv
  BY DEF SignedInv, LinkInv
<1>2. ASSUME NEW h \in handlers, Handle(h) PROVE Undisturbed'
  <2> SUFFICES ASSUME causes' = {} PROVE Intact(account'.jti, store', calls', handlers')
    BY DEF Undisturbed
  <2>1. causes = {}
    BY <1>1, <1>2, HandleStep DEF Looks, Renews, Ends
  <2>2. QED
    BY <1>2, <2>1, HandleIntact DEF SignedInv, Undisturbed
<1>3. ASSUME NEW h \in handlers, Lose(h) PROVE Undisturbed'
  BY <1>1, <1>3, DisturbedMarked DEF Lose, Undisturbed
<1>4. ASSUME NEW to \in Tabs \cup {Elsewhere}, Login(to) PROVE Undisturbed'
  BY <1>1, <1>4, DisturbedMarked DEF Login, Undisturbed
<1>5. ASSUME UNCHANGED <<store, calls, handlers, causes>>, account'.jti = account.jti PROVE Undisturbed'
  BY <1>5 DEF SignedInv, Undisturbed, Intact
<1>6. ASSUME NEW active \in BOOLEAN, SetActive(active) PROVE Undisturbed'
  BY <1>1, <1>5, <1>6 DEF SetActive, SessionInv, Shape
<1>7. ASSUME RefreshTokenExpires PROVE Undisturbed'
  BY <1>1, <1>5, <1>7 DEF RefreshTokenExpires, SessionInv, Shape
<1>8. ASSUME AccessTokenExpires \/ UNCHANGED vars PROVE Undisturbed'
  BY <1>5, <1>8 DEF AccessTokenExpires, vars
<1>9. Undisturbed'
  <2>1. CASE \E h \in handlers : Handle(h) \/ Deliver(h) \/ Lose(h)
    BY <1>2, <1>3, <2>1, AnsweredCallIntact, RefreshedIntact, RefreshRefusedIntact, LoginAnsweredIntact
       DEF Deliver
  <2>2. QED
    BY <1>4, <1>6, <1>7, <1>8, <2>1, SendIntact, ReloadIntact DEF Next
<1>10. LinkInv'
  BY StepLinked DEF SignedInv
<1>11. QED
  BY <1>9, <1>10 DEF SignedInv

LEMMA InitSigned ==
  ASSUME Init
  PROVE  SignedInv
<1>1. SessionInv
  BY InitInv
<1>2. Linked(calls, tabs, handlers)
  BY CallFacts, IdleFacts DEF Init, Linked, Tab, Calling, Answering, Single, Served
<1>3. Undisturbed
  BY IdleFacts DEF Init, Undisturbed, Intact
<1>4. QED
  BY <1>1, <1>2, <1>3 DEF SignedInv, LinkInv

(* The inductive invariant with its second and third part.                 *)
THEOREM SignedInvHolds == Spec => []SignedInv
<1>1. Init => SignedInv
  BY InitSigned
<1>2. SignedInv /\ [Next]_vars => SignedInv'
  BY StepSigned
<1>3. QED
  BY <1>1, <1>2, PTL DEF Spec

-----------------------------------------------------------------------------
(* Only the server answers: what a step of the browser adds is on its way  *)
(* or runs on for nobody.                                                  *)
Unanswered(hs) == \A g \in hs : g \in handlers \/ g.to = Nobody \/ g.state = "arrived"

LEMMA LoadUnanswered ==
  ASSUME LinkInv, NEW t, NEW s, NEW hs \in SUBSET Handler, Load(t, s, hs),
         \A g \in hs : g.to = Nobody \/ g \in handlers
  PROVE  Unanswered(handlers')
<1> DEFINE xs == Mine(t) \cup {t}
<1>1. handlers' = Abandon(hs, xs)
  BY DEF Load
<1> HIDE DEF xs
<1>2. \A g \in handlers' : g.to = Nobody \/ g \in hs
  BY <1>1, AbandonKeeps
<1>3. QED
  BY <1>2 DEF Unanswered

LEMMA DeliverUnanswered ==
  ASSUME LinkInv, NEW h \in handlers, Deliver(h)
  PROVE  Unanswered(handlers')
<1>1. handlers \ {h} \in SUBSET Handler
  BY LinkFacts
<1>2. ASSUME Unauthorized(h, h.to) PROVE Unanswered(handlers')
  <2> DEFINE t == calls[h.to].tab
             r == Request(t, h.to, "refresh", store.refresh)
             s == IF calls[h.to].op = "logout" THEN Cleared ELSE store
  <2>1. \/ handlers' = handlers \ {h}
        \/ handlers' = (handlers \ {h}) \cup {r}
        \/ Load(t, s, handlers \ {h})
    BY <1>2 DEF Unauthorized
  <2>2. r.state = "arrived"
    BY RequestFacts
  <2> HIDE DEF t, r, s
  <2>3. QED
    BY <1>1, <2>1, <2>2, LoadUnanswered DEF Unanswered
<1>3. ASSUME Refreshed(h) PROVE Unanswered(handlers')
  <2> DEFINE again == {Request(c, c, calls[c].op, h.token) : c \in Waiting(h.to)}
  <2>1. handlers' = (handlers \ {h}) \cup again
    BY <1>3 DEF Refreshed, Resumed
  <2>2. \A g \in again : g.state = "arrived"
    BY RequestFacts
  <2> HIDE DEF again
  <2>3. QED
    BY <2>1, <2>2 DEF Unanswered
<1>4. ASSUME RefreshRefused(h) PROVE Unanswered(handlers')
  BY <1>1, <1>4, LoadUnanswered DEF RefreshRefused
<1>5. ASSUME handlers' = handlers \ {h} PROVE Unanswered(handlers')
  BY <1>5 DEF Unanswered
<1>6. QED
  BY <1>2, <1>3, <1>4, <1>5 DEF Deliver, CallAnswered, Settle, LoginAnswered

LEMMA LoseUnanswered ==
  ASSUME LinkInv, NEW h \in handlers, Lose(h)
  PROVE  Unanswered(handlers')
<1>1. PICK rest : Remains(h, rest) /\ Losing(h, rest)
  BY LoseForms
<1>2. rest \in SUBSET Handler /\ \A g \in rest : g.to = Nobody \/ g \in handlers
  <2>1. h.to \in Calls \cup Tabs
    BY DEF Lose
  <2>2. QED
    BY <1>1, <2>1, LostFacts
<1>3. handlers' = rest \/ Load(h.to, Cleared, rest)
  BY <1>1 DEF Losing, Settle
<1>4. CASE handlers' = rest
  BY <1>2, <1>4 DEF Unanswered
<1>5. CASE Load(h.to, Cleared, rest)
  BY <1>2, <1>5, LoadUnanswered
<1>6. QED
  BY <1>3, <1>4, <1>5

LEMMA BrowserUnanswered ==
  ASSUME LinkInv, [Next]_vars, ~ \E h \in handlers : Handle(h)
  PROVE  Unanswered(handlers')
<1>1. ASSUME NEW c \in Calls, NEW t \in Tabs, NEW op \in {"fetch", "logout"}, Send(c, t, op)
      PROVE  Unanswered(handlers')
  BY <1>1, RequestFacts DEF Send, Unanswered
<1>2. ASSUME NEW to \in Tabs \cup {Elsewhere}, Login(to) PROVE Unanswered(handlers')
  BY <1>2, RequestFacts DEF Login, Unanswered
<1>3. ASSUME NEW t \in Tabs, Reload(t) PROVE Unanswered(handlers')
  BY <1>3, LoadUnanswered, LinkFacts DEF Reload
<1>4. ASSUME handlers' = handlers PROVE Unanswered(handlers')
  BY <1>4 DEF Unanswered
<1>5. QED
  BY <1>1, <1>2, <1>3, <1>4, DeliverUnanswered, LoseUnanswered
     DEF Next, vars, SetActive, AccessTokenExpires, RefreshTokenExpires

(* A refresh is refused by the server alone, and with nothing to disturb   *)
(* the session only if the account is inactive or the token has expired.   *)
LEMMA StepStaysSignedIn ==
  ASSUME SignedInv, [Next]_vars, NEW h \in handlers, h.op = "refresh", h.state = "arrived",
         Answered(h, 401) \in handlers', causes = {}
  PROVE  ~ account.active \/ ~ account.fresh
<1> DEFINE a == Answered(h, 401)
<1>1. LinkInv /\ Intact(account.jti, store, calls, handlers) /\ h \in Handler
  BY LinkFacts DEF SignedInv, Undisturbed
<1>2. a.to = h.to /\ a.op = "refresh" /\ a.state = "done" /\ a \in handlers'
  BY <1>1, AnsweredRequest
<1> HIDE DEF a
<1>3. h.to \in Tabs /\ h.token = account.jti
  BY <1>1 DEF Intact, Refused
<1>4. a \notin handlers
  BY <1>1, <1>2 DEF Intact
<1>5. PICK k \in handlers : Handle(k)
  <2>1. ~ Unanswered(handlers')
    BY <1>2, <1>3, <1>4, SendersDiffer DEF Unanswered
  <2>2. QED
    BY <1>1, <2>1, BrowserUnanswered
<1>6. PICK g : GoesOn(k, g) /\ (Looks(k, g) \/ Renews(k, g) \/ Ends(k, g))
  BY <1>1, <1>5, HandleStep DEF LinkInv
<1>7. a = g /\ k.op = "refresh"
  BY <1>2, <1>4, <1>6 DEF GoesOn, Becomes
<1>8. k = h
  BY <1>1, <1>7 DEF Intact
<1>9. Looks(h, a)
  BY <1>6, <1>7, <1>8 DEF Renews, Ends
<1>10. ~ (account.active /\ Accepts(h))
  BY <1>2, <1>9 DEF Looks
<1>11. QED
  BY <1>3, <1>10 DEF Accepts

(* The silent refresh never costs the session: one refused is one of an    *)
(* account deactivated or of a token left to expire, unless the user       *)
(* logged out or in, or a refresh was lost, cut off by a page load, or ran *)
(* beside that of another tab; however many tabs and calls there are.      *)
THEOREM StaysSignedInHolds == Spec => StaysSignedIn
<1>1. SignedInv /\ [Next]_vars =>
        [\A h \in handlers :
           h.op = "refresh" /\ h.state = "arrived" /\ Answered(h, 401) \in handlers' =>
             causes # {} \/ ~ account.active \/ ~ account.fresh]_vars
  BY StepStaysSignedIn
<1>2. QED
  BY <1>1, SignedInvHolds, PTL DEF Spec, StaysSignedIn

-----------------------------------------------------------------------------
(***************************************************************************)
(* How many tokens there can be.  Each one issued was asked for by a       *)
(* refresh or a login; a refresh is started by a call that had not been    *)
(* refused before, a login is one of the bounded events.                   *)
(***************************************************************************)
Pending(hs) == {h \in hs : h.op \in {"refresh", "login"} /\ h.state # "done"}

Spent(cs) == {c \in Calls : cs[c].retried \/ cs[c].state = "done"}

Counted(n, e, cs, hs) ==
  /\ IsFiniteSet(Pending(hs))
  /\ n + Cardinality(Pending(hs)) <= 1 + e + Cardinality(Spent(cs))

(* Nothing holds a token that was not issued.                              *)
Within(n, s, hs) == s.access <= n /\ s.refresh <= n /\ \A h \in hs : h.token <= n

Numbers ==
  /\ events \in 0..MaxEvents /\ issued >= 1 /\ account.jti <= issued /\ live \subseteq 1..issued
  /\ Within(issued, store, handlers) /\ Counted(issued, events, calls, handlers)

CountInv == LinkInv /\ Numbers

LEMMA SpentFacts ==
  ASSUME NEW cs
  PROVE  /\ IsFiniteSet(Spent(cs)) /\ Cardinality(Spent(cs)) \in Nat
         /\ Cardinality(Spent(cs)) <= Cardinality(Calls) /\ Cardinality(Calls) \in Nat
<1>1. IsFiniteSet(Calls) /\ Spent(cs) \in SUBSET Calls
  BY CallsAssumption DEF Spent
<1>2. QED
  BY <1>1, FS_Subset, FS_CardinalityType

LEMMA SpentGrows ==
  ASSUME NEW cs, NEW cs2, Spent(cs) \subseteq Spent(cs2)
  PROVE  Cardinality(Spent(cs)) <= Cardinality(Spent(cs2))
BY SpentFacts, FS_Subset

(* One more request may be pending where one more call is spent.           *)
LEMMA SpentOneMore ==
  ASSUME NEW cs, NEW cs2, NEW c, c \notin Spent(cs), c \in Spent(cs2), Spent(cs) \subseteq Spent(cs2)
  PROVE  Cardinality(Spent(cs)) + 1 <= Cardinality(Spent(cs2))
<1>1. Spent(cs) \cup {c} \in SUBSET Spent(cs2)
  OBVIOUS
<1>2. Cardinality(Spent(cs) \cup {c}) = Cardinality(Spent(cs)) + 1
  BY SpentFacts, FS_AddElement
<1>3. QED
  BY <1>1, <1>2, SpentFacts, FS_Subset

(* A set with at most one element exchanged is no larger.                  *)
LEMMA Exchanged ==
  ASSUME NEW P, IsFiniteSet(P), NEW p \in P, NEW q, NEW Q, Q \subseteq (P \ {p}) \cup {q}
  PROVE  /\ IsFiniteSet(Q) /\ Cardinality(Q) \in Nat /\ Cardinality(P) \in Nat
         /\ Cardinality(Q) <= Cardinality(P)
<1>1. IsFiniteSet(P \ {p}) /\ Cardinality(P \ {p}) = Cardinality(P) - 1
  BY FS_RemoveElement
<1>2. /\ IsFiniteSet((P \ {p}) \cup {q})
      /\ Cardinality((P \ {p}) \cup {q}) \in {Cardinality(P) - 1, Cardinality(P)}
  <2>1. Cardinality(P) \in Nat
    BY FS_CardinalityType
  <2>2. QED
    BY <1>1, <2>1, FS_AddElement
<1>3. QED
  BY <1>2, FS_Subset, FS_CardinalityType

LEMMA Smaller ==
  ASSUME NEW P, IsFiniteSet(P), NEW Q, Q \subseteq P
  PROVE  /\ IsFiniteSet(Q) /\ Cardinality(Q) \in Nat /\ Cardinality(P) \in Nat
         /\ Cardinality(Q) <= Cardinality(P)
BY FS_Subset, FS_CardinalityType

LEMMA OneMore ==
  ASSUME NEW P, IsFiniteSet(P), NEW q, NEW Q, Q \subseteq P \cup {q}
  PROVE  IsFiniteSet(Q) /\ Cardinality(Q) <= Cardinality(P) + 1
<1>1. Cardinality(P) \in Nat
  BY FS_CardinalityType
<1>2. IsFiniteSet(P \cup {q}) /\ Cardinality(P \cup {q}) \in {Cardinality(P), Cardinality(P) + 1}
  BY FS_AddElement
<1>3. IsFiniteSet(Q) /\ Cardinality(Q) \in Nat /\ Cardinality(Q) <= Cardinality(P \cup {q})
  BY <1>2, Smaller
<1>4. QED
  BY <1>1, <1>2, <1>3

(* The abandoned requests run on, one for one.                             *)
LEMMA AbandonPending ==
  ASSUME NEW hs \in SUBSET Handler, NEW xs, IsFiniteSet(Pending(hs))
  PROVE  LET P == Pending(hs)
             Q == Pending(Abandon(hs, xs))
         IN  /\ IsFiniteSet(Q) /\ Cardinality(Q) \in Nat /\ Cardinality(P) \in Nat
             /\ Cardinality(Q) <= Cardinality(P)
<1> DEFINE P == Pending(hs)
           Q == Pending(Abandon(hs, xs))
           f == [h \in P |-> IF h.to \in xs THEN [h EXCEPT !.to = Nobody] ELSE h]
           T == {f[h] : h \in P}
<1>1. f \in Surjection(P, T)
  BY DEF Surjection
<1>2. \A q \in Q : q \in T
  <2>1. ASSUME NEW h \in hs
        PROVE  [h EXCEPT !.to = Nobody].op = h.op /\ [h EXCEPT !.to = Nobody].state = h.state
    BY DEF Handler
  <2>2. QED
    BY <2>1 DEF Pending, Abandon
<1>3. IsFiniteSet(P)
  OBVIOUS
<1> HIDE DEF P, Q, f, T
<1>4. IsFiniteSet(T) /\ Cardinality(T) <= Cardinality(P)
  BY <1>1, <1>3, FS_Surjection
<1>5. /\ IsFiniteSet(Q) /\ Cardinality(Q) \in Nat /\ Cardinality(T) \in Nat
      /\ Cardinality(Q) <= Cardinality(T)
  BY <1>2, <1>4, Smaller
<1>6. Cardinality(P) \in Nat
  BY <1>3, FS_CardinalityType
<1>7. QED
  BY <1>4, <1>5, <1>6 DEF P, Q

LEMMA CountFacts ==
  ASSUME CountInv
  PROVE  /\ LinkInv /\ SessionInv /\ Numbers /\ handlers \subseteq Handler
         /\ IsFiniteSet(Pending(handlers)) /\ Cardinality(Pending(handlers)) \in Nat
         /\ issued \in Nat /\ MaxEvents \in Nat /\ events \in Nat /\ account.jti \in Nat
         /\ store \in [access : Nat, refresh : Nat, user : BOOLEAN]
<1>1. LinkInv /\ Numbers /\ SessionInv /\ handlers \subseteq Handler
  BY LinkFacts DEF CountInv, LinkInv
<1>2. IsFiniteSet(Pending(handlers)) /\ Cardinality(Pending(handlers)) \in Nat
  BY <1>1, FS_CardinalityType DEF Numbers, Counted
<1>3. QED
  BY <1>1, <1>2, CallsAssumption DEF Numbers, SessionInv, Shape

LEMMA Balance ==
  ASSUME NEW n \in Nat, NEW e \in Nat, NEW f \in Nat, NEW p \in Nat, NEW q \in Nat,
         NEW s \in Nat, NEW r \in Nat, n + p <= 1 + e + s, e <= f, s <= r,
         q <= p \/ (q <= p + 1 /\ (f = e + 1 \/ s + 1 <= r))
  PROVE  n + q <= 1 + f + r
OBVIOUS

(* A step of the browser.                                                  *)
LEMMA BrowserNumbers ==
  ASSUME CountInv, UNCHANGED <<account, issued, live>>,
         events' \in {events, events + 1}, events' \in 0..MaxEvents,
         Within(issued, store', handlers'),
         IsFiniteSet(Pending(handlers')), Spent(calls) \subseteq Spent(calls'),
         \/ Cardinality(Pending(handlers')) <= Cardinality(Pending(handlers))
         \/ /\ Cardinality(Pending(handlers')) <= Cardinality(Pending(handlers)) + 1
            /\ \/ events' = events + 1
               \/ \E c : c \notin Spent(calls) /\ c \in Spent(calls')
  PROVE  Numbers'
<1> DEFINE p == Cardinality(Pending(handlers))
           q == Cardinality(Pending(handlers'))
           s == Cardinality(Spent(calls))
           r == Cardinality(Spent(calls'))
<1>1. s \in Nat /\ r \in Nat /\ s <= r /\ p \in Nat /\ q \in Nat
  BY SpentFacts, SpentGrows, CountFacts, FS_CardinalityType
<1>2. (\E c : c \notin Spent(calls) /\ c \in Spent(calls')) => s + 1 <= r
  BY SpentOneMore
<1>3. issued + p <= 1 + events + s /\ issued \in Nat /\ events \in Nat
  BY CountFacts DEF Numbers, Counted
<1>4. q <= p \/ (q <= p + 1 /\ (events' = events + 1 \/ s + 1 <= r))
  BY <1>2
<1>5. events' \in Nat /\ events <= events' /\ events' \in {events, events + 1}
  BY <1>3
<1> HIDE DEF p, q, s, r
<1>6. issued + q <= 1 + events' + r
  BY <1>1, <1>3, <1>4, <1>5, Balance
<1>7. Counted(issued', events', calls', handlers')
  BY <1>6 DEF Counted, q, r
<1>8. QED
  BY <1>7, CountFacts DEF Numbers

LEMMA HandleNumbers ==
  ASSUME CountInv, NEW h \in handlers, Handle(h)
  PROVE  Numbers'
<1>1. PICK g : GoesOn(h, g) /\ (Looks(h, g) \/ Renews(h, g) \/ Ends(h, g))
  BY CountFacts, HandleStep
<1> DEFINE P == Pending(handlers)
           Q == Pending(handlers')
           s == Cardinality(Spent(calls))
<1>2. /\ \A x \in handlers' : (x \in handlers /\ x # h) \/ x = g
      /\ g.op = h.op /\ UNCHANGED <<store, calls, events>>
  BY <1>1 DEF GoesOn, Becomes
<1>3. /\ IsFiniteSet(P) /\ Cardinality(P) \in Nat /\ issued \in Nat /\ events \in Nat /\ s \in Nat
      /\ issued + Cardinality(P) <= 1 + events + s
      /\ \A x \in handlers : x.token \in Nat /\ x.token <= issued
      /\ store.access \in Nat /\ store.refresh \in Nat /\ account.jti \in Nat
  BY CountFacts, SpentFacts DEF Numbers, Counted, Within, Handler
<1>4. CASE Looks(h, g) \/ Ends(h, g)
  <2>1. IsFiniteSet(Q) /\ Cardinality(Q) \in Nat /\ Cardinality(Q) <= Cardinality(P)
    <3>1. CASE h \in P
      <4>1. Q \subseteq (P \ {h}) \cup {g}
        BY <1>2 DEF Pending
      <4> HIDE DEF P, Q
      <4>2. QED
        BY <1>3, <3>1, <4>1, Exchanged
    <3>2. CASE h \notin P
      <4>1. g \notin Q
        BY <1>2, <1>4, <3>2 DEF Pending, Looks, Ends
      <4>2. Q \subseteq P
        BY <1>2, <4>1 DEF Pending
      <4>3. QED
        BY <1>3, <4>2, Smaller
    <3>3. QED
      BY <3>1, <3>2
  <2>2. /\ g.token = h.token \/ g.token = None
        /\ UNCHANGED <<issued, live>> /\ account'.jti \in {account.jti, None}
    BY <1>1, <1>4, CountFacts DEF Looks, Ends, GoesOn, SessionInv, Shape
  <2>3. Within(issued, store, handlers')
    BY <1>2, <1>3, <2>2 DEF Numbers, Within, None, CountInv
  <2>4. issued + Cardinality(Q) <= 1 + events + s
    BY <1>3, <2>1
  <2>5. Counted(issued, events, calls, handlers')
    BY <2>1, <2>4 DEF Counted
  <2>6. account'.jti <= issued
    BY <1>3, <2>2 DEF None, Numbers, CountInv
  <2>7. QED
    BY <1>2, <2>2, <2>3, <2>5, <2>6 DEF Numbers, CountInv
<1>5. CASE Renews(h, g)
  <2>1. h \in P /\ g \notin Q /\ issued' = issued + 1 /\ g.token = issued'
    BY <1>5 DEF Renews, Pending
  <2>2. Q \subseteq P \ {h}
    BY <1>2, <2>1 DEF Pending
  <2>3. IsFiniteSet(P \ {h}) /\ Cardinality(P \ {h}) = Cardinality(P) - 1
    BY <1>3, <2>1, FS_RemoveElement
  <2>4. IsFiniteSet(Q) /\ Cardinality(Q) \in Nat /\ Cardinality(Q) <= Cardinality(P) - 1
    <3> HIDE DEF P, Q
    <3>1. QED
      BY <2>2, <2>3, Smaller
  <2>5. issued' + Cardinality(Q) <= 1 + events + s
    BY <1>3, <2>1, <2>4
  <2>6. Counted(issued', events', calls', handlers')
    BY <1>2, <2>4, <2>5 DEF Counted
  <2>7. Within(issued', store', handlers')
    BY <1>2, <1>3, <2>1 DEF Within, Numbers, CountInv
  <2>8. account'.jti = issued' /\ live' = live \cup {issued'}
    BY <1>5, CountFacts DEF Renews, SessionInv, Shape
  <2>9. live' \subseteq 1..issued'
    BY <1>3, <2>1, <2>8 DEF Numbers, CountInv
  <2>10. QED
    BY <1>2, <1>3, <2>1, <2>6, <2>7, <2>8, <2>9 DEF Numbers, CountInv
<1>6. QED
  BY <1>1, <1>4, <1>5

LEMMA LoadNumbers ==
  ASSUME CountInv, NEW t, NEW s, NEW hs \in SUBSET Handler, Load(t, s, hs),
         Within(issued, s, hs), IsFiniteSet(Pending(hs)),
         Cardinality(Pending(hs)) <= Cardinality(Pending(handlers))
  PROVE  /\ Within(issued, store', handlers') /\ IsFiniteSet(Pending(handlers'))
         /\ Cardinality(Pending(handlers')) <= Cardinality(Pending(handlers))
         /\ Spent(calls) \subseteq Spent(calls')
<1> DEFINE xs == Mine(t) \cup {t}
<1>1. handlers' = Abandon(hs, xs)
  BY DEF Load
<1> HIDE DEF xs
<1>2. \A g \in handlers' : g \in hs \/ \E h \in hs : g.token = h.token
  BY <1>1 DEF Abandon, Handler
<1>3. Within(issued, store', handlers')
  <2>1. store' \in {Cleared, s}
    BY DEF Load
  <2>2. store'.access <= issued /\ store'.refresh <= issued
    BY <2>1, CountFacts DEF Within, Cleared, None
  <2>3. QED
    BY <1>2, <2>2 DEF Within
<1>4. /\ IsFiniteSet(Pending(handlers')) /\ Cardinality(Pending(handlers')) \in Nat
      /\ Cardinality(Pending(hs)) \in Nat
      /\ Cardinality(Pending(handlers')) <= Cardinality(Pending(hs))
  BY <1>1, AbandonPending
<1>5. Spent(calls) \subseteq Spent(calls')
  BY IdleFacts DEF Spent, Load
<1>6. QED
  BY <1>3, <1>4, <1>5, CountFacts

LEMMA FewerNumbers ==
  ASSUME CountInv, NEW hs \in SUBSET handlers
  PROVE  /\ hs \in SUBSET Handler /\ Within(issued, store, hs) /\ Within(issued, Cleared, hs)
         /\ IsFiniteSet(Pending(hs)) /\ Cardinality(Pending(hs)) <= Cardinality(Pending(handlers))
<1>1. Pending(hs) \subseteq Pending(handlers)
  BY DEF Pending
<1>2. IsFiniteSet(Pending(hs)) /\ Cardinality(Pending(hs)) <= Cardinality(Pending(handlers))
  BY <1>1, CountFacts, Smaller
<1>3. QED
  BY <1>2, CountFacts DEF Numbers, Within, Cleared, None

LEMMA ReloadNumbers ==
  ASSUME CountInv, NEW t \in Tabs, Reload(t)
  PROVE  Numbers'
<1>1. Load(t, store, handlers) /\ UNCHANGED <<account, issued, live>> /\ Event
  BY DEF Reload
<1>2. /\ Within(issued, store', handlers') /\ IsFiniteSet(Pending(handlers'))
      /\ Cardinality(Pending(handlers')) <= Cardinality(Pending(handlers))
      /\ Spent(calls) \subseteq Spent(calls')
  BY <1>1, FewerNumbers, LoadNumbers
<1>3. events' = events + 1 /\ events' \in 0..MaxEvents
  BY <1>1, CountFacts DEF Event
<1>4. QED
  BY <1>1, <1>2, <1>3, BrowserNumbers

LEMMA SendNumbers ==
  ASSUME CountInv, NEW c \in Calls, NEW t \in Tabs, NEW op \in {"fetch", "logout"}, Send(c, t, op)
  PROVE  Numbers'
<1> DEFINE r == Request(c, c, op, store.access)
<1>1. r.op = op /\ r.token = store.access
  BY RequestFacts
<1>2. handlers' = handlers \cup {r} /\ UNCHANGED <<account, issued, live, store, events>>
  BY DEF Send
<1> HIDE DEF r
<1>3. Pending(handlers') = Pending(handlers)
  BY <1>1, <1>2 DEF Pending
<1>4. Within(issued, store', handlers')
  BY <1>1, <1>2, CountFacts DEF Numbers, Within
<1>5. Spent(calls) \subseteq Spent(calls')
  BY IdleFacts, CountFacts DEF Send, Spent, LinkInv, Linked
<1>6. events \in 0..MaxEvents
  BY CountFacts DEF Numbers
<1>7. QED
  BY <1>2, <1>3, <1>4, <1>5, <1>6, CountFacts, BrowserNumbers

LEMMA LoginNumbers ==
  ASSUME CountInv, NEW to \in Tabs \cup {Elsewhere}, Login(to)
  PROVE  Numbers'
<1> DEFINE r == Request(to, to, "login", None)
<1>1. r.token = None
  BY RequestFacts
<1>2. handlers' = handlers \cup {r} /\ UNCHANGED <<account, issued, live, store, calls>> /\ Event
  BY DEF Login
<1> HIDE DEF r
<1>3. Pending(handlers') \subseteq Pending(handlers) \cup {r}
  BY <1>2 DEF Pending
<1>5. /\ IsFiniteSet(Pending(handlers'))
      /\ Cardinality(Pending(handlers')) <= Cardinality(Pending(handlers)) + 1
  BY <1>3, OneMore, CountFacts
<1>6. Within(issued, store', handlers')
  BY <1>1, <1>2, CountFacts DEF Numbers, Within, None
<1>7. events' = events + 1 /\ events' \in 0..MaxEvents
  BY <1>2, CountFacts DEF Event
<1>8. QED
  BY <1>2, <1>5, <1>6, <1>7, BrowserNumbers

LEMMA UnauthorizedNumbers ==
  ASSUME CountInv, NEW h \in handlers, h.to \in Calls, Unauthorized(h, h.to)
  PROVE  Numbers'
<1> DEFINE c == h.to
           t == calls[c].tab
           new == CallOf(t, calls[c].op, "waiting", TRUE)
           r == Request(t, c, "refresh", store.refresh)
           s == IF calls[c].op = "logout" THEN Cleared ELSE store
<1>1. /\ UNCHANGED <<account, issued, live, events>> /\ events \in 0..MaxEvents
      /\ c \in Calls /\ calls[c].state = "sent" /\ ~ calls[c].retried /\ calls \in [Calls -> Call]
  BY CountFacts DEF Unauthorized, Numbers, LinkInv, Linked, Answering
<1>2. /\ handlers \ {h} \in SUBSET handlers /\ handlers \ {h} \in SUBSET Handler
      /\ Within(issued, s, handlers \ {h}) /\ Within(issued, store, handlers \ {h})
      /\ IsFiniteSet(Pending(handlers \ {h}))
      /\ Cardinality(Pending(handlers \ {h})) <= Cardinality(Pending(handlers))
  BY FewerNumbers
<1>3. ASSUME calls' = [calls EXCEPT ![c] = new]
      PROVE  Spent(calls) \subseteq Spent(calls') /\ c \notin Spent(calls) /\ c \in Spent(calls')
  BY <1>1, <1>3 DEF Spent, CallOf
<1>4. CASE calls' = [calls EXCEPT ![c] = new] /\ handlers' = handlers \ {h} /\ store' = store
  BY <1>1, <1>2, <1>3, <1>4, BrowserNumbers
<1>5. CASE calls' = [calls EXCEPT ![c] = new] /\ handlers' = (handlers \ {h}) \cup {r} /\ store' = store
  <2>1. r.token = store.refresh
    BY RequestFacts
  <2> HIDE DEF r, c, new
  <2>2. Pending(handlers') \subseteq Pending(handlers) \cup {r}
    BY <1>5 DEF Pending
  <2>4. /\ IsFiniteSet(Pending(handlers'))
        /\ Cardinality(Pending(handlers')) <= Cardinality(Pending(handlers)) + 1
    BY <2>2, OneMore, CountFacts
  <2>5. Within(issued, store', handlers')
    BY <1>2, <1>5, <2>1 DEF Within
  <2>6. QED
    BY <1>1, <1>3, <1>5, <2>4, <2>5, BrowserNumbers
<1>6. CASE Load(t, s, handlers \ {h})
  <2> HIDE DEF t, s
  <2>1. /\ Within(issued, store', handlers') /\ IsFiniteSet(Pending(handlers'))
        /\ Cardinality(Pending(handlers')) <= Cardinality(Pending(handlers))
        /\ Spent(calls) \subseteq Spent(calls')
    BY <1>2, <1>6, LoadNumbers
  <2>2. QED
    BY <1>1, <2>1, BrowserNumbers
<1>7. QED
  BY <1>4, <1>5, <1>6 DEF Unauthorized

LEMMA SettleNumbers ==
  ASSUME CountInv, NEW c, NEW rest, Settle(c, rest), Within(issued, store, rest)
  PROVE  Within(issued, store', handlers') /\ handlers' = rest /\ Spent(calls) \subseteq Spent(calls')
<1>1. Spent(calls) \subseteq Spent(calls')
  BY IdleFacts, CountFacts DEF Settle, Spent, LinkInv, Linked
<1>2. store' \in {store, Cleared} /\ handlers' = rest
  BY DEF Settle
<1>3. Within(issued, store', handlers')
  BY <1>2, CountFacts DEF Within, Cleared, None
<1>4. QED
  BY <1>1, <1>2, <1>3

LEMMA DeliverNumbers ==
  ASSUME CountInv, NEW h \in handlers, Deliver(h)
  PROVE  Numbers'
<1>1. /\ handlers \ {h} \in SUBSET Handler /\ Within(issued, Cleared, handlers \ {h})
      /\ Within(issued, store, handlers \ {h}) /\ IsFiniteSet(Pending(handlers \ {h}))
      /\ Cardinality(Pending(handlers \ {h})) <= Cardinality(Pending(handlers))
  BY FewerNumbers
<1>2. events \in 0..MaxEvents /\ h.token <= issued
  BY CountFacts DEF Numbers, Within
<1>3. ASSUME CallAnswered(h) PROVE Numbers'
  <2>1. CASE Unauthorized(h, h.to)
    BY <1>3, <2>1, UnauthorizedNumbers DEF CallAnswered
  <2>2. CASE Settle(h.to, handlers \ {h}) /\ UNCHANGED <<account, issued, live, events>>
    BY <1>1, <1>2, <2>2, SettleNumbers, BrowserNumbers
  <2>3. QED
    BY <1>3, <2>1, <2>2 DEF CallAnswered
<1>4. ASSUME Refreshed(h) PROVE Numbers'
  <2> DEFINE again == {Request(c, c, calls[c].op, h.token) : c \in Waiting(h.to)}
  <2>1. handlers' = (handlers \ {h}) \cup again /\ UNCHANGED <<account, issued, live, events>>
    BY <1>4 DEF Refreshed, Resumed
  <2>2. \A g \in again : g.token = h.token /\ g.op \in {"fetch", "logout"}
    BY RequestFacts, CountFacts DEF Waiting, Mine, LinkInv, Linked, Call
  <2> HIDE DEF again
  <2>3. Pending(handlers') \subseteq Pending(handlers)
    BY <2>1, <2>2 DEF Pending
  <2>4. Within(issued, store', handlers')
    BY <1>1, <1>2, <1>4, <2>1, <2>2, CountFacts DEF Within, Refreshed
  <2>5. Spent(calls) \subseteq Spent(calls')
    BY <1>4 DEF Refreshed, Spent, CallOf
  <2>6. /\ IsFiniteSet(Pending(handlers'))
        /\ Cardinality(Pending(handlers')) <= Cardinality(Pending(handlers))
    BY <2>3, CountFacts, Smaller
  <2>7. QED
    BY <1>2, <2>1, <2>4, <2>5, <2>6, BrowserNumbers
<1>5. ASSUME RefreshRefused(h) PROVE Numbers'
  <2>1. Load(h.to, Cleared, handlers \ {h}) /\ UNCHANGED <<account, issued, live, events>>
    BY <1>5 DEF RefreshRefused
  <2>2. /\ Within(issued, store', handlers') /\ IsFiniteSet(Pending(handlers'))
        /\ Cardinality(Pending(handlers')) <= Cardinality(Pending(handlers))
        /\ Spent(calls) \subseteq Spent(calls')
    BY <1>1, <2>1, LoadNumbers
  <2>3. QED
    BY <1>2, <2>1, <2>2, BrowserNumbers
<1>6. ASSUME LoginAnswered(h) PROVE Numbers'
  <2>1. handlers' = handlers \ {h} /\ UNCHANGED <<account, issued, live, calls, events>>
    BY <1>6 DEF LoginAnswered
  <2>2. \/ store' = store
        \/ store' = [access |-> h.token, refresh |-> h.token, user |-> TRUE]
    BY <1>6 DEF LoginAnswered
  <2>3. Within(issued, store', handlers')
    BY <1>1, <1>2, <2>1, <2>2 DEF Within
  <2>4. Spent(calls) \subseteq Spent(calls')
    BY <2>1
  <2>5. QED
    BY <1>1, <1>2, <2>1, <2>3, <2>4, BrowserNumbers
<1>7. QED
  BY <1>3, <1>4, <1>5, <1>6 DEF Deliver

LEMMA LostNumbers ==
  ASSUME CountInv, NEW h \in handlers, h.to \in Calls \cup Tabs, NEW rest, Remains(h, rest)
  PROVE  /\ rest \in SUBSET Handler /\ Within(issued, store, rest) /\ Within(issued, Cleared, rest)
         /\ IsFiniteSet(Pending(rest))
         /\ Cardinality(Pending(rest)) <= Cardinality(Pending(handlers))
<1> DEFINE h2 == [h EXCEPT !.to = Nobody]
<1>1. h2.op = h.op /\ h2.state = h.state /\ h2.token = h.token
  BY CountFacts DEF Handler
<1>2. rest \subseteq (handlers \ {h}) \cup {h2} /\ rest \in SUBSET Handler
  BY CountFacts, LostFacts DEF Remains, Abandon
<1>3. \A g \in rest : g.token <= issued
  BY <1>1, <1>2, CountFacts DEF Numbers, Within
<1>4. Within(issued, store, rest) /\ Within(issued, Cleared, rest)
  BY <1>3, CountFacts DEF Numbers, Within, Cleared, None
<1> HIDE DEF h2
<1>5. /\ IsFiniteSet(Pending(rest))
      /\ Cardinality(Pending(rest)) <= Cardinality(Pending(handlers))
  <2>1. CASE h \in Pending(handlers)
    <3>1. Pending(rest) \subseteq (Pending(handlers) \ {h}) \cup {h2}
      BY <1>2 DEF Pending
    <3>2. QED
      BY <2>1, <3>1, CountFacts, Exchanged
  <2>2. CASE h \notin Pending(handlers)
    <3>1. Pending(rest) \subseteq Pending(handlers)
      BY <1>1, <1>2, <2>2 DEF Pending
    <3>2. QED
      BY <3>1, CountFacts, Smaller
  <2>3. QED
    BY <2>1, <2>2
<1>6. QED
  BY <1>2, <1>4, <1>5

LEMMA LoseNumbers ==
  ASSUME CountInv, NEW h \in handlers, Lose(h)
  PROVE  Numbers'
<1>1. PICK rest : Remains(h, rest) /\ Losing(h, rest)
  BY CountFacts, LoseForms
<1>2. /\ h.to \in Calls \cup Tabs /\ UNCHANGED <<account, issued, live>>
      /\ events' = events + 1 /\ events' \in 0..MaxEvents
  BY CountFacts DEF Lose, Event
<1>3. /\ rest \in SUBSET Handler /\ Within(issued, store, rest) /\ Within(issued, Cleared, rest)
      /\ IsFiniteSet(Pending(rest))
      /\ Cardinality(Pending(rest)) <= Cardinality(Pending(handlers))
  BY <1>1, <1>2, LostNumbers
<1>4. /\ Within(issued, store', handlers') /\ IsFiniteSet(Pending(handlers'))
      /\ Cardinality(Pending(handlers')) <= Cardinality(Pending(handlers))
      /\ Spent(calls) \subseteq Spent(calls')
  <2>1. CASE h.to \in Calls
    BY <1>1, <1>3, <2>1, SettleNumbers DEF Losing
  <2>2. CASE h.to \notin Calls /\ h.op = "refresh"
    BY <1>1, <1>3, <2>2, LoadNumbers DEF Losing
  <2>3. CASE h.to \notin Calls /\ h.op # "refresh"
    BY <1>1, <1>3, <2>3 DEF Losing
  <2>4. QED
    BY <2>1, <2>2, <2>3
<1>5. QED
  BY <1>2, <1>4, BrowserNumbers

LEMMA StepCount ==
  ASSUME CountInv, [Next]_vars
  PROVE  CountInv'
<1>1. ASSUME UNCHANGED <<issued, store, calls, handlers>>, account'.jti = account.jti,
             live' \subseteq live, events' \in 0..MaxEvents, events <= events'
      PROVE  Numbers'
  <2>1. issued + Cardinality(Pending(handlers)) <= 1 + events' + Cardinality(Spent(calls))
    BY <1>1, CountFacts, SpentFacts DEF Numbers, Counted
  <2>2. Counted(issued', events', calls', handlers')
    BY <1>1, <2>1, CountFacts DEF Counted
  <2>3. QED
    BY <1>1, <2>2, CountFacts DEF Numbers
<1>2. Event => events' \in 0..MaxEvents /\ events <= events'
  BY CountFacts DEF Event
<1>3. ASSUME NEW active \in BOOLEAN, SetActive(active) PROVE Numbers'
  <2>1. account'.jti = account.jti
    BY <1>3, CountFacts DEF SetActive, SessionInv, Shape
  <2>2. QED
    BY <1>1, <1>2, <1>3, <2>1 DEF SetActive
<1>4. ASSUME RefreshTokenExpires PROVE Numbers'
  <2>1. account'.jti = account.jti
    BY <1>4, CountFacts DEF RefreshTokenExpires, SessionInv, Shape
  <2>2. QED
    BY <1>1, <1>2, <1>4, <2>1 DEF RefreshTokenExpires
<1>5. ASSUME AccessTokenExpires \/ UNCHANGED vars PROVE Numbers'
  <2>1. events \in 0..MaxEvents /\ events <= events
    BY CountFacts DEF Numbers
  <2>2. QED
    BY <1>1, <1>5, <2>1 DEF AccessTokenExpires, vars
<1>6. Numbers'
  BY <1>3, <1>4, <1>5, HandleNumbers, DeliverNumbers, LoseNumbers, SendNumbers, LoginNumbers,
     ReloadNumbers DEF Next
<1>7. LinkInv'
  BY StepLinked DEF CountInv
<1>8. QED
  BY <1>6, <1>7 DEF CountInv

LEMMA InitCount ==
  ASSUME Init
  PROVE  CountInv
<1>1. LinkInv
  BY InitSigned DEF SignedInv
<1>2. Pending(handlers) = {}
  BY DEF Init, Pending
<1>3. Counted(issued, events, calls, handlers)
  <2>1. IsFiniteSet(Pending(handlers)) /\ Cardinality(Pending(handlers)) = 0
    BY <1>2, FS_EmptySet
  <2>2. issued = 1 /\ events = 0 /\ Cardinality(Spent(calls)) \in Nat
    BY SpentFacts DEF Init
  <2>3. QED
    BY <2>1, <2>2 DEF Counted
<1>4. Numbers
  BY <1>3, CallsAssumption DEF Init, Numbers, Within
<1>5. QED
  BY <1>1, <1>4 DEF CountInv

LEMMA CountedTypeOK ==
  ASSUME CountInv
  PROVE  TypeOK
<1>1. /\ Linked(calls, tabs, handlers) /\ SessionInv
      /\ issued \in Nat /\ MaxEvents \in Nat /\ account.jti \in Nat
      /\ store \in [access : Nat, refresh : Nat, user : BOOLEAN]
      /\ events \in 0..MaxEvents /\ issued >= 1 /\ account.jti <= issued /\ live \subseteq 1..issued
      /\ store.access <= issued /\ store.refresh <= issued
  BY CountFacts, LinkFacts DEF Numbers, Within
<1>2. issued \in Tokens
  <2>1. issued <= 1 + events + Cardinality(Calls) /\ Cardinality(Calls) \in Nat
    BY CountFacts, SpentFacts DEF Numbers, Counted
  <2>2. QED
    BY <1>1, <2>1 DEF Tokens
<1>3. account \in [jti : {None} \cup Tokens, fresh : BOOLEAN, active : BOOLEAN]
  <2>1. account.jti \in {None} \cup Tokens
    <3>1. issued \in 1..(MaxEvents + Cardinality(Calls) + 1) /\ Cardinality(Calls) \in Nat
      BY <1>2, SpentFacts DEF Tokens
    <3>2. account.jti = 0 \/ account.jti \in 1..(MaxEvents + Cardinality(Calls) + 1)
      BY <1>1, <3>1
    <3>3. QED
      BY <3>2 DEF Tokens, None
  <2>2. account \in [jti : Nat, fresh : BOOLEAN, active : BOOLEAN]
    BY <1>1 DEF SessionInv, Shape
  <2>3. QED
    BY <2>1, <2>2
<1>4. store \in [access : 0..issued, refresh : 0..issued, user : BOOLEAN]
  BY <1>1
<1>5. /\ tabs \in [Tabs -> [user : BOOLEAN, refreshing : BOOLEAN]]
      /\ calls \in [Calls -> [state : {"idle", "sent", "waiting", "done"}, tab : Tabs \cup {Nobody},
                              op : {"fetch", "logout"}, retried : BOOLEAN]]
  BY <1>1 DEF Linked, Tab, Call
<1>6. ASSUME NEW t \in Tabs, ~ tabs[t].refreshing PROVE Waiting(t) = {}
  BY <1>1, <1>6 DEF Linked, Calling, Waiting, Mine
<1>7. ASSUME NEW c \in Calls
      PROVE  Cardinality({h \in handlers : h.to = c}) = (IF calls[c].state = "sent" THEN 1 ELSE 0)
  <2>1. CASE calls[c].state = "sent"
    <3>1. PICK h \in handlers : h.to = c
      BY <1>1, <2>1 DEF Linked, Served
    <3>2. {g \in handlers : g.to = c} = {h}
      BY <3>1, LinkFacts DEF CountInv
    <3>3. QED
      BY <2>1, <3>2, FS_Singleton
  <2>2. CASE calls[c].state # "sent"
    <3>1. {h \in handlers : h.to = c} = {}
      BY <1>1, <2>2 DEF Linked, Answering
    <3>2. QED
      BY <2>2, <3>1, FS_EmptySet
  <2>3. QED
    BY <2>1, <2>2
<1>8. QED
  BY <1>1, <1>2, <1>3, <1>4, <1>5, <1>6, <1>7 DEF TypeOK

(* The state keeps its types: among them that no more tokens are issued    *)
(* than calls and events ask for, that nothing holds one that was not      *)
(* issued, that each call sent has exactly one request that answers it,    *)
(* and that a call waits only while its tab refreshes.                     *)
THEOREM TypeCorrect == Spec => []TypeOK
<1>1. Init => CountInv
  BY InitCount
<1>2. CountInv /\ [Next]_vars => CountInv'
  BY StepCount
<1>3. CountInv => TypeOK
  BY CountedTypeOK
<1>4. QED
  BY <1>1, <1>2, <1>3, PTL DEF Spec
=============================================================================
