---------------------------- MODULE BrokerLogins ----------------------------
(***************************************************************************)
(* Who is logged in: the login threads of the strategy engine              *)
(* (connectors/exchange.py), the reconnect of AliceBlue through the API    *)
(* (fastapi_routers.py), an order the broker answers with "unauthorized",  *)
(* and the login of the worker's own adapter (adapters/aliceblue.py).      *)
(*                                                                         *)
(* They share the row of apis (the saved session, the state of its token)  *)
(* and the row of broker_health, each written by its own operations.  The  *)
(* engine keeps, in memory, the users who are logged in, listed, and a     *)
(* client with a session for each.  The engine logs a user in once, at its *)
(* start; the users of the brokers in Retried also from a loop that goes   *)
(* on.  Each user has one broker and one strategy, live when opened.       *)
(*                                                                         *)
(* A session is a number; good is what the broker accepts.                 *)
(***************************************************************************)
EXTENDS WorkerControl

CONSTANTS
  AliceUsers,     \* users whose broker is AliceBlue
  MstockUsers,    \* users of mStock, the other broker with a relogin loop
  OtherUsers,     \* users of a broker whose users are logged in once
  MaxSessions     \* bound: the sessions the broker issues to a user

Users == AliceUsers \cup MstockUsers \cup OtherUsers
Retried == AliceUsers \cup MstockUsers
Sessions == 0 .. MaxSessions            \* 0: none
Codes == {"none", "valid", "spent"}
Threads == (Users \X {"first"}) \cup (Retried \X {"again"})

ASSUME LoginAssumption ==
  /\ MaxSessions \in Nat \ {0}
  /\ \A w \in Workloads : w.users \subseteq Users /\ w.paused \cup w.holding \subseteq w.users

VARIABLES
  good,           \* the sessions the broker of a user accepts
  issued,         \* the newest session it has issued
  code,           \* the auth code in apis: "none", "valid" or "spent"
  api,            \* the row of apis
  health,         \* login_status in broker_health
  opened,         \* the users with an opened live strategy
  listed,         \* userloggedin
  client,         \* the session of the client in alice, mstock, ...
  login,          \* the login threads: where, and what they have read
  markpc,         \* the order threads that were answered "unauthorized"
  callback,       \* the reconnect of a user through the API
  relog,          \* the users the worker is logging in
  adapter,        \* the login of the worker's adapter
  checked         \* history: the sessions the broker has accepted or issued since
                  \* the worker process began

loginVars == <<good, issued, code, api, health, opened, listed, client, login,
               markpc, callback, relog, adapter, checked>>

loginRows == <<load, good, issued, code, api, health, checked>>

LoginAt == {"off", "find", "copy", "assign", "pick", "ask", "save", "refresh",
            "saveapi", "savehealth", "reread", "reject", "update", "sleep", "done"}

Attempts == [pc : LoginAt, free : BOOLEAN, copy : SUBSET Users, session : Sessions,
             code : Codes, last : BOOLEAN, ok : BOOLEAN]

NoLogin == [pc |-> "off", free |-> FALSE, copy |-> {}, session |-> 0, code |-> "none",
            last |-> FALSE, ok |-> FALSE]
Idle == [pc |-> "idle", session |-> 0]
NoAdapter == [pc |-> "idle", session |-> 0, code |-> "none"]

LoginTypeOK ==
  /\ good \in [Users -> SUBSET (Sessions \ {0})]
  /\ issued \in [Users -> Sessions]
  /\ code \in [Users -> Codes]
  /\ api \in [Users -> [session : Sessions, token : {"none", "connected", "reconnect"}]]
  /\ health \in [Users -> {"not_tested", "connected", "rejected"}]
  /\ opened \subseteq Users /\ listed \subseteq Users
  /\ client \in [Users -> Sessions]
  /\ login \in [Threads -> Attempts]
  /\ markpc \in [Users -> {"idle", "api", "health"}] /\ relog \subseteq AliceUsers
  /\ callback \in [Users -> [pc : {"idle", "api", "refuse", "health", "rejected"}, session : Sessions]]
  /\ adapter \in [Users -> [pc : {"idle", "ask", "again", "save", "token", "health", "rejected"},
                            session : Sessions, code : Codes]]
  /\ checked \in [Users -> SUBSET Sessions]

\* The threads as they start; the users outside the workload have no accounts.
Started == [t \in Threads |-> [NoLogin EXCEPT !.pc =
  IF t[1] \notin load.users THEN "done" ELSE IF t[2] = "first" THEN "pick" ELSE "find"]]

\* A user of AliceBlue comes with what an earlier day left: nothing, or a saved
\* session that has expired, and an auth code that still works or does not.  The
\* credentials of the other brokers have been tested.
LoginInit ==
  /\ api \in [Users -> {[session |-> 0, token |-> "none"], [session |-> 1, token |-> "connected"]}]
  /\ good = [u \in Users |-> {}]
  /\ issued = [u \in Users |-> api[u].session]
  /\ code \in [Users -> Codes]
  /\ \A u \in Users : api[u].session # 0 => code[u] # "none"
  /\ \A u \in Users \ (load.users \cap AliceUsers) : code[u] = "none"
  /\ health = [u \in Users |->
       IF u \in AliceUsers /\ api[u].session = 0 THEN "not_tested" ELSE "connected"]
  /\ opened \in SUBSET load.users
  /\ listed = {} /\ client = [u \in Users |-> 0]
  /\ login = (IF load.begun THEN Started ELSE [t \in Threads |-> NoLogin])
  /\ markpc = [u \in Users |-> "idle"]
  /\ callback = [u \in Users |-> Idle] /\ relog = {} /\ adapter = [u \in Users |-> NoAdapter]
  /\ checked = [u \in Users |-> {}]

(***************************************************************************)
(* The broker.                                                             *)
(***************************************************************************)

Newest(u) == IF issued[u] < MaxSessions THEN issued[u] + 1 ELSE MaxSessions

\* A session issued for an auth code; its profile answers.
Issue(u) ==
  /\ issued' = [issued EXCEPT ![u] = Newest(u)]
  /\ good' = [good EXCEPT ![u] = @ \cup {Newest(u)}]
  /\ checked' = [checked EXCEPT ![u] = @ \cup {Newest(u)}]

\* Sessions expire, and with them perhaps the auth code.
Expire(u) ==
  /\ good[u] # {} /\ Spend("expiries")
  /\ good' = [good EXCEPT ![u] = {}]
  /\ \/ UNCHANGED code
     \/ code[u] = "valid" /\ code' = [code EXCEPT ![u] = "spent"]
  /\ UNCHANGED <<issued, api, health, opened, listed, client, login, markpc,
                 callback, relog, adapter, checked>>

(***************************************************************************)
(* The login threads of the engine.  A thread of one user stands for the   *)
(* work on that user: _process_broker_logins and _process_broker_relogins  *)
(* hand their users to a pool.                                             *)
(***************************************************************************)

\* _get_execution_active_users: whose live strategy is opened or paused, or still
\* has a position.
Needed == opened \cup load.paused \cup load.holding

Goes(t, pc) == login' = [login EXCEPT ![t].pc = pc]

loginOnly == UNCHANGED <<opened, markpc, callback, relog, adapter>>
loginMemory == UNCHANGED <<opened, listed, client, markpc, callback, relog, adapter>>

\* _start_all_threads, at the end of the engine's initialisation.
StartThreads ==
  /\ engine = "starting" /\ \A t \in Threads : login[t].pc = "off"
  /\ login' = Started
  /\ UNCHANGED loginRows /\ loginMemory

\* The relogin loop looks for users who are not in the list as it is now ...
FindNotLogged(t) ==
  /\ login[t].pc = "find"
  /\ IF quitting THEN Goes(t, "done")
     ELSE login' = [login EXCEPT ![t] = [@ EXCEPT !.pc = "copy", !.free = t[1] \notin listed]]
  /\ UNCHANGED loginRows /\ loginMemory

\* ... and then replaces the list by a copy without duplicates, in two steps:
\* an append between them is lost.
CopyList(t) ==
  /\ login[t].pc = "copy"
  /\ login' = [login EXCEPT ![t] = [@ EXCEPT !.pc = "assign", !.copy = listed]]
  /\ UNCHANGED loginRows /\ loginMemory

AssignList(t) ==
  /\ login[t].pc = "assign"
  /\ listed' = login[t].copy
  /\ login' = [login EXCEPT ![t] =
        [@ EXCEPT !.pc = IF login[t].free THEN "pick" ELSE "sleep", !.copy = {}]]
  /\ UNCHANGED loginRows /\ UNCHANGED client /\ loginOnly

\* The row as the thread reads it: only users who need a session are logged in.
Pick(t) ==
  /\ login[t].pc = "pick"
  /\ login' = [login EXCEPT ![t] =
        [@ EXCEPT !.pc = IF t[1] \in Needed THEN "ask"
                         ELSE IF t[2] = "first" THEN "done" ELSE "sleep",
                  !.session = api[t[1]].session, !.code = code[t[1]]]]
  /\ UNCHANGED loginRows /\ loginMemory

Sleep(t) ==
  /\ login[t].pc = "sleep" /\ Goes(t, "find")
  /\ UNCHANGED loginRows /\ loginMemory

\* As one that takes the saved session for good.
AskNoProfile(t) ==
  LET u == t[1] s == login[t].session IN
  /\ login[t].pc = "ask" /\ u \in AliceUsers
  /\ \/ /\ s # 0 /\ Goes(t, "save")
        /\ UNCHANGED <<load, good, issued, checked>>
     \/ /\ s = 0 /\ login[t].code = "valid" /\ code[u] = "valid"
        /\ Issue(u) /\ UNCHANGED load
        /\ login' = [login EXCEPT ![t] = [@ EXCEPT !.pc = "save", !.session = Newest(u)]]
     \/ /\ \/ s = 0 /\ (login[t].code # "valid" \/ code[u] # "valid") /\ UNCHANGED load
           \/ Spend("faults")
        /\ Goes(t, IF login[t].last THEN "reject" ELSE "refresh")
        /\ UNCHANGED <<good, issued, checked>>
     \/ Spend("faults") /\ Goes(t, "update") /\ UNCHANGED <<good, issued, checked>>
  /\ UNCHANGED <<code, api, health>> /\ loginMemory

\* The saved session, or one for the auth code when there is none; the profile
\* tells whether it is good.  A profile call that fails counts as a refusal; a
\* session call that raises ends the attempt.
Ask(t) ==
  LET u == t[1] s == login[t].session IN
  /\ login[t].pc = "ask" /\ u \in AliceUsers
  /\ \/ /\ s # 0 /\ s \in good[u] /\ Goes(t, "save")
        /\ checked' = [checked EXCEPT ![u] = @ \cup {s}]
        /\ UNCHANGED <<load, good, issued>>
     \/ /\ s = 0 /\ login[t].code = "valid" /\ code[u] = "valid"
        /\ Issue(u) /\ UNCHANGED load
        /\ login' = [login EXCEPT ![t] = [@ EXCEPT !.pc = "save", !.session = Newest(u)]]
     \/ /\ \/ s # 0 /\ s \notin good[u] /\ UNCHANGED load
           \/ s = 0 /\ (login[t].code # "valid" \/ code[u] # "valid") /\ UNCHANGED load
           \/ Spend("faults")
        /\ Goes(t, IF login[t].last THEN "reject" ELSE "refresh")
        /\ UNCHANGED <<good, issued, checked>>
     \/ Spend("faults") /\ Goes(t, "update") /\ UNCHANGED <<good, issued, checked>>
  /\ UNCHANGED <<code, api, health>> /\ loginMemory

SaveLogin(t) ==
  LET u == t[1] IN
  /\ login[t].pc = "save"
  /\ api' = [api EXCEPT ![u] = [session |-> login[t].session, token |-> "connected"]]
  /\ login' = [login EXCEPT ![t] = [@ EXCEPT !.pc = "update", !.ok = TRUE]]
  /\ UNCHANGED <<load, good, issued, code, health, checked>> /\ loginMemory

\* _refresh_aliceblue_auth: a new session for the auth code in the row now.
Refresh(t) ==
  LET u == t[1] IN
  /\ login[t].pc = "refresh"
  /\ \/ /\ code[u] = "valid" /\ Issue(u) /\ UNCHANGED load
        /\ login' = [login EXCEPT ![t] = [@ EXCEPT !.pc = "saveapi", !.session = Newest(u)]]
     \/ /\ \/ code[u] # "valid" /\ UNCHANGED load
           \/ Spend("faults")
        /\ Goes(t, "reject") /\ UNCHANGED <<good, issued, checked>>
  /\ UNCHANGED <<code, api, health>> /\ loginMemory

SaveRefreshed(t) ==
  LET u == t[1] IN
  /\ login[t].pc = "saveapi" /\ Goes(t, "savehealth")
  /\ api' = [api EXCEPT ![u] = [session |-> login[t].session, token |-> "connected"]]
  /\ UNCHANGED <<load, good, issued, code, health, checked>> /\ loginMemory

SaveHealth(t) ==
  /\ login[t].pc = "savehealth" /\ Goes(t, "reread")
  /\ health' = [health EXCEPT ![t[1]] = "connected"]
  /\ UNCHANGED <<load, good, issued, code, api, checked>> /\ loginMemory

\* The second attempt starts from the row as it is by then.
Reread(t) ==
  /\ login[t].pc = "reread"
  /\ login' = [login EXCEPT ![t] =
        [@ EXCEPT !.pc = "ask", !.session = api[t[1]].session, !.code = code[t[1]], !.last = TRUE]]
  /\ UNCHANGED loginRows /\ loginMemory

\* As a rejection that ends the thread.
RejectEnds(t) ==
  /\ login[t].pc = "reject" /\ Goes(t, "done")
  /\ health' = [health EXCEPT ![t[1]] = "rejected"]
  /\ UNCHANGED <<load, good, issued, code, api, checked>> /\ loginMemory

Reject(t) ==
  /\ login[t].pc = "reject" /\ Goes(t, "update")
  /\ health' = [health EXCEPT ![t[1]] = "rejected"]
  /\ UNCHANGED <<load, good, issued, code, api, checked>> /\ loginMemory

\* The other brokers: a session of the day or a new one, kept in collections
\* of their own, in one external step.
OtherLogin(t) ==
  LET u == t[1] IN
  /\ login[t].pc = "ask" /\ u \notin AliceUsers
  /\ \/ /\ Issue(u) /\ UNCHANGED load
        /\ login' = [login EXCEPT ![t] =
              [@ EXCEPT !.pc = "update", !.session = Newest(u), !.ok = TRUE]]
     \/ Spend("faults") /\ Goes(t, "update") /\ UNCHANGED <<good, issued, checked>>
  /\ UNCHANGED <<code, api, health>> /\ loginMemory

UpdateLoginState(t) ==
  LET u == t[1] IN
  /\ login[t].pc = "update"
  /\ IF login[t].ok
     THEN client' = [client EXCEPT ![u] = login[t].session] /\ listed' = listed \cup {u}
     ELSE UNCHANGED <<client, listed>>
  /\ login' = [login EXCEPT ![t] =
       [NoLogin EXCEPT !.pc = IF t[2] = "first" THEN "done" ELSE "sleep"]]
  /\ UNCHANGED loginRows /\ loginOnly

(***************************************************************************)
(* An order of the engine answered "unauthorized".  The user stays listed  *)
(* and keeps the client.                                                   *)
(***************************************************************************)

markOnly == UNCHANGED <<load, good, issued, code, opened, listed, client, login, callback,
                        relog, adapter, checked>>

OrderUnauthorized(u) ==
  /\ u \in listed \cap AliceUsers /\ client[u] \notin good[u] /\ markpc[u] = "idle"
  /\ api[u].token = "connected" \/ health[u] # "rejected"
  /\ markpc' = [markpc EXCEPT ![u] = "api"]
  /\ UNCHANGED <<api, health>> /\ markOnly

MarkReconnect(u) ==
  /\ \/ /\ markpc[u] = "api" /\ markpc' = [markpc EXCEPT ![u] = "health"]
        /\ api' = [api EXCEPT ![u].token = "reconnect"] /\ UNCHANGED health
     \/ /\ markpc[u] = "health" /\ markpc' = [markpc EXCEPT ![u] = "idle"]
        /\ health' = [health EXCEPT ![u] = "rejected"] /\ UNCHANGED api
  /\ markOnly

(***************************************************************************)
(* The reconnect through the API: the code of the callback is exchanged,   *)
(* then apis and broker_health are written.                                *)
(***************************************************************************)

callbackOnly == UNCHANGED <<opened, listed, client, login, markpc, relog, adapter>>

ExchangeCode(u) ==
  /\ u \in AliceUsers /\ callback[u] = Idle /\ Spend("reconnects")
  /\ \/ /\ Issue(u)
        /\ callback' = [callback EXCEPT ![u] = [pc |-> "api", session |-> Newest(u)]]
     \/ /\ callback' = [callback EXCEPT ![u].pc = "refuse"] /\ UNCHANGED <<good, issued, checked>>
  /\ UNCHANGED <<code, api, health>> /\ callbackOnly

SaveReconnect(u) ==
  /\ \/ /\ callback[u].pc = "api"
        /\ api' = [api EXCEPT ![u] = [session |-> callback[u].session, token |-> "connected"]]
        /\ code' = [code EXCEPT ![u] = "valid"]
        /\ callback' = [callback EXCEPT ![u].pc = "health"] /\ UNCHANGED health
     \/ /\ callback[u].pc = "refuse" /\ UNCHANGED <<code, health>>
        /\ api' = [api EXCEPT ![u].token = "reconnect"]
        /\ callback' = [callback EXCEPT ![u].pc = "rejected"]
     \/ /\ callback[u].pc \in {"health", "rejected"} /\ UNCHANGED <<code, api>>
        /\ health' = [health EXCEPT ![u] = IF callback[u].pc = "health" THEN "connected" ELSE "rejected"]
        /\ callback' = [callback EXCEPT ![u] = Idle]
  /\ UNCHANGED <<load, good, issued, checked>> /\ callbackOnly

(***************************************************************************)
(* The worker's own adapter, in the thread of the loop: the command        *)
(* "relogin", or the maintenance of a round, sets relog.                   *)
(***************************************************************************)

adapterOnly == UNCHANGED <<opened, listed, client, login, markpc, callback>>

\* The worker's adapter cares for opened strategies and positions, not for paused ones.
Trading == opened \cup load.holding

Relogging == relog # {} \/ \E u \in Users : adapter[u] # NoAdapter

\* Without a session and without a code the adapter raises.
AdapterBegins(u) ==
  /\ u \in relog /\ \A v \in Users : adapter[v] = NoAdapter
  /\ relog' = relog \ {u}
  /\ adapter' = [adapter EXCEPT ![u] =
       [pc |-> IF api[u].session = 0 /\ code[u] = "none" THEN "rejected" ELSE "ask",
        session |-> api[u].session, code |-> code[u]]]
  /\ UNCHANGED loginRows /\ adapterOnly

\* The saved session first; one for the auth code when that is refused or there
\* is none.  A call that raises leaves the token's state alone.
AdapterAsks(u) ==
  LET s == adapter[u].session  c == adapter[u].code  works == c = "valid" /\ code[u] = "valid" IN
  /\ \/ /\ adapter[u].pc = "ask" /\ s \in good[u]
        /\ checked' = [checked EXCEPT ![u] = @ \cup {s}]
        /\ adapter' = [adapter EXCEPT ![u].pc = "save"] /\ UNCHANGED <<load, good, issued>>
     \/ /\ adapter[u].pc = "ask"
        /\ (s \notin good[u] /\ UNCHANGED load) \/ (s # 0 /\ Spend("faults"))
        /\ adapter' = [adapter EXCEPT ![u].pc = "again"] /\ UNCHANGED <<good, issued, checked>>
     \/ /\ adapter[u].pc = "again" /\ works /\ Issue(u) /\ UNCHANGED load
        /\ adapter' = [adapter EXCEPT ![u].pc = "save", ![u].session = Newest(u)]
     \/ /\ adapter[u].pc = "again" /\ ~works /\ UNCHANGED <<load, good, issued, checked>>
        /\ adapter' = [adapter EXCEPT ![u].pc = IF c = "none" THEN "rejected" ELSE "token"]
     \/ /\ adapter[u].pc \in {"ask", "again"} /\ Spend("faults")
        /\ adapter' = [adapter EXCEPT ![u].pc = "rejected"] /\ UNCHANGED <<good, issued, checked>>
  /\ UNCHANGED <<code, api, health, relog>> /\ adapterOnly

\* The session is saved with the auth code as it was read.
AdapterSaves(u) ==
  /\ \/ /\ adapter[u].pc = "save" /\ UNCHANGED health
        /\ api' = [api EXCEPT ![u] = [session |-> adapter[u].session, token |-> "connected"]]
        /\ code' = [code EXCEPT ![u] = IF adapter[u].code = "spent" THEN "spent" ELSE @]
        /\ adapter' = [adapter EXCEPT ![u].pc = "health"]
     \/ /\ adapter[u].pc = "token" /\ UNCHANGED <<health, code>>
        /\ api' = [api EXCEPT ![u].token = "reconnect"]
        /\ adapter' = [adapter EXCEPT ![u].pc = "rejected"]
     \/ /\ adapter[u].pc \in {"health", "rejected"} /\ UNCHANGED <<api, code>>
        /\ health' = [health EXCEPT ![u] = IF adapter[u].pc = "health" THEN "connected" ELSE "rejected"]
        /\ adapter' = [adapter EXCEPT ![u] = NoAdapter]
  /\ UNCHANGED <<load, good, issued, checked, relog>> /\ adapterOnly

\* The engine and the worker's adapters are gone with the process.
LoginsGone ==
  /\ listed' = {} /\ client' = [u \in Users |-> 0]
  /\ login' = [t \in Threads |-> NoLogin]
  /\ markpc' = [u \in Users |-> "idle"] /\ relog' = {} /\ adapter' = [u \in Users |-> NoAdapter]
  /\ checked' = [u \in Users |-> {}]
  /\ UNCHANGED <<good, issued, code, api, health, opened, callback>>

Thread(t) ==
  \/ FindNotLogged(t) \/ CopyList(t) \/ AssignList(t) \/ Pick(t) \/ Ask(t)
  \/ SaveLogin(t) \/ Refresh(t) \/ SaveRefreshed(t) \/ SaveHealth(t) \/ Reread(t)
  \/ Reject(t) \/ OtherLogin(t) \/ UpdateLoginState(t) \/ Sleep(t)

ThreadStep == \E t \in Threads : Thread(t)
=============================================================================
