--------------------------- MODULE LoginSessions ---------------------------
(***************************************************************************)
(* Accounts, login sessions and whose a chat is (identity.py, api/auth.py, *)
(* api/users.py).  A browser sends its cookie and a name of its own, under *)
(* which it owns chats before anybody logs in.  A request resolves its     *)
(* actor first, then reads the account, then commits what it made of it;   *)
(* the requests of all browsers cross at will.  Passwords are numbered as  *)
(* they are set, 0 for none; renaming an account changes none of this.     *)
(***************************************************************************)
EXTENDS Naturals, NoValue

CONSTANTS
    Users,        \* accounts of members, by their id
    Browsers,
    Tokens,       \* bound: login sessions at a time
    Calls,        \* bound: requests at a time
    MaxPasswords, \* bound: passwords that are set
    MaxVersion    \* bound: versions after which nothing is cleared

Account == [password : Nat, version : Nat \ {0}]
Login == [user : Users, alive : BOOLEAN, password : Nat, version : Nat \ {0}]

\* The name a browser gives itself is not the id of a user: those begin otherwise
\* (frontend/src/lib/identity.ts, api/auth.py).
ASSUME LoginsAssumption ==
    /\ Users \cap Browsers = {} /\ MaxPasswords \in Nat
    /\ None \notin Users \cup Browsers \cup Tokens \cup Account \cup Login

VARIABLES
    accounts,  \* user -> None or [password, version]
    logins,    \* token -> None or the login session
    cookies,   \* browser -> the token it sends, or None
    owners,    \* the users and browsers that own a chat
    doing,     \* request -> what it does
    set,       \* how many passwords have been set
    crossed,   \* history: users one of whose changes overwrote one it had not read
    strays     \* history: browsers that own a chat begun before they logged in

loginVars == <<accounts, logins, cookies, owners, doing, set, crossed, strays>>

Nothing == [at |-> "idle", browser |-> None, token |-> None, actor |-> None, user |-> None,
            read |-> None, password |-> 0]

LoginsInit ==
    /\ accounts = [u \in Users |-> None] /\ logins = [t \in Tokens |-> None]
    /\ cookies = [b \in Browsers |-> None] /\ owners = {}
    /\ doing = [r \in Calls |-> Nothing] /\ set = 0
    /\ crossed = {} /\ strays = {}

-----------------------------------------------------------------------------
\* Mutant of Resolves: the version is not compared.
ResolvesAnyVersion(token) ==
    /\ token # None /\ logins[token] # None
    /\ logins[token].alive
\* The session is there, has not expired and is of the version of the account.
Resolves(token) ==
    /\ token # None /\ logins[token] # None
    /\ logins[token].alive
    /\ logins[token].version = accounts[logins[token].user].version

Actor(token) == IF Resolves(token) THEN logins[token].user ELSE None

\* _resolve_actor: who sends no session that resolves is the browser itself.
Arrive(r, b) ==
    /\ doing[r] = Nothing
    /\ doing' = [doing EXCEPT ![r] = [Nothing EXCEPT !.at = "arrived", !.browser = b,
                                        !.token = cookies[b], !.actor = Actor(cookies[b])]]
    /\ UNCHANGED <<accounts, logins, cookies, owners, set, crossed, strays>>

Responds(r) == doing' = [doing EXCEPT ![r] = Nothing]

\* create_session of a chat
StartChat(r) ==
    /\ doing[r].at = "arrived"
    /\ LET b == doing[r].browser
           a == doing[r].actor
       IN /\ owners' = owners \cup {IF a = None THEN b ELSE a}
          /\ strays' = IF a = None /\ Resolves(cookies[b]) THEN strays \cup {b} ELSE strays
    /\ Responds(r) /\ UNCHANGED <<accounts, logins, cookies, set, crossed>>

-----------------------------------------------------------------------------
\* A request reads the account it is about; "read" is what it read.
Reads(r, at, user, password) ==
    doing' = [doing EXCEPT ![r] = [@ EXCEPT !.at = at, !.actor = None, !.user = user,
                                            !.read = accounts[user], !.password = password]]

\* A password is needed once the account has one; without one, or without an
\* account, what is given becomes its password.
AskLogin(r, user, password) ==
    /\ doing[r].at = "arrived"
    /\ IF accounts[user] # None /\ accounts[user].password # 0
       THEN password = accounts[user].password /\ set' = set
       ELSE set < MaxPasswords /\ password = set + 1 /\ set' = set + 1
    /\ Reads(r, "login", user, password)
    /\ UNCHANGED <<accounts, logins, cookies, owners, crossed, strays>>

\* The account as the request leaves it: a changed password counts up.
WithPassword(d) == [password |-> d.password, version |-> d.read.version + 1]
\* Mutant of LoggedIn: a new account gets its password with the next login.
LoggedInUncounted(d) ==
    IF d.read = None THEN [password |-> d.password, version |-> 0] ELSE accounts[d.user]
LoggedIn(d) ==
    IF d.read = None THEN [password |-> d.password, version |-> 1]
    ELSE IF d.read.password = 0 THEN WithPassword(d)
    ELSE accounts[d.user]

\* A change that was made since the account was read is overwritten.
Crosses(d, changes) ==
    crossed' = IF changes /\ d.read # None /\ accounts[d.user] # d.read
               THEN crossed \cup {d.user} ELSE crossed

\* Mutant of Moved: a registration keeps the chats where they are.
MovedOld(d) == IF d.read = None THEN owners \cup {d.user} ELSE (owners \ {d.browser}) \cup {d.user}
\* The chats of the browser become those of the user.
Moved(d) == IF d.browser \in owners THEN (owners \ {d.browser}) \cup {d.user} ELSE owners

\* _login commits all at once; two registrations of one name leave one.
CommitLogin(r) ==
    /\ doing[r].at = "login"
    /\ LET d == doing[r]
           a == LoggedIn(d)
       IN \/ /\ ~(d.read = None /\ accounts[d.user] # None)
             /\ accounts' = [accounts EXCEPT ![d.user] = a]
             /\ owners' = Moved(d)
             /\ \E t \in Tokens :
                  /\ logins[t] = None /\ \A b \in Browsers : cookies[b] # t
                  /\ \A q \in Calls : doing[q].token # t
                  /\ logins' = [logins EXCEPT ![t] =
                       [user |-> d.user, alive |-> TRUE, password |-> d.password,
                        version |-> IF d.read # None /\ d.read.password # 0
                                    THEN d.read.version ELSE a.version]]
                  /\ cookies' = [cookies EXCEPT ![d.browser] = t]
             /\ Crosses(d, d.read # None /\ d.read.password = 0)
             /\ strays' = strays \ {d.browser}
          \/ /\ d.read = None /\ accounts[d.user] # None
             /\ UNCHANGED <<accounts, owners, logins, cookies, crossed, strays>>
    /\ Responds(r) /\ set' = set

OfUser(user) == {t \in Tokens : logins[t] # None /\ logins[t].user = user}
Without(tokens) == [t \in Tokens |-> IF t \in tokens THEN None ELSE logins[t]]

AskPassword(r) ==
    /\ doing[r].at = "arrived" /\ doing[r].actor # None
    /\ set < MaxPasswords /\ set' = set + 1
    /\ Reads(r, "password", doing[r].actor, set + 1)
    /\ UNCHANGED <<accounts, logins, cookies, owners, crossed, strays>>
\* Mutant of Kept: the session that changes the password keeps its version.
KeptOld(d) == Without(OfUser(d.user) \ {d.token})
\* The session that changes the password stays, the others go.
Kept(d) ==
    [t \in Tokens |->
        IF t \notin OfUser(d.user) THEN logins[t]
        ELSE IF t # d.token THEN None
        ELSE [logins[t] EXCEPT !.version = WithPassword(d).version, !.password = d.password]]
CommitPassword(r) ==
    /\ doing[r].at = "password"
    /\ accounts' = [accounts EXCEPT ![doing[r].user] = WithPassword(doing[r])]
    /\ logins' = Kept(doing[r])
    /\ Crosses(doing[r], TRUE)
    /\ Responds(r) /\ UNCHANGED <<cookies, owners, set, strays>>

\* An administrator's request.
AskClear(r, user) ==
    /\ doing[r] = Nothing /\ accounts[user] # None
    /\ accounts[user].version < MaxVersion
    /\ Reads(r, "clear", user, 0)
    /\ UNCHANGED <<accounts, logins, cookies, owners, set, crossed, strays>>
CommitClear(r) ==
    /\ doing[r].at = "clear"
    /\ accounts' = [accounts EXCEPT ![doing[r].user] = WithPassword(doing[r])]
    /\ logins' = Without(OfUser(doing[r].user))
    /\ Crosses(doing[r], TRUE)
    /\ Responds(r) /\ UNCHANGED <<cookies, owners, set, strays>>

LogOut(b) ==
    /\ cookies[b] # None /\ cookies' = [cookies EXCEPT ![b] = None]
    /\ logins' = [logins EXCEPT ![cookies[b]] = None]
    /\ UNCHANGED <<accounts, owners, doing, set, crossed, strays>>

\* The session was not used for half its lifetime; its row stays.
Expire(t) ==
    /\ logins[t] # None /\ logins[t].alive
    /\ logins' = [logins EXCEPT ![t].alive = FALSE]
    /\ UNCHANGED <<accounts, cookies, owners, doing, set, crossed, strays>>
LoginsNext ==
    \/ \E r \in Calls :
          \/ \E b \in Browsers : Arrive(r, b)
          \/ \E u \in Users : AskClear(r, u) \/ \E p \in 1..MaxPasswords : AskLogin(r, u, p)
          \/ StartChat(r) \/ CommitLogin(r) \/ AskPassword(r) \/ CommitPassword(r)
          \/ CommitClear(r)
    \/ \E b \in Browsers : LogOut(b)
    \/ \E t \in Tokens : Expire(t)

-----------------------------------------------------------------------------
\* Accounts and sessions keep their shape, and a session has an account.
LoginsTypeOK ==
    /\ \A u \in Users : accounts[u] # None =>
         accounts[u].password \in 0..MaxPasswords /\ accounts[u].version > 0
    /\ \A t \in Tokens : logins[t] # None =>
         /\ logins[t].alive \in BOOLEAN
         /\ accounts[logins[t].user] # None
    /\ owners \subseteq Users \cup Browsers

\* A session that resolves was begun with the present password of its user, or set
\* it: a login, a change and a clearing may cross, so a login that has checked the
\* old password commits after the change.  Only when two changes are made from
\* one reading can a session of the other stay.
SessionIsOfPassword ==
    \A t \in Tokens : Resolves(t) /\ logins[t].user \notin crossed
        => logins[t].password = accounts[logins[t].user].password

\* While a user is logged in no chat stays with the browser's own name, whatever
\* sessions ended and users changed before; only a chat whose request came in
\* before the login is left behind.  Two changes made from one reading can bring
\* back a session that no longer resolved, with the chats begun meanwhile.
ChatsFollowLogin ==
    \A b \in Browsers :
      Resolves(cookies[b]) /\ logins[cookies[b]].user \notin crossed /\ b \in owners
        => b \in strays

\* Changing the password does not log out the session that does it, whatever was
\* changed since its account was read.
OwnSessionStays ==
    \A r \in Calls, t \in Tokens :
      doing[r].at = "password" /\ doing'[r] = Nothing /\ doing[r].token = t /\ Resolves(t)
        => Resolves(t)'
=============================================================================
