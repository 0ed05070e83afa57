------------------------------ MODULE Accounts ------------------------------
(***************************************************************************)
(* Accounts and sessions: the sign-in page, the session its cookie keeps   *)
(* (lib/auth.tsx, app/api/auth), the Users page, and the handlers of       *)
(* routers/users.py and routers/auth.py behind them.  A handler reads and  *)
(* decides in one step and writes in a later one; the role it trusts is    *)
(* the one its token carries, not the one the row has by then.             *)
(*                                                                         *)
(* A tab stands for a browser: its cookie jar is its own.  Passwords are   *)
(* right whenever the account has one.  Google sign-in is configured.      *)
(***************************************************************************)
EXTENDS Naturals, FiniteSets

CONSTANTS Name,         \* account names
          Admin,        \* the name seed_default_admin uses
          Sub,          \* Google accounts
          Google,       \* tabs whose browser lets Google's script load
          Tab, Slot,    \* browser tabs; requests that may be under way at once
          None,
          Entry,        \* pages a person loads anew (by address, by reload)
          Installed,    \* tables of accounts to start from
          MaxId,        \* bound: accounts ever made
          MaxCalls,     \* bound: requests sent
          MaxFaults     \* bound: restarts of the server and sessions that run out

Role == {"admin", "user"}
Id == 1..MaxId
Row == [id : Id, role : Role, google : Sub \cup {None}, password : BOOLEAN]
Token == [name : Name, role : Role]

\* A row as the Users page shows it.
UserListItem == [id : Id, name : Name, role : Role, linked : BOOLEAN]

Account(table) == {n \in Name : table[n] # None}
Admins(table) == {n \in Account(table) : table[n].role = "admin"}

ASSUME NoneAssumption == /\ None \notin Name \cup Sub \cup Tab \cup Row \cup Token
                         /\ Admin \in Name
ASSUME EntryAssumption == Entry \subseteq {"login", "users", "other"}
ASSUME BoundAssumption == MaxId \in Nat /\ MaxCalls \in Nat /\ MaxFaults \in Nat
ASSUME InstalledAssumption ==
    \A table \in Installed :
        /\ table \in [Name -> Row \cup {None}]
        /\ Admins(table) # {}
        /\ Cardinality(Account(table)) \in 0..MaxId
        /\ \A n \in Account(table) : table[n].id <= Cardinality(Account(table))
        /\ \A m, n \in Account(table) : table[m].id = table[n].id => m = n

Op == {"me", "login", "google", "logout", "list", "add", "password", "role", "link", "delete"}

\* A request.  tab: the page that hears the answer (None once it is gone).
\* token: the cookie it was sent with.  got: the token it earned; known: its
\* owner still existed when the session was opened.  heard: the browser has the
\* cookie and the page awaits the body.  astray: sent from a page that showed
\* another account than the cookie's.  after: the operation whose success made
\* the page fetch its list again.
Call == [op : Op, tab : Tab \cup {None}, token : Token \cup {None}, page : {"login", "users", "other"},
         stage : {"sent", "checked", "opening", "answered", "heard", "failed"},
         id : Id \cup {0}, name : Name \cup {None}, role : Role \cup {"none"},
         sub : Sub \cup {None}, got : Token \cup {None}, known : BOOLEAN, astray : BOOLEAN,
         rows : SUBSET UserListItem, after : Op]

ASSUME CallAssumption == None \notin Call

\* A tab.  gsi: Google's script is loaded; callback: whose function its
\* initialize was given last ("old": an earlier visit of the Users page);
\* prompt: its prompt was opened; ref: linkingUserIdRef of that visit.  crossed:
\* since the page was loaded a cookie came before the body of the last one.
TabState == [page : {"login", "users", "other"}, checked : BOOLEAN,
             shown : Token \cup {None}, list : SUBSET UserListItem, gsi : BOOLEAN,
             callback : {"none", "login", "link", "old"}, prompt : BOOLEAN, ref : Id \cup {0},
             crossed : BOOLEAN]

VARIABLES users,     \* the table, by name (username is UNIQUE)
          next,      \* the next user_id
          tabs, cookie, calls,
          lapse,     \* a role or an account was changed for someone no longer an
                     \* admin, or from a page that showed another account
          sent, faults

vars == <<users, next, tabs, cookie, calls, lapse, sent, faults>>

-----------------------------------------------------------------------------
(* The pages *)

\* The sign-in page initialises Google's script again whenever it appears; the
\* Users page only when the script loads.
Mounted(tab, page) ==
    [tab EXCEPT !.page = page, !.list = {},
                !.callback = CASE page = "login" /\ tab.gsi -> "login"
                               [] page # "users" /\ @ = "link" -> "old"
                               [] OTHER -> @]

\* The page an answer to the session leaves: signed out to the sign-in page,
\* signed in away from it.
RedirectIfNeeded(tab) ==
    CASE tab.shown = None /\ tab.page # "login" -> Mounted(tab, "login")
      [] tab.shown # None /\ tab.page = "login" -> Mounted(tab, "other")
      [] OTHER -> tab

Session(c) == c.op \in {"me", "login", "google", "logout"}

\* Requests of a page that is left are answered to nobody; the session's are
\* heard by the provider around every page.
Unheard(cs, t, old, new) ==
    [s \in Slot |-> IF cs[s] # None /\ ~Session(cs[s]) /\ cs[s].tab = t /\ old # new
                    THEN [cs[s] EXCEPT !.tab = None] ELSE cs[s]]

Ask(t, op, token, page) ==
    [op |-> op, tab |-> t, token |-> token, page |-> page, stage |-> "sent",
     id |-> 0, name |-> None, role |-> "none", sub |-> None, got |-> None,
     known |-> FALSE, astray |-> FALSE, rows |-> {}, after |-> op]

Astray(t) == cookie[t] # None /\ tabs[t].shown # cookie[t]

From(t, op) == [Ask(t, op, cookie[t], tabs[t].page) EXCEPT !.astray = Astray(t)]

UnderWay(t, op) == \E s \in Slot : /\ calls[s] # None
                                   /\ calls[s].tab = t
                                   /\ calls[s].after = op

Send(call) == /\ sent < MaxCalls
              /\ sent' = sent + 1
              /\ \E s \in Slot : calls[s] = None /\ calls' = [calls EXCEPT ![s] = call]

Fresh(page) == [page |-> page, checked |-> FALSE, shown |-> None, list |-> {}, gsi |-> FALSE,
                callback |-> "none", prompt |-> FALSE, ref |-> 0, crossed |-> FALSE]

Listed == {[id |-> users[n].id, name |-> n, role |-> users[n].role,
            linked |-> users[n].google # None] : n \in Account(users)}

\* Everyone starts signed in on the Users page, or signed out.
Init ==
    /\ users \in Installed
    /\ next = 1 + Cardinality(Account(users))
    /\ cookie \in [Tab -> Token \cup {None}]
    /\ \A t \in Tab : cookie[t] # None => /\ cookie[t].name \in Account(users)
                                          /\ cookie[t].role = users[cookie[t].name].role
    /\ tabs = [t \in Tab |->
                 [Fresh(IF cookie[t] = None THEN "login" ELSE "users") EXCEPT
                     !.checked = TRUE, !.shown = cookie[t],
                     !.list = IF cookie[t] = None THEN {} ELSE Listed]]
    /\ calls = [s \in Slot |-> None]
    /\ lapse = FALSE
    /\ sent = 0
    /\ faults = 0

-----------------------------------------------------------------------------
(* What the person does *)

\* Loading a page anew: the provider shows nothing until it knows the session.
Load(t, page) ==
    /\ sent < MaxCalls
    /\ sent' = sent + 1
    /\ tabs' = [tabs EXCEPT ![t] = Fresh(page)]
    /\ \E s \in Slot :
          /\ calls[s] = None
          /\ calls' = [r \in Slot |->
                         IF r = s THEN Ask(t, "me", cookie[t], page)
                         ELSE IF calls[r] # None /\ calls[r].tab = t
                              THEN [calls[r] EXCEPT !.tab = None] ELSE calls[r]]
    /\ UNCHANGED <<users, next, cookie, lapse, faults>>

\* A link of the signed-in application; the Users page fetches its list.
Go(t, page) ==
    /\ tabs[t].checked /\ tabs[t].shown # None
    /\ page # tabs[t].page /\ page # "login"
    /\ tabs' = [tabs EXCEPT ![t] = Mounted(@, page)]
    /\ IF page = "users" THEN Send(Ask(t, "list", cookie[t], page))
       ELSE /\ calls' = Unheard(calls, t, tabs[t].page, page)
            /\ UNCHANGED sent
    /\ UNCHANGED <<users, next, cookie, lapse, faults>>

\* The script arrives and the page's onLoad runs initGoogle, once a document.
InitGoogle(t) ==
    /\ t \in Google /\ tabs[t].checked /\ ~tabs[t].gsi /\ tabs[t].page \in {"login", "users"}
    /\ tabs' = [tabs EXCEPT ![t].gsi = TRUE,
                            ![t].callback = IF tabs[t].page = "login" THEN "login" ELSE "link"]
    /\ UNCHANGED <<users, next, cookie, calls, lapse, sent, faults>>

\* The button waits for either way of signing in.
HandleSubmit(t, n) ==
    /\ tabs[t].checked /\ tabs[t].page = "login"
    /\ ~UnderWay(t, "login") /\ ~UnderWay(t, "google")
    /\ Send([From(t, "login") EXCEPT !.name = n])
    /\ UNCHANGED <<users, next, tabs, cookie, lapse, faults>>

\* "Sign out?" answered with yes.
Logout(t) ==
    /\ tabs[t].checked /\ tabs[t].shown # None
    /\ Send(From(t, "logout"))
    /\ UNCHANGED <<users, next, tabs, cookie, lapse, faults>>

\* Google's prompt, for the row of one's own account.
HandleLinkGoogle(t, r) ==
    /\ tabs[t].page = "users" /\ tabs[t].gsi
    /\ r \in tabs[t].list /\ tabs[t].shown # None /\ r.name = tabs[t].shown.name /\ ~r.linked
    /\ tabs' = [tabs EXCEPT ![t].prompt = TRUE,
                            ![t].ref = IF tabs[t].callback = "link" THEN r.id ELSE @]
    /\ UNCHANGED <<users, next, cookie, calls, lapse, sent, faults>>

\* A Google account is picked, in the prompt or with the button of the sign-in
\* page: the function initialize was given last gets its credential.
Credential(t, g) ==
    /\ tabs[t].callback # "none"
    /\ tabs[t].checked /\ (tabs[t].prompt \/ tabs[t].page = "login")
    /\ tabs' = [tabs EXCEPT ![t].prompt = FALSE,
                            ![t].ref = IF tabs[t].callback = "login" THEN @ ELSE 0]
    /\ CASE tabs[t].callback = "login" -> Send([From(t, "google") EXCEPT !.sub = g])
         [] tabs[t].callback \in {"link", "old"} /\ tabs[t].ref # 0 ->
                Send([From(t, "link") EXCEPT !.sub = g, !.id = tabs[t].ref])
         [] OTHER -> UNCHANGED <<calls, sent>>
    /\ UNCHANGED <<users, next, cookie, lapse, faults>>

\* Mutant: one's own row is enabled too.
AllRows(t) == tabs[t].list

\* The rows whose role and delete buttons are enabled.
Enabled(t) == {r \in tabs[t].list : tabs[t].shown # None /\ r.name # tabs[t].shown.name}

HandleAdd(t, n) ==
    /\ tabs[t].checked /\ tabs[t].page = "users" /\ ~UnderWay(t, "add")
    /\ Send([From(t, "add") EXCEPT !.name = n])
    /\ UNCHANGED <<users, next, tabs, cookie, lapse, faults>>

HandleToggleRole(t, r) ==
    /\ tabs[t].page = "users" /\ r \in Enabled(t)
    /\ Send([From(t, "role") EXCEPT !.id = r.id,
                                    !.role = IF r.role = "admin" THEN "user" ELSE "admin"])
    /\ UNCHANGED <<users, next, tabs, cookie, lapse, faults>>

HandleDelete(t, r) ==
    /\ tabs[t].page = "users" /\ r \in Enabled(t)
    /\ Send([From(t, "delete") EXCEPT !.id = r.id])
    /\ UNCHANGED <<users, next, tabs, cookie, lapse, faults>>

HandleChangePassword(t, r) ==
    /\ tabs[t].page = "users" /\ r \in tabs[t].list /\ ~UnderWay(t, "password")
    /\ Send([From(t, "password") EXCEPT !.id = r.id])
    /\ UNCHANGED <<users, next, tabs, cookie, lapse, faults>>

\* Eight hours later; the page is not told.
Expire(t) ==
    /\ cookie[t] # None
    /\ faults < MaxFaults
    /\ faults' = faults + 1
    /\ cookie' = [cookie EXCEPT ![t] = None]
    /\ UNCHANGED <<users, next, tabs, calls, lapse, sent>>

-----------------------------------------------------------------------------
(* The server *)

\* get_current_user: the account must exist; require_admin: the token says so.
Current(c) == c.token # None /\ c.token.name \in Account(users)
RequireAdmin(c) == Current(c) /\ c.token.role = "admin"

OfId(i) == {n \in Account(users) : users[n].id = i}
Claimed(g) == \E n \in Account(users) : users[n].google = g

CheckLastAdmin(c) == \A n \in OfId(c.id) :
                        c.role = "user" /\ users[n].role = "admin" => Cardinality(Admins(users)) > 1

\* What a handler finds before it writes.
Accepts(c) ==
    CASE c.op = "add" -> RequireAdmin(c) /\ c.name \notin Account(users)
      [] c.op = "role" -> RequireAdmin(c) /\ OfId(c.id) # {} /\ CheckLastAdmin(c)
      [] c.op = "link" -> /\ Current(c)
                          /\ users[c.token.name].id = c.id \/ c.token.role = "admin"
                          /\ OfId(c.id) # {}
                          /\ \A n \in OfId(c.id) : users[n].google = None
                          /\ ~Claimed(c.sub)
      [] c.op = "delete" -> /\ RequireAdmin(c)
                            /\ OfId(c.id) # {} /\ c.token.name \notin OfId(c.id)
                            /\ Cardinality(Account(users)) > 1
      [] OTHER -> Current(c)

Stage(s, stage) == calls' = [calls EXCEPT ![s].stage = stage]

Earned(n) == [name |-> n, role |-> users[n].role]

\* Reads only: list, me, and the checks of the handlers that write later.
Check(s) ==
    LET c == calls[s] IN
    /\ c # None /\ c.stage = "sent"
    /\ c.op \in {"me", "list", "add", "role", "link", "delete"}
    /\ IF ~Accepts(c) THEN Stage(s, "failed")
       ELSE CASE c.op = "list" -> calls' = [calls EXCEPT ![s].stage = "answered", ![s].rows = Listed]
              [] c.op = "me" -> calls' = [calls EXCEPT ![s].stage = "answered", ![s].got = c.token,
                                                       ![s].known = TRUE]
              [] OTHER -> Stage(s, "checked")
    /\ UNCHANGED <<users, next, tabs, cookie, lapse, sent, faults>>

\* A Google account nobody has linked gets an account of its own, under the
\* first name that is free.
SignIn(s) ==
    LET c == calls[s]
        owners == {n \in Account(users) : users[n].google = c.sub}
        open(n) == calls' = [calls EXCEPT ![s].stage = "opening", ![s].got = Earned(n)]
    IN  /\ c # None /\ c.stage = "sent"
        /\ \/ /\ c.op = "login"
              /\ IF c.name \in Account(users) /\ users[c.name].password
                 THEN open(c.name) ELSE Stage(s, "failed")
           \/ c.op = "google" /\ \E n \in owners : open(n)
           \/ /\ c.op = "google" /\ owners = {}
              /\ \E n \in Name \ Account(users) :
                    calls' = [calls EXCEPT ![s].stage = "checked", ![s].name = n]
           \/ c.op = "logout" /\ Stage(s, "answered")
        /\ UNCHANGED <<users, next, tabs, cookie, lapse, sent, faults>>

\* UPDATE ... WHERE user_id; the read of the row is not repeated.
ChangePassword(s) ==
    LET c == calls[s] IN
    /\ c # None /\ c.stage = "sent" /\ c.op = "password"
    /\ IF Current(c) /\ OfId(c.id) # {}
       THEN /\ users' = [n \in Name |-> IF n \in OfId(c.id) THEN [users[n] EXCEPT !.password = TRUE]
                                        ELSE users[n]]
            /\ Stage(s, "answered")
       ELSE Stage(s, "failed") /\ UNCHANGED users
    /\ UNCHANGED <<next, tabs, cookie, lapse, sent, faults>>

\* Mutant: a number drawn is not used up.
SameNext == next

\* user_id has a default of its own: no account gets the number of another.
UserId == next + 1

\* username is UNIQUE: the second of two INSERTs fails.
CreateUser(s) ==
    LET c == calls[s]
        free == c.name \notin Account(users) /\ (c.op = "google" => ~Claimed(c.sub))
    IN  /\ c # None /\ c.stage = "checked" /\ c.op \in {"add", "google"}
        /\ next <= MaxId
        /\ IF free
           THEN /\ users' = [users EXCEPT ![c.name] =
                               [id |-> next, role |-> "user", google |-> c.sub,
                                password |-> c.op = "add"]]
                /\ next' = UserId
                /\ IF c.op = "add" THEN Stage(s, "answered")
                   ELSE calls' = [calls EXCEPT ![s].stage = "opening",
                                               ![s].got = [name |-> c.name, role |-> "user"]]
           ELSE Stage(s, "failed") /\ UNCHANGED <<users, next>>
        /\ UNCHANGED <<tabs, cookie, lapse, sent, faults>>

\* The author of a change is no longer an admin when it is written, or was not
\* the account the page took the person for.
Lapsed(c) == c.token.name \notin Admins(users) \/ c.astray

ChangeRole(s) ==
    LET c == calls[s] IN
    /\ c # None /\ c.stage = "checked" /\ c.op = "role"
    /\ users' = [n \in Name |-> IF n \in OfId(c.id) THEN [users[n] EXCEPT !.role = c.role]
                                ELSE users[n]]
    /\ lapse' = (lapse \/ Lapsed(c))
    /\ Stage(s, "answered")
    /\ UNCHANGED <<next, tabs, cookie, sent, faults>>

DeleteUser(s) ==
    LET c == calls[s] IN
    /\ c # None /\ c.stage = "checked" /\ c.op = "delete"
    /\ users' = [n \in Name |-> IF n \in OfId(c.id) THEN None ELSE users[n]]
    /\ lapse' = (lapse \/ Lapsed(c))
    /\ Stage(s, "answered")
    /\ UNCHANGED <<next, tabs, cookie, sent, faults>>

\* google_id is UNIQUE.
LinkGoogle(s) ==
    LET c == calls[s] IN
    /\ c # None /\ c.stage = "checked" /\ c.op = "link"
    /\ IF OfId(c.id) # {} /\ \E n \in Account(users) \ OfId(c.id) : users[n].google = c.sub
       THEN Stage(s, "failed") /\ UNCHANGED users
       ELSE /\ users' = [n \in Name |-> IF n \in OfId(c.id) THEN [users[n] EXCEPT !.google = c.sub]
                                        ELSE users[n]]
            /\ Stage(s, "answered")
    /\ UNCHANGED <<next, tabs, cookie, lapse, sent, faults>>

\* createSession asks who the new token belongs to; it does not look at the
\* status of the answer.
CreateSession(s) ==
    LET c == calls[s] IN
    /\ c # None /\ c.stage = "opening"
    /\ calls' = [calls EXCEPT ![s].stage = "answered",
                              ![s].known = c.got.name \in Account(users)]
    /\ UNCHANGED <<users, next, tabs, cookie, lapse, sent, faults>>

\* The server stops and starts: what it was doing is lost, and the default
\* admin is seeded or made admin again.
Seeded == IF Account(users) = {}
          THEN [users EXCEPT ![Admin] = [id |-> next, role |-> "admin", google |-> None,
                                         password |-> TRUE]]
          ELSE [n \in Name |-> IF n = Admin /\ n \in Account(users)
                               THEN [users[n] EXCEPT !.role = "admin"] ELSE users[n]]

Restart ==
    /\ faults < MaxFaults
    /\ faults' = faults + 1
    /\ Account(users) = {} => next <= MaxId
    /\ users' = Seeded
    /\ next' = IF Account(users) = {} THEN next + 1 ELSE next
    /\ calls' = [s \in Slot |-> IF calls[s] # None /\ calls[s].stage \notin {"answered", "heard"}
                                THEN [calls[s] EXCEPT !.stage = "failed"] ELSE calls[s]]
    /\ UNCHANGED <<tabs, cookie, lapse, sent>>

-----------------------------------------------------------------------------
(* The answers *)

Free(s) == calls' = [calls EXCEPT ![s] = None]

\* Mutant: an account shown stays until it signs out.
SetUserOnce(tab, who) == [tab EXCEPT !.checked = TRUE,
                                     !.shown = IF @ = None \/ who = None THEN who ELSE @]

SetUser(tab, who) == [tab EXCEPT !.checked = TRUE, !.shown = who]

\* The session changed: the provider shows it and redirects.  The Users page,
\* shown for the first time once the session is known, fetches its list.
Turn(s, t, shown) ==
    LET tab == RedirectIfNeeded(SetUser(tabs[t], shown))
        rest == Unheard([calls EXCEPT ![s] = None], t, tabs[t].page, tab.page)
    IN  /\ tabs' = [tabs EXCEPT ![t] = tab]
        /\ calls' = IF calls[s].op = "me" /\ tab.page = "users"
                    THEN [rest EXCEPT ![s] = Ask(t, "list", cookie[t], "users")]
                    ELSE rest

Good(c) == c.stage \in {"answered", "heard"}

SetsCookie(c) == c.tab # None /\ c.op \in {"login", "google", "logout"}
Awaited(t) == \E s \in Slot : calls[s] # None /\ calls[s].tab = t /\ calls[s].stage = "heard"

\* The headers of an answer carry the cookie: fetch is over, and its body, or the
\* function that awaits it, comes later.
SetCookie(s) ==
    LET c == calls[s]
        t == c.tab
    IN  /\ c # None /\ c.stage = "answered" /\ SetsCookie(c)
        /\ cookie' = [cookie EXCEPT ![t] = IF c.op = "logout" THEN None ELSE c.got]
        /\ tabs' = [tabs EXCEPT ![t].crossed = @ \/ Awaited(t)]
        /\ Stage(s, "heard")
        /\ UNCHANGED <<users, next, lapse, sent, faults>>

Answer(s) ==
    LET c == calls[s]
        t == c.tab
        who == IF Good(c) /\ c.known THEN c.got ELSE None
    IN  /\ c # None
        /\ c.stage \in {"heard", "failed"} \/ (c.stage = "answered" /\ ~SetsCookie(c))
        /\ CASE t # None /\ c.op = "me" -> Turn(s, t, who)
             [] t # None /\ c.op \in {"login", "google"} /\ Good(c) -> Turn(s, t, who)
             [] t # None /\ c.op = "logout" /\ Good(c) -> Turn(s, t, None)
             [] t # None /\ c.op = "list" /\ Good(c) ->
                    /\ tabs' = [tabs EXCEPT ![t].list = c.rows]
                    /\ Free(s)
             [] t # None /\ c.op \in {"add", "role", "link", "delete"} /\ Good(c) ->
                    /\ calls' = [calls EXCEPT ![s] = [From(t, "list") EXCEPT !.after = c.op]]
                    /\ UNCHANGED tabs
             [] OTHER -> Free(s) /\ UNCHANGED tabs
        /\ UNCHANGED <<users, next, cookie, lapse, sent, faults>>

Serve(s) == \/ Check(s) \/ SignIn(s) \/ ChangePassword(s) \/ CreateUser(s) \/ ChangeRole(s)
            \/ DeleteUser(s) \/ LinkGoogle(s) \/ CreateSession(s) \/ SetCookie(s)
            \/ Answer(s)

Next ==
    \/ \E t \in Tab :
          \/ \E page \in {"login", "users", "other"} : Go(t, page)
          \/ \E page \in Entry : Load(t, page)
          \/ InitGoogle(t) \/ Logout(t) \/ Expire(t)
          \/ \E n \in Name : HandleSubmit(t, n) \/ HandleAdd(t, n)
          \/ \E g \in Sub : Credential(t, g)
          \/ \E r \in tabs[t].list : \/ HandleLinkGoogle(t, r) \/ HandleToggleRole(t, r)
                                     \/ HandleDelete(t, r) \/ HandleChangePassword(t, r)
    \/ \E s \in Slot : Serve(s)
    \/ Restart

Spec == Init /\ [][Next]_vars

-----------------------------------------------------------------------------
(* Properties *)

\* Every variable keeps its type, and no account is numbered past the counter.
TypeOK ==
    /\ users \in [Name -> Row \cup {None}]
    /\ next \in 1..(MaxId + 1)
    /\ \A n \in Account(users) : users[n].id < next
    /\ tabs \in [Tab -> TabState]
    /\ cookie \in [Tab -> Token \cup {None}]
    /\ calls \in [Slot -> Call \cup {None}]
    /\ lapse \in BOOLEAN /\ sent \in Nat /\ faults \in Nat

\* An admin is left, unless a role was changed or an account deleted for someone
\* who was no longer an admin by the time it was written, or from a page that
\* showed another account than its cookie's (see SessionShown).  The count of
\* _check_last_admin (users.py:61) is not what keeps it: a count taken before
\* another demotion is written is worth nothing, and delete_user (users.py:200)
\* takes none.  The author's own row does, which the page leaves alone.
AdminKept == lapse \/ Admins(users) # {}

\* A change of role or a deletion on its way never names the account its cookie
\* belongs to, whatever was reloaded, signed out, deleted or made again between
\* the list and the click (page.tsx:218-262; the server refuses only deletions),
\* unless the page showed another account than its cookie's (see SessionShown).
OwnAccountSpared ==
    \A s \in Slot :
        calls[s] # None /\ calls[s].op \in {"role", "delete"} /\ calls[s].token # None
            => calls[s].astray \/ calls[s].token.name \notin OfId(calls[s].id)

\* The name and role the pages show are those of the cookie, as long as it
\* lives and no answer is between its cookie and its body: sign-ins, sign-outs
\* and /me that overlap or cross a reload never leave one account shown and
\* another acting (lib/auth.tsx), but for one case.  Of two sign-ins under way at
\* once (the form and Google's button) the bodies may come in the other order
\* than the cookies, and nothing in auth.tsx:84-94 compares them.
SessionShown ==
    \A t \in Tab : tabs[t].shown # None /\ cookie[t] # None => \/ tabs[t].shown = cookie[t]
                                                             \/ Awaited(t) \/ tabs[t].crossed

\* A credential asked for to link an account is not used to sign in: only the
\* sign-in page signs in (docs/manual.md:9, 213).  The code breaks it: once the
\* script was loaded by the sign-in page the Users page does not initialise it.
LinkKeepsSession ==
    \A s \in Slot : calls[s] # None /\ calls[s].op = "google" => calls[s].page = "login"
=============================================================================
