--------------------------- MODULE AccountsProofs ---------------------------
(***************************************************************************)
(* Proofs about Accounts: its type, that the account shown is the one that *)
(* acts, and that an admin is left unless rights had lapsed.               *)
(***************************************************************************)
EXTENDS Accounts, TLAPS

LEMMA CallsType ==
    ASSUME NEW t \in Tab, NEW op \in Op, NEW token \in Token \cup {None},
           NEW page \in {"login", "users", "other"}
    PROVE  Ask(t, op, token, page) \in Call
BY DEF Ask, Call

LEMMA MountedType ==
    ASSUME NEW tab \in TabState, NEW page \in {"login", "users", "other"}
    PROVE  /\ Mounted(tab, page) \in TabState
           /\ Mounted(tab, page).checked = tab.checked
           /\ Mounted(tab, page).crossed = tab.crossed
           /\ Mounted(tab, page).shown = tab.shown
           /\ Mounted(tab, page).list = {}
           /\ Mounted(tab, page).page = page
BY DEF Mounted, TabState

LEMMA RedirectType ==
    ASSUME NEW tab \in TabState
    PROVE  /\ RedirectIfNeeded(tab) \in TabState
           /\ RedirectIfNeeded(tab).checked = tab.checked
           /\ RedirectIfNeeded(tab).crossed = tab.crossed
           /\ RedirectIfNeeded(tab).shown = tab.shown
           /\ RedirectIfNeeded(tab).list \subseteq tab.list
<1>1. CASE tab.shown = None /\ tab.page # "login"
  BY <1>1, MountedType DEF RedirectIfNeeded, TabState
<1>2. CASE tab.shown # None /\ tab.page = "login"
  BY <1>2, MountedType DEF RedirectIfNeeded, TabState
<1>3. CASE ~(tab.shown = None /\ tab.page # "login") /\ ~(tab.shown # None /\ tab.page = "login")
  BY <1>3 DEF RedirectIfNeeded
<1> QED BY <1>1, <1>2, <1>3

LEMMA UnheardType ==
    ASSUME NEW cs \in [Slot -> Call \cup {None}], NEW t, NEW old, NEW new
    PROVE  Unheard(cs, t, old, new) \in [Slot -> Call \cup {None}]
<1> SUFFICES ASSUME NEW s \in Slot
             PROVE  Unheard(cs, t, old, new)[s] \in Call \cup {None}
  BY DEF Unheard
<1>1. CASE cs[s] # None /\ ~Session(cs[s]) /\ cs[s].tab = t /\ old # new
  <2>1. cs[s] \in Call
    BY <1>1
  <2>2. [cs[s] EXCEPT !.tab = None] \in Call
    BY <2>1 DEF Call
  <2> QED BY <1>1, <2>2 DEF Unheard
<1>2. CASE ~(cs[s] # None /\ ~Session(cs[s]) /\ cs[s].tab = t /\ old # new)
  BY <1>2 DEF Unheard
<1> QED BY <1>1, <1>2

\* The type of everything but the numbers of accounts, which the steps that
\* write the table keep below the counter.
Kinds == /\ users \in [Name -> Row \cup {None}]
         /\ next \in 1..(MaxId + 1)
         /\ tabs \in [Tab -> TabState]
         /\ cookie \in [Tab -> Token \cup {None}]
         /\ calls \in [Slot -> Call \cup {None}]
         /\ lapse \in BOOLEAN /\ sent \in Nat /\ faults \in Nat

LEMMA SendType ==
    ASSUME TypeOK, NEW call \in Call, Send(call)
    PROVE  calls' \in [Slot -> Call \cup {None}] /\ sent' \in Nat
BY DEF Send, TypeOK

LEMMA FromType ==
    ASSUME TypeOK, NEW t \in Tab, NEW op \in Op
    PROVE  From(t, op) \in Call
<1>1. cookie[t] \in Token \cup {None} /\ tabs[t].page \in {"login", "users", "other"}
  BY DEF TypeOK, TabState
<1>2. Ask(t, op, cookie[t], tabs[t].page) \in Call
  BY <1>1, CallsType
<1>3. \A k \in BOOLEAN : [Ask(t, op, cookie[t], tabs[t].page) EXCEPT !.astray = k] \in Call
  BY <1>2 DEF Call
<1>4. Astray(t) \in BOOLEAN
  BY DEF Astray
<1> QED BY <1>3, <1>4, Zenon DEF From

LEMMA NumberedType ==
    ASSUME NEW call \in Call, NEW i \in Id \cup {0}
    PROVE  [call EXCEPT !.id = i] \in Call
BY DEF Call

LEMMA LinkType ==
    ASSUME NEW call \in Call, NEW i \in Id \cup {0}, NEW g \in Sub
    PROVE  [call EXCEPT !.sub = g, !.id = i] \in Call
BY DEF Call

LEMMA RoleType ==
    ASSUME NEW call \in Call, NEW i \in Id \cup {0}, NEW role \in Role
    PROVE  [call EXCEPT !.id = i, !.role = role] \in Call
BY DEF Call

LEMMA PageKinds ==
    ASSUME TypeOK, NEW t \in Tab,
           \/ \E page \in {"login", "users", "other"} : Load(t, page) \/ Go(t, page)
           \/ InitGoogle(t) \/ Logout(t) \/ Expire(t)
           \/ \E n \in Name : HandleSubmit(t, n) \/ HandleAdd(t, n)
           \/ \E g \in Sub : Credential(t, g)
           \/ \E r \in tabs[t].list : \/ HandleLinkGoogle(t, r) \/ HandleToggleRole(t, r)
                                      \/ HandleDelete(t, r) \/ HandleChangePassword(t, r)
    PROVE  Kinds'
<1> USE DEF Op
<1>0. tabs[t] \in TabState /\ cookie[t] \in Token \cup {None}
  BY DEF TypeOK
<1>1. ASSUME NEW page \in {"login", "users", "other"}, Load(t, page) PROVE Kinds'
  <2>1. Fresh(page) \in TabState
    BY DEF Fresh, TabState
  <2>2. PICK s \in Slot :
           calls' = [r \in Slot |->
                       IF r = s THEN Ask(t, "me", cookie[t], page)
                       ELSE IF calls[r] # None /\ calls[r].tab = t
                            THEN [calls[r] EXCEPT !.tab = None] ELSE calls[r]]
    BY <1>1 DEF Load
  <2>3. Ask(t, "me", cookie[t], page) \in Call
    BY <1>0, CallsType
  <2>4. \A r \in Slot : calls[r] # None => [calls[r] EXCEPT !.tab = None] \in Call
    BY DEF TypeOK, Call
  <2>5. calls' \in [Slot -> Call \cup {None}]
    BY <2>2, <2>3, <2>4 DEF TypeOK
  <2> QED BY <1>1, <2>1, <2>5 DEF Load, TypeOK, Kinds
<1>2. ASSUME NEW page \in {"login", "users", "other"}, Go(t, page) PROVE Kinds'
  <2>1. Mounted(tabs[t], page) \in TabState
    BY <1>0, MountedType
  <2>2. calls' \in [Slot -> Call \cup {None}] /\ sent' \in Nat
    <3>1. Ask(t, "list", cookie[t], page) \in Call
      BY <1>0, CallsType
    <3>2. CASE page = "users"
      BY <1>2, <3>1, <3>2, SendType DEF Go
    <3>3. CASE page # "users"
      BY <1>2, <3>3, UnheardType DEF Go, TypeOK
    <3> QED BY <3>2, <3>3
  <2> QED BY <1>2, <2>1, <2>2 DEF Go, TypeOK, Kinds
<1>3. CASE InitGoogle(t)
  <2>1. [tabs[t] EXCEPT !.gsi = TRUE,
                        !.callback = IF tabs[t].page = "login" THEN "login" ELSE "link"] \in TabState
    BY <1>0 DEF TabState
  <2> QED BY <1>3, <2>1 DEF InitGoogle, TypeOK, Kinds
<1>4. CASE Logout(t)
  BY <1>4, FromType, SendType DEF Logout, TypeOK, Kinds
<1>5. CASE Expire(t)
  BY <1>5 DEF Expire, TypeOK, Kinds
<1>6. ASSUME NEW n \in Name, HandleSubmit(t, n) PROVE Kinds'
  <2>1. [From(t, "login") EXCEPT !.name = n] \in Call
    BY FromType DEF Call
  <2> QED BY <1>6, <2>1, SendType DEF HandleSubmit, TypeOK, Kinds
<1>7. ASSUME NEW n \in Name, HandleAdd(t, n) PROVE Kinds'
  <2>1. [From(t, "add") EXCEPT !.name = n] \in Call
    BY FromType DEF Call
  <2> QED BY <1>7, <2>1, SendType DEF HandleAdd, TypeOK, Kinds
<1>8. ASSUME NEW g \in Sub, Credential(t, g) PROVE Kinds'
  <2>1. tabs' \in [Tab -> TabState]
    BY <1>0, <1>8 DEF Credential, TypeOK, TabState
  <2>2. [From(t, "google") EXCEPT !.sub = g] \in Call
    BY FromType DEF Call
  <2>3. ASSUME tabs[t].ref # 0 PROVE [From(t, "link") EXCEPT !.sub = g, !.id = tabs[t].ref] \in Call
    <3>1. tabs[t].ref \in Id \cup {0}
      BY <1>0 DEF TabState
    <3>2. From(t, "link") \in Call
      BY FromType
    <3> QED BY <3>1, <3>2, LinkType, Zenon
  <2>4. calls' \in [Slot -> Call \cup {None}] /\ sent' \in Nat
    <3>1. CASE tabs[t].callback = "login"
      BY <1>8, <2>2, <3>1, SendType DEF Credential
    <3>2. CASE tabs[t].callback # "login" /\ tabs[t].callback \in {"link", "old"} /\ tabs[t].ref # 0
      BY <1>8, <2>3, <3>2, SendType DEF Credential
    <3>3. CASE ~(tabs[t].callback = "login") /\ ~(tabs[t].callback \in {"link", "old"} /\ tabs[t].ref # 0)
      BY <1>8, <3>3 DEF Credential, TypeOK
    <3> QED BY <3>1, <3>2, <3>3
  <2> QED BY <1>8, <2>1, <2>4 DEF Credential, TypeOK, Kinds
<1>9. ASSUME NEW r \in tabs[t].list, HandleLinkGoogle(t, r) PROVE Kinds'
  <2>1. r.id \in Id
    BY <1>0 DEF TabState, UserListItem
  <2> QED BY <1>0, <1>9, <2>1 DEF HandleLinkGoogle, TypeOK, Kinds, TabState
<1>10. ASSUME NEW r \in tabs[t].list,
              HandleToggleRole(t, r) \/ HandleDelete(t, r) \/ HandleChangePassword(t, r)
       PROVE  Kinds'
  <2>1. r.id \in Id
    BY <1>0 DEF TabState, UserListItem
  <2>2. /\ \A role \in Role : [From(t, "role") EXCEPT !.id = r.id, !.role = role] \in Call
        /\ [From(t, "delete") EXCEPT !.id = r.id] \in Call
        /\ [From(t, "password") EXCEPT !.id = r.id] \in Call
    <3>1. From(t, "role") \in Call /\ From(t, "delete") \in Call /\ From(t, "password") \in Call
      BY FromType
    <3>2. r.id \in Id \cup {0}
      BY <2>1
    <3>3. \A role \in Role : [From(t, "role") EXCEPT !.id = r.id, !.role = role] \in Call
      BY <3>1, <3>2, RoleType, Zenon
    <3>4. [From(t, "delete") EXCEPT !.id = r.id] \in Call /\ [From(t, "password") EXCEPT !.id = r.id] \in Call
      BY <3>1, <3>2, NumberedType
    <3> QED BY <3>3, <3>4
  <2>3. CASE HandleToggleRole(t, r)
    BY <2>2, <2>3, SendType DEF HandleToggleRole, TypeOK, Kinds, Role
  <2>4. CASE HandleDelete(t, r)
    BY <2>2, <2>4, SendType DEF HandleDelete, TypeOK, Kinds
  <2>5. CASE HandleChangePassword(t, r)
    BY <2>2, <2>5, SendType DEF HandleChangePassword, TypeOK, Kinds
  <2> QED BY <1>10, <2>3, <2>4, <2>5
<1> QED BY <1>1, <1>2, <1>3, <1>4, <1>5, <1>6, <1>7, <1>8, <1>9, <1>10
LEMMA StageType ==
    ASSUME NEW call \in Call, NEW stage \in {"sent", "checked", "opening", "answered", "heard", "failed"}
    PROVE  [call EXCEPT !.stage = stage] \in Call
BY DEF Call

LEMMA ListedType ==
    ASSUME TypeOK
    PROVE  Listed \subseteq UserListItem
<1>1. \A n \in Account(users) : users[n] \in Row /\ n \in Name
  BY DEF TypeOK, Account
<1>2. \A n \in Account(users) : \A k \in BOOLEAN :
        [id |-> users[n].id, name |-> n, role |-> users[n].role, linked |-> k] \in UserListItem
  BY <1>1 DEF UserListItem, Row
<1>3. \A n \in Account(users) : (users[n].google # None) \in BOOLEAN
  OBVIOUS
<1>4. \A n \in Account(users) :
        [id |-> users[n].id, name |-> n, role |-> users[n].role,
         linked |-> users[n].google # None] \in UserListItem
  BY <1>2, <1>3, Zenon
<1> QED BY <1>4, Zenon DEF Listed

\* A request has the arguments its handler needs by the time it uses them.
FilledOK(c) ==
    /\ c.op = "add" => c.name \in Name
    /\ c.op = "google" /\ c.stage = "checked" => c.name \in Name
    /\ c.op = "role" => c.role \in Role

Filled == \A s \in Slot : calls[s] # None => FilledOK(calls[s])

\* The steps of the server that only read.
LEMMA ReadKinds ==
    ASSUME TypeOK, NEW s \in Slot, calls[s] # None, Check(s) \/ SignIn(s) \/ CreateSession(s)
    PROVE  Kinds'
<1> DEFINE c == calls[s]
<1>0. c \in Call
  BY DEF TypeOK
<1>a. \A n \in Account(users) : Earned(n) \in Token
  BY DEF TypeOK, Account, Earned, Token, Row
<1>b. \A stage \in {"sent", "checked", "opening", "answered", "failed"} :
        [c EXCEPT !.stage = stage] \in Call
  BY <1>0, StageType, Zenon
<1>1. CASE Check(s)
  <2>1. [c EXCEPT !.stage = "answered", !.rows = Listed] \in Call
    BY <1>0, ListedType DEF Call
  <2>2. [c EXCEPT !.stage = "answered", !.got = c.token, !.known = TRUE] \in Call
    BY <1>0 DEF Call
  <2>3. calls' \in [Slot -> Call \cup {None}]
    BY <1>1, <1>b, <2>1, <2>2 DEF Check, Stage, TypeOK
  <2> QED BY <1>1, <2>3 DEF Check, TypeOK, Kinds
<1>2. CASE SignIn(s)
  <2>1. \A n \in Account(users) : [c EXCEPT !.stage = "opening", !.got = Earned(n)] \in Call
    BY <1>0, <1>a DEF Call
  <2>2. \A n \in Name : [c EXCEPT !.stage = "checked", !.name = n] \in Call
    BY <1>0 DEF Call
  <2>3. calls' \in [Slot -> Call \cup {None}]
    BY <1>2, <1>b, <2>1, <2>2 DEF SignIn, Stage, TypeOK
  <2> QED BY <1>2, <2>3 DEF SignIn, TypeOK, Kinds
<1>3. CASE CreateSession(s)
  <2>1. \A k \in BOOLEAN : [c EXCEPT !.stage = "answered", !.known = k] \in Call
    BY <1>0 DEF Call
  <2>2. [c EXCEPT !.stage = "answered", !.known = c.got.name \in Account(users)] \in Call
    <3>1. CASE c.got.name \in Account(users)
      <4>1. (c.got.name \in Account(users)) = TRUE
        BY <3>1
      <4> QED BY <2>1, <4>1
    <3>2. CASE c.got.name \notin Account(users)
      <4>1. (c.got.name \in Account(users)) = FALSE
        BY <3>2
      <4> QED BY <2>1, <4>1
    <3> QED BY <3>1, <3>2
  <2> QED BY <1>3, <2>2 DEF CreateSession, TypeOK, Kinds
<1> QED BY <1>1, <1>2, <1>3

\* The steps that write the table.
LEMMA WriteKinds ==
    ASSUME TypeOK, Filled, NEW s \in Slot, calls[s] # None,
           \/ ChangePassword(s) \/ CreateUser(s) \/ ChangeRole(s) \/ DeleteUser(s) \/ LinkGoogle(s)
    PROVE  Kinds'
<1> DEFINE c == calls[s]
<1>0. c \in Call
  BY DEF TypeOK
<1>b. \A stage \in {"sent", "checked", "opening", "answered", "failed"} :
        [c EXCEPT !.stage = stage] \in Call
  BY <1>0, StageType, Zenon
<1>c. \A i : \A n \in OfId(i) : users[n] \in Row
  BY DEF OfId, TypeOK, Account
<1>1. CASE ChangePassword(s)
  <2>1. \A n \in OfId(c.id) : [users[n] EXCEPT !.password = TRUE] \in Row
    BY <1>c DEF Row
  <2> QED BY <1>1, <1>b, <2>1 DEF ChangePassword, Stage, TypeOK, Kinds
<1>2. CASE CreateUser(s)
  <2>1. CASE c.name \notin Account(users) /\ (c.op = "google" => ~Claimed(c.sub))
    <3>1. next \in Id
      BY <1>2, BoundAssumption DEF CreateUser, TypeOK, Id
    <3>2. [id |-> next, role |-> "user", google |-> c.sub, password |-> c.op = "add"] \in Row
      <4>1. c.sub \in Sub \cup {None}
        BY <1>0 DEF Call
      <4>2. \A k \in BOOLEAN : [id |-> next, role |-> "user", google |-> c.sub, password |-> k] \in Row
        BY <3>1, <4>1 DEF Row, Role
      <4> QED BY <4>2, Zenon
    <3>3. users' \in [Name -> Row \cup {None}]
      BY <1>2, <2>1, <3>2 DEF CreateUser, TypeOK
    <3>4. next' \in 1..(MaxId + 1)
      BY <1>2, <2>1, BoundAssumption DEF CreateUser, UserId, TypeOK
    <3>5. calls' \in [Slot -> Call \cup {None}]
      <4>1. CASE c.op = "add"
        BY <1>2, <1>b, <2>1, <4>1 DEF CreateUser, Stage, TypeOK
      <4>2. CASE c.op # "add"
        <5>1. c.name \in Name
          BY <1>2, <4>2 DEF CreateUser, Filled, FilledOK
        <5>2. [name |-> c.name, role |-> "user"] \in Token
          BY <5>1 DEF Token, Role
        <5>3. [c EXCEPT !.stage = "opening", !.got = [name |-> c.name, role |-> "user"]] \in Call
          BY <1>0, <5>2 DEF Call
        <5> QED BY <1>2, <2>1, <4>2, <5>3 DEF CreateUser, TypeOK
      <4> QED BY <4>1, <4>2
    <3> QED BY <1>2, <3>3, <3>4, <3>5 DEF CreateUser, TypeOK, Kinds
  <2>2. CASE ~(c.name \notin Account(users) /\ (c.op = "google" => ~Claimed(c.sub)))
    BY <1>2, <1>b, <2>2 DEF CreateUser, Stage, TypeOK, Kinds
  <2> QED BY <2>1, <2>2
<1>3. CASE ChangeRole(s)
  <2>0. c.role \in Role
    BY <1>3 DEF ChangeRole, Filled, FilledOK
  <2>1. \A n \in OfId(c.id) : [users[n] EXCEPT !.role = c.role] \in Row
    BY <1>c, <2>0 DEF Row
  <2> QED BY <1>3, <1>b, <2>1 DEF ChangeRole, Stage, TypeOK, Kinds
<1>4. CASE DeleteUser(s)
  BY <1>4, <1>b DEF DeleteUser, Stage, TypeOK, Kinds
<1>5. CASE LinkGoogle(s)
  <2>1. \A n \in OfId(c.id) : [users[n] EXCEPT !.google = c.sub] \in Row
    BY <1>0, <1>c DEF Row, Call
  <2> QED BY <1>5, <1>b, <2>1 DEF LinkGoogle, Stage, TypeOK, Kinds
<1> QED BY <1>1, <1>2, <1>3, <1>4, <1>5
LEMMA SetUserType ==
    ASSUME NEW tab \in TabState, NEW who \in Token \cup {None}
    PROVE  /\ SetUser(tab, who) \in TabState
           /\ SetUser(tab, who).checked
           /\ SetUser(tab, who).crossed = tab.crossed
           /\ SetUser(tab, who).shown = who
           /\ SetUser(tab, who).list = tab.list
BY DEF SetUser, TabState

\* What a turn of the session does to the tab it is for.
LEMMA TurnType ==
    ASSUME TypeOK, NEW s \in Slot, NEW t \in Tab, NEW who \in Token \cup {None}, Turn(s, t, who)
    PROVE  /\ tabs' \in [Tab -> TabState]
           /\ calls' \in [Slot -> Call \cup {None}]
           /\ tabs'[t].checked /\ tabs'[t].shown = who /\ tabs'[t].crossed = tabs[t].crossed
           /\ tabs'[t].list \subseteq tabs[t].list
           /\ \A u \in Tab : u # t => tabs'[u] = tabs[u]
<1> DEFINE tab == RedirectIfNeeded(SetUser(tabs[t], who))
           rest == Unheard([calls EXCEPT ![s] = None], t, tabs[t].page, tab.page)
<1>1. tabs[t] \in TabState /\ cookie[t] \in Token \cup {None}
  BY DEF TypeOK
<1>2. /\ tab \in TabState /\ tab.checked /\ tab.shown = who /\ tab.crossed = tabs[t].crossed
      /\ tab.list \subseteq tabs[t].list
  BY <1>1, SetUserType, RedirectType
<1>3. tabs' = [tabs EXCEPT ![t] = tab]
  BY DEF Turn
<1>4. rest \in [Slot -> Call \cup {None}]
  <2>1. [calls EXCEPT ![s] = None] \in [Slot -> Call \cup {None}]
    BY DEF TypeOK
  <2> QED BY <2>1, UnheardType
<1>5. Ask(t, "list", cookie[t], "users") \in Call
  BY <1>1, CallsType DEF Op
<1>6. calls' \in [Slot -> Call \cup {None}]
  <2>1. calls' = IF calls[s].op = "me" /\ tab.page = "users"
                 THEN [rest EXCEPT ![s] = Ask(t, "list", cookie[t], "users")] ELSE rest
    BY DEF Turn
  <2> QED BY <1>4, <1>5, <2>1
<1> QED BY <1>2, <1>3, <1>6 DEF TypeOK

LEMMA AnswerKinds ==
    ASSUME TypeOK, NEW s \in Slot, Answer(s)
    PROVE  Kinds'
<1> DEFINE c == calls[s]
           t == c.tab
           who == IF Good(c) /\ c.known THEN c.got ELSE None
<1>1. c # None /\ c \in Call /\ UNCHANGED <<users, next, cookie, lapse, sent, faults>>
  BY DEF Answer, TypeOK
<1>2. t \in Tab \cup {None} /\ c.got \in Token \cup {None} /\ c.op \in Op /\ c.rows \subseteq UserListItem
  BY <1>1 DEF Call
<1>3. who \in Token \cup {None}
  BY <1>2
<1> HIDE DEF who
<1>a. CASE t # None /\ c.op = "me"
  <2>1. Turn(s, t, who)
    BY <1>a DEF Answer, who
  <2> QED BY <1>1, <1>2, <1>3, <1>a, <2>1, TurnType DEF TypeOK, Kinds
<1>b. CASE t # None /\ c.op \in {"login", "google"} /\ Good(c)
  <2>1. Turn(s, t, who)
    BY <1>b DEF Answer, who
  <2> QED BY <1>1, <1>2, <1>3, <1>b, <2>1, TurnType DEF TypeOK, Kinds
<1>c. CASE t # None /\ c.op = "logout" /\ Good(c)
  <2>1. Turn(s, t, None)
    BY <1>c DEF Answer
  <2> QED BY <1>1, <1>2, <1>c, <2>1, TurnType DEF TypeOK, Kinds
<1>d. CASE t # None /\ c.op = "list" /\ Good(c)
  <2>1. /\ tabs' = [tabs EXCEPT ![t].list = c.rows]
        /\ calls' = [calls EXCEPT ![s] = None]
    BY <1>d DEF Answer, Free
  <2>2. [tabs[t] EXCEPT !.list = c.rows] \in TabState
    BY <1>2, <1>d DEF TypeOK, TabState
  <2> QED BY <1>1, <2>1, <2>2 DEF TypeOK, Kinds
<1>e. CASE t # None /\ c.op \in {"add", "role", "link", "delete"} /\ Good(c)
  <2>1. /\ calls' = [calls EXCEPT ![s] = [From(t, "list") EXCEPT !.after = c.op]]
        /\ tabs' = tabs
    BY <1>e DEF Answer
  <2>2. From(t, "list") \in Call
    BY <1>2, <1>e, FromType DEF Op
  <2>3. [From(t, "list") EXCEPT !.after = c.op] \in Call
    BY <1>2, <2>2 DEF Call
  <2> QED BY <1>1, <2>1, <2>3 DEF TypeOK, Kinds
<1>f. CASE ~(t # None /\ (c.op = "me" \/ (Good(c) /\
                 c.op \in {"login", "google", "logout", "list", "add", "role", "link", "delete"})))
  <2>1. calls' = [calls EXCEPT ![s] = None] /\ tabs' = tabs
    BY <1>f DEF Answer, Free
  <2> QED BY <1>1, <2>1 DEF TypeOK, Kinds
<1> QED BY <1>a, <1>b, <1>c, <1>d, <1>e, <1>f

LEMMA SetCookieKinds ==
    ASSUME TypeOK, NEW s \in Slot, SetCookie(s)
    PROVE  /\ Kinds'
           /\ calls[s].tab \in Tab
           /\ calls' = [calls EXCEPT ![s] = [calls[s] EXCEPT !.stage = "heard"]]
           /\ \A t \in Tab : /\ tabs'[t].checked = tabs[t].checked
                             /\ tabs'[t].shown = tabs[t].shown
                             /\ tabs'[t].list = tabs[t].list
                             /\ tabs'[t].crossed = (tabs[t].crossed \/ (t = calls[s].tab /\ Awaited(t)))
<1> DEFINE c == calls[s]
           t == c.tab
<1>1. c # None /\ c \in Call /\ t \in Tab /\ c.got \in Token \cup {None}
  BY DEF SetCookie, SetsCookie, TypeOK, Call
<1>2. cookie' \in [Tab -> Token \cup {None}]
  BY <1>1 DEF SetCookie, TypeOK
<1>3. calls' = [calls EXCEPT ![s] = [c EXCEPT !.stage = "heard"]]
  BY DEF SetCookie, Stage, TypeOK
<1>4. [c EXCEPT !.stage = "heard"] \in Call
  BY <1>1, StageType
<1>5. calls' \in [Slot -> Call \cup {None}]
  BY <1>3, <1>4 DEF TypeOK
<1> DEFINE crossed == tabs[t].crossed \/ Awaited(t)
<1>6. tabs' = [tabs EXCEPT ![t] = [tabs[t] EXCEPT !.crossed = crossed]]
  BY <1>1 DEF SetCookie, TypeOK
<1>7. crossed \in BOOLEAN /\ tabs[t] \in TabState
  BY <1>1 DEF TypeOK, TabState
<1>8. ASSUME NEW k \in BOOLEAN
      PROVE  /\ [tabs[t] EXCEPT !.crossed = k] \in TabState
             /\ [tabs[t] EXCEPT !.crossed = k].crossed = k
             /\ [tabs[t] EXCEPT !.crossed = k].checked = tabs[t].checked
             /\ [tabs[t] EXCEPT !.crossed = k].shown = tabs[t].shown
             /\ [tabs[t] EXCEPT !.crossed = k].list = tabs[t].list
  BY <1>7 DEF TabState
<1> HIDE DEF crossed, t
<1>9. tabs' \in [Tab -> TabState]
  BY <1>1, <1>6, <1>7, <1>8 DEF TypeOK
<1>10. ASSUME NEW u \in Tab
       PROVE  /\ tabs'[u].checked = tabs[u].checked
              /\ tabs'[u].shown = tabs[u].shown
              /\ tabs'[u].list = tabs[u].list
              /\ tabs'[u].crossed = (tabs[u].crossed \/ (u = t /\ Awaited(u)))
  <2>1. CASE u = t
    <3>1. tabs'[u] = [tabs[t] EXCEPT !.crossed = crossed]
      BY <1>6, <2>1 DEF TypeOK
    <3> QED BY <1>7, <1>8, <2>1, <3>1 DEF crossed
  <2>2. CASE u # t
    <3>1. tabs'[u] = tabs[u] /\ tabs[u].crossed \in BOOLEAN
      BY <1>6, <2>2 DEF TypeOK, TabState
    <3> QED BY <2>2, <3>1
  <2> QED BY <2>1, <2>2
<1>11. UNCHANGED <<users, next, lapse, sent, faults>>
  BY DEF SetCookie
<1> QED BY <1>1, <1>2, <1>3, <1>5, <1>9, <1>10, <1>11 DEF TypeOK, Kinds, t

LEMMA RestartKinds ==
    ASSUME TypeOK, Restart
    PROVE  Kinds'
<1>1. users' \in [Name -> Row \cup {None}] /\ next' \in 1..(MaxId + 1)
  <2>1. CASE Account(users) = {}
    <3>1. next \in Id /\ next' = next + 1
      BY <2>1, BoundAssumption DEF Restart, TypeOK, Id
    <3>2. [id |-> next, role |-> "admin", google |-> None, password |-> TRUE] \in Row
      BY <3>1 DEF Row, Role
    <3>3. users' = [users EXCEPT ![Admin] = [id |-> next, role |-> "admin", google |-> None,
                                             password |-> TRUE]]
      BY <2>1 DEF Restart, Seeded
    <3>4. users' \in [Name -> Row \cup {None}]
      BY <3>2, <3>3 DEF TypeOK
    <3>5. next' \in 1..(MaxId + 1)
      BY <3>1, BoundAssumption DEF Id
    <3> QED BY <3>4, <3>5
  <2>2. CASE Account(users) # {}
    <3>1. \A n \in Account(users) : [users[n] EXCEPT !.role = "admin"] \in Row
      BY DEF TypeOK, Account, Row, Role
    <3> QED BY <2>2, <3>1 DEF Restart, Seeded, TypeOK
  <2> QED BY <2>1, <2>2
<1>2. \A r \in Slot : calls[r] # None => [calls[r] EXCEPT !.stage = "failed"] \in Call
  <2>1. \A r \in Slot : calls[r] # None => calls[r] \in Call
    BY DEF TypeOK
  <2> QED BY <2>1, StageType, Zenon
<1>3. calls' \in [Slot -> Call \cup {None}]
  BY <1>2 DEF Restart, TypeOK
<1> QED BY <1>1, <1>3 DEF Restart, TypeOK, Kinds
-----------------------------------------------------------------------------
(***************************************************************************)
(* The inductive invariant.  A number names one account for good, so a row *)
(* a page lists still names the account it named when it was read; a       *)
(* request that changes a role or deletes was clicked on such a row, and   *)
(* not on the row of the account shown, which is the account acting.       *)
(***************************************************************************)

Distinct == \A m, n \in Account(users) : users[m].id = users[n].id => m = n

\* Number i belongs to name n, or to nobody any more.
Fits(i, n) == i < next /\ \A m \in Account(users) : users[m].id = i => m = n

RowsOK(c) == \A r \in c.rows : Fits(r.id, r.name)

SparedOK(c) == c.op \in {"role", "delete"} =>
    /\ c.id < next
    /\ c.token # None => c.astray \/ c.token.name \notin OfId(c.id)
    /\ c.stage = "checked" => c.token # None

\* The provider shows nothing while it asks who is signed in, and nothing else
\* of the session can be under way.
MeOK(c) == c.op = "me" /\ c.tab # None =>
    /\ ~tabs[c.tab].checked
    /\ cookie[c.tab] \in {None, c.token}
    /\ c.stage = "answered" => c.got = c.token

SignOK(c) == /\ c.op \in {"login", "google", "logout"} /\ c.tab # None => tabs[c.tab].checked
             /\ c.stage = "opening" => c.op \in {"login", "google"}

\* While the body of an answer is awaited its cookie is the tab's, or another
\* came since, or it ran out.
HeardOK(c) == c.stage = "heard" /\ c.tab # None =>
    /\ c.op \in {"login", "google", "logout"}
    /\ \/ tabs[c.tab].crossed
       \/ cookie[c.tab] = None
       \/ c.op # "logout" /\ cookie[c.tab] = c.got

CallOK(c) == FilledOK(c) /\ RowsOK(c) /\ SparedOK(c) /\ MeOK(c) /\ SignOK(c) /\ HeardOK(c)

Calls == \A s \in Slot : calls[s] # None => CallOK(calls[s])

MeOnce == \A r, s \in Slot : /\ calls[r] # None /\ calls[s] # None
                             /\ calls[r].op = "me" /\ calls[s].op = "me"
                             /\ calls[r].tab = calls[s].tab /\ calls[s].tab # None
                             => r = s

Lists == \A t \in Tab : \A r \in tabs[t].list : Fits(r.id, r.name)

IInv == TypeOK /\ Distinct /\ Lists /\ Calls /\ MeOnce /\ SessionShown /\ AdminKept

-----------------------------------------------------------------------------
(* Steps of the pages *)

\* A step that leaves the table, the cookies and what tabs show alone, and
\* changes requests only by sending one more or by leaving a page.
Quiet == /\ UNCHANGED <<users, next, cookie, lapse>>
         /\ \A t \in Tab : /\ tabs'[t].checked = tabs[t].checked
                           /\ tabs'[t].shown = tabs[t].shown
                           /\ tabs'[t].crossed = tabs[t].crossed
                           /\ tabs'[t].list \subseteq tabs[t].list

\* An answer whose body a page awaits is left alone.
Waits(s) == calls[s] # None /\ calls[s].stage = "heard" /\ calls[s].tab # None
                => calls'[s] = calls[s]

\* What a request is in a quiet step: itself, unheard, or new and no "me".
Sent(s) == /\ Waits(s)
           /\ \/ calls'[s] = None \/ calls'[s] = calls[s]
              \/ calls[s] # None /\ calls'[s] = [calls[s] EXCEPT !.tab = None]
              \/ /\ calls'[s] \in Call /\ calls'[s].op # "me"
                 /\ CallOK(calls[s])'

LEMMA QuietKeeps ==
    ASSUME NEW c \in Call, CallOK(c), Quiet, TypeOK
    PROVE  CallOK(c)'
<1>1. c.tab # None => c.tab \in Tab
  BY DEF Call
<1> QED BY <1>1 DEF CallOK, Quiet, FilledOK, RowsOK, SparedOK, MeOK, SignOK, HeardOK, Fits, OfId, Account

LEMMA UnheardKeeps ==
    ASSUME NEW c \in Call, CallOK(c)
    PROVE  CallOK([c EXCEPT !.tab = None])
BY DEF Call, CallOK, FilledOK, RowsOK, SparedOK, MeOK, SignOK, HeardOK

LEMMA QuietStep ==
    ASSUME IInv, Kinds', Quiet, \A s \in Slot : Sent(s)
    PROVE  IInv'
<1>1. TypeOK'
  BY DEF IInv, TypeOK, Kinds, Quiet, Account
<1>2. Distinct' /\ AdminKept'
  BY DEF IInv, Distinct, AdminKept, Admins, Account, Quiet
<1>3. Lists'
  BY DEF IInv, Lists, Fits, Account, Quiet
<1>4. Calls'
  <2> SUFFICES ASSUME NEW s \in Slot, calls'[s] # None PROVE CallOK(calls[s])'
    BY DEF Calls
  <2>1. calls[s] # None => calls[s] \in Call /\ CallOK(calls[s])
    BY DEF IInv, Calls, TypeOK
  <2>2. CASE calls'[s] = calls[s]
    BY <2>1, <2>2, QuietKeeps DEF IInv
  <2>3. CASE calls[s] # None /\ calls'[s] = [calls[s] EXCEPT !.tab = None]
    <3>1. [calls[s] EXCEPT !.tab = None] \in Call
      BY <2>1, <2>3 DEF Call
    <3> QED BY <2>1, <2>3, <3>1, UnheardKeeps, QuietKeeps DEF IInv
  <2> QED BY <2>2, <2>3 DEF Sent
<1>5. MeOnce'
  <2>1. ASSUME NEW r \in Slot, calls'[r] # None, calls'[r].op = "me", calls'[r].tab # None
        PROVE  calls[r] # None /\ calls[r].op = "me" /\ calls[r].tab = calls'[r].tab
    <3>1. calls[r] # None => calls[r] \in Call
      BY DEF IInv, TypeOK
    <3>2. Sent(r)
      OBVIOUS
    <3> QED BY <2>1, <3>1, <3>2 DEF Sent, Call
  <2> QED BY <2>1 DEF IInv, MeOnce
<1>6. SessionShown'
  <2>1. \A t \in Tab : Awaited(t) => Awaited(t)'
    <3> SUFFICES ASSUME NEW t \in Tab, Awaited(t) PROVE Awaited(t)'
      OBVIOUS
    <3>1. PICK s \in Slot : calls[s] # None /\ calls[s].tab = t /\ calls[s].stage = "heard"
      BY DEF Awaited
    <3>2. calls'[s] = calls[s]
      BY <3>1, NoneAssumption DEF Sent, Waits
    <3> QED BY <3>1, <3>2 DEF Awaited
  <2> QED BY <2>1 DEF IInv, SessionShown, Quiet
<1> QED BY <1>1, <1>2, <1>3, <1>4, <1>5, <1>6 DEF IInv
\* Sending a request that is no "me" and is harmless, with nothing else done to
\* the requests.
LEMMA SendStep ==
    ASSUME IInv, Kinds', Quiet, NEW call \in Call, Send(call), call.op # "me", CallOK(call)
    PROVE  IInv'
<1>1. CallOK(call)'
  BY QuietKeeps DEF IInv
<1>2. ASSUME NEW s \in Slot PROVE Sent(s)
  <2>1. PICK r \in Slot : calls[r] = None /\ calls' = [calls EXCEPT ![r] = call]
    BY DEF Send
  <2>2. CASE s = r
    <3>1. calls'[s] = call
      BY <2>1, <2>2 DEF IInv, TypeOK
    <3>2. CallOK(calls[s])'
      BY <1>1, <3>1
    <3> QED BY <2>1, <2>2, <3>1, <3>2 DEF Sent, Waits
  <2>3. CASE s # r
    BY <2>1, <2>3 DEF IInv, TypeOK, Sent, Waits
  <2> QED BY <2>2, <2>3
<1> QED BY <1>2, QuietStep

\* What makes a new request harmless.
LEMMA AskOK ==
    ASSUME IInv, NEW t \in Tab, NEW op \in Op \ {"me", "role", "delete"}, tabs[t].checked,
           NEW page
    PROVE  op # "add" => CallOK(Ask(t, op, cookie[t], page))
BY DEF Ask, CallOK, FilledOK, RowsOK, SparedOK, MeOK, SignOK, HeardOK

LEMMA GoStep ==
    ASSUME IInv, Kinds', NEW t \in Tab, NEW page \in {"login", "users", "other"}, Go(t, page)
    PROVE  IInv'
<1>1. tabs[t] \in TabState /\ cookie[t] \in Token \cup {None} /\ tabs[t].checked
  BY DEF IInv, TypeOK, Go
<1>2. Quiet
  <2>1. /\ Mounted(tabs[t], page).checked = tabs[t].checked
        /\ Mounted(tabs[t], page).shown = tabs[t].shown
        /\ Mounted(tabs[t], page).crossed = tabs[t].crossed
        /\ Mounted(tabs[t], page).list = {}
    BY <1>1, MountedType
  <2> QED BY <2>1 DEF Go, Quiet, IInv, TypeOK
<1>3. CASE page = "users"
  <2>1. Ask(t, "list", cookie[t], page) \in Call /\ Ask(t, "list", cookie[t], page).op = "list"
    <3>1. "list" \in Op
      BY DEF Op
    <3>2. Ask(t, "list", cookie[t], page) \in Call
      BY <1>1, <3>1, CallsType
    <3> QED BY <3>2 DEF Ask
  <2>2. CallOK(Ask(t, "list", cookie[t], page))
    BY <1>1, AskOK DEF Op
  <2> QED BY <1>2, <1>3, <2>1, <2>2, SendStep DEF Go
<1>4. CASE page # "users"
  <2>1. calls' = Unheard(calls, t, tabs[t].page, page)
    BY <1>4 DEF Go
  <2>2. ASSUME NEW s \in Slot PROVE Sent(s)
    <3>1. calls[s] # None => CallOK(calls[s])
      BY DEF IInv, Calls
    <3> QED BY <2>1, <3>1 DEF Unheard, Sent, Waits, CallOK, HeardOK, Session
  <2> QED BY <1>2, <2>2, QuietStep
<1> QED BY <1>3, <1>4

\* Sending from a page that changes nothing else, or only its prompt.
LEMMA FromStep ==
    ASSUME IInv, Kinds', NEW t \in Tab, Quiet,
           NEW op \in {"login", "logout", "google", "link", "add", "password"},
           op \in {"login", "logout", "google"} => tabs[t].checked,
           NEW call \in Call, call.op = op, call.tab = t, call.token = cookie[t],
           call.rows = {}, call.stage = "sent", op = "add" => call.name \in Name, Send(call)
    PROVE  IInv'
<1>1. CallOK(call)
  BY DEF CallOK, FilledOK, RowsOK, SparedOK, MeOK, SignOK, HeardOK
<1> QED BY <1>1, SendStep

LEMMA RowStep ==
    ASSUME IInv, Kinds', NEW t \in Tab, NEW r \in tabs[t].list,
           HandleToggleRole(t, r) \/ HandleDelete(t, r)
    PROVE  IInv'
<1>1. Quiet
  BY DEF HandleToggleRole, HandleDelete, Quiet
<1>2. /\ tabs[t].shown # None /\ r.name # tabs[t].shown.name
      /\ tabs[t] \in TabState /\ cookie[t] \in Token \cup {None}
      /\ r.id \in Id
  BY DEF HandleToggleRole, HandleDelete, Enabled, IInv, TypeOK, TabState, UserListItem
<1>3. r.id < next /\ (cookie[t] # None => Astray(t) \/ cookie[t].name \notin OfId(r.id))
  <2>1. Fits(r.id, r.name)
    BY DEF IInv, Lists
  <2> QED BY <1>2, <2>1 DEF Fits, OfId, Astray
<1>4. From(t, "role") \in Call /\ From(t, "delete") \in Call
  BY FromType DEF IInv, Op
<1>5. ASSUME NEW call \in Call, call.op \in {"role", "delete"}, call.tab = t,
             call.token = cookie[t], call.rows = {}, call.stage = "sent", call.id = r.id,
             call.astray = Astray(t), call.op = "role" => call.role \in Role, Send(call)
      PROVE  IInv'
  <2>1. CallOK(call)
    BY <1>3, <1>5 DEF CallOK, FilledOK, RowsOK, SparedOK, MeOK, SignOK, HeardOK
  <2> QED BY <1>1, <1>5, <2>1, SendStep
<1>6. CASE HandleToggleRole(t, r)
  <2> DEFINE role == IF r.role = "admin" THEN "user" ELSE "admin"
             call == [From(t, "role") EXCEPT !.id = r.id, !.role = role]
  <2>1. role \in Role
    BY DEF Role
  <2>2. call \in Call
    BY <1>2, <1>4, <2>1, RoleType
  <2>3. /\ call.op = "role" /\ call.tab = t /\ call.token = cookie[t] /\ call.rows = {}
        /\ call.stage = "sent" /\ call.id = r.id /\ call.role = role /\ call.astray = Astray(t)
    BY DEF From, Ask
  <2>4. Send(call)
    BY <1>6 DEF HandleToggleRole
  <2> QED BY <1>5, <2>1, <2>2, <2>3, <2>4
<1>7. CASE HandleDelete(t, r)
  <2> DEFINE call == [From(t, "delete") EXCEPT !.id = r.id]
  <2>2. call \in Call
    BY <1>2, <1>4, NumberedType
  <2>3. /\ call.op = "delete" /\ call.tab = t /\ call.token = cookie[t] /\ call.rows = {}
        /\ call.stage = "sent" /\ call.id = r.id /\ call.astray = Astray(t)
    BY DEF From, Ask
  <2>4. Send(call)
    BY <1>7 DEF HandleDelete
  <2> QED BY <1>5, <2>2, <2>3, <2>4
<1> QED BY <1>6, <1>7
LEMMA FormStep ==
    ASSUME IInv, Kinds', NEW t \in Tab,
           \/ Logout(t) \/ \E n \in Name : HandleSubmit(t, n) \/ HandleAdd(t, n)
           \/ \E r \in tabs[t].list : HandleChangePassword(t, r)
    PROVE  IInv'
<1> USE DEF Op
<1>0. TypeOK
  BY DEF IInv
<1>1. CASE Logout(t)
  <2>1. From(t, "logout") \in Call
    BY <1>0, FromType
  <2> QED BY <1>1, <2>1, FromStep DEF Logout, Quiet, From, Ask
<1>2. ASSUME NEW n \in Name, HandleSubmit(t, n) PROVE IInv'
  <2>1. [From(t, "login") EXCEPT !.name = n] \in Call
    BY <1>0, FromType DEF Call
  <2> QED BY <1>2, <2>1, FromStep DEF HandleSubmit, Quiet, From, Ask
<1>3. ASSUME NEW n \in Name, HandleAdd(t, n) PROVE IInv'
  <2>1. [From(t, "add") EXCEPT !.name = n] \in Call
    BY <1>0, FromType DEF Call
  <2> DEFINE call == [From(t, "add") EXCEPT !.name = n]
  <2>2. /\ call.op = "add" /\ call.tab = t /\ call.token = cookie[t] /\ call.rows = {}
        /\ call.stage = "sent" /\ call.name = n
    BY DEF From, Ask
  <2>3. Quiet /\ Send(call)
    BY <1>3 DEF HandleAdd, Quiet
  <2> HIDE DEF call
  <2> QED BY <2>1, <2>2, <2>3, FromStep DEF call
<1>4. ASSUME NEW r \in tabs[t].list, HandleChangePassword(t, r) PROVE IInv'
  <2>1. r.id \in Id
    BY <1>0 DEF TypeOK, TabState, UserListItem
  <2>2. [From(t, "password") EXCEPT !.id = r.id] \in Call
    BY <1>0, <2>1, FromType, NumberedType
  <2> QED BY <1>4, <2>2, FromStep DEF HandleChangePassword, Quiet, From, Ask
<1> QED BY <1>1, <1>2, <1>3, <1>4

LEMMA GoogleStep ==
    ASSUME IInv, Kinds', NEW t \in Tab,
           \/ InitGoogle(t) \/ \E g \in Sub : Credential(t, g)
           \/ \E r \in tabs[t].list : HandleLinkGoogle(t, r)
    PROVE  IInv'
<1> USE DEF Op
<1>0. TypeOK /\ tabs[t] \in TabState
  BY DEF IInv, TypeOK
<1>1. CASE InitGoogle(t)
  <2>1. Quiet
    BY <1>0, <1>1 DEF InitGoogle, Quiet, TypeOK, TabState
  <2>2. \A s \in Slot : Sent(s)
    BY <1>1 DEF InitGoogle, Sent, Waits
  <2> QED BY <2>1, <2>2, QuietStep
<1>2. ASSUME NEW r \in tabs[t].list, HandleLinkGoogle(t, r) PROVE IInv'
  <2>1. Quiet
    BY <1>0, <1>2 DEF HandleLinkGoogle, Quiet, TypeOK, TabState
  <2>2. \A s \in Slot : Sent(s)
    BY <1>2 DEF HandleLinkGoogle, Sent, Waits
  <2> QED BY <2>1, <2>2, QuietStep
<1>3. ASSUME NEW g \in Sub, Credential(t, g) PROVE IInv'
  <2>1. Quiet /\ tabs[t].checked
    BY <1>0, <1>3 DEF Credential, Quiet, TypeOK, TabState
  <2>2. CASE tabs[t].callback = "login"
    <3>1. [From(t, "google") EXCEPT !.sub = g] \in Call
      BY <1>0, FromType DEF Call
    <3>2. Send([From(t, "google") EXCEPT !.sub = g])
      BY <1>3, <2>2 DEF Credential
    <3> QED BY <2>1, <3>1, <3>2, FromStep DEF From, Ask
  <2>3. CASE tabs[t].callback \in {"link", "old"} /\ tabs[t].ref # 0
    <3>1. tabs[t].ref \in Id \cup {0}
      BY <1>0 DEF TabState
    <3>2. [From(t, "link") EXCEPT !.sub = g, !.id = tabs[t].ref] \in Call
      BY <1>0, <3>1, FromType, LinkType
    <3>3. Send([From(t, "link") EXCEPT !.sub = g, !.id = tabs[t].ref])
      BY <1>3, <2>3 DEF Credential
    <3> QED BY <2>1, <3>2, <3>3, FromStep DEF From, Ask
  <2>4. CASE ~(tabs[t].callback = "login") /\ ~(tabs[t].callback \in {"link", "old"} /\ tabs[t].ref # 0)
    <3>1. \A s \in Slot : Sent(s)
      BY <1>3, <2>4 DEF Credential, Sent, Waits
    <3> QED BY <2>1, <3>1, QuietStep
  <2> QED BY <2>2, <2>3, <2>4
<1> QED BY <1>1, <1>2, <1>3

LEMMA ExpireStep ==
    ASSUME IInv, Kinds', NEW t \in Tab, Expire(t)
    PROVE  IInv'
<1>1. UNCHANGED <<users, next, tabs, calls, lapse>> /\ cookie' = [cookie EXCEPT ![t] = None]
  BY DEF Expire
<1>2. TypeOK' /\ Distinct' /\ AdminKept' /\ Lists' /\ MeOnce'
  BY <1>1 DEF IInv, TypeOK, Kinds, Distinct, AdminKept, Admins, Account, Lists, Fits, MeOnce
<1>3. SessionShown'
  BY <1>1 DEF IInv, SessionShown, TypeOK, Awaited
<1>4. Calls'
  <2> SUFFICES ASSUME NEW s \in Slot, calls[s] # None PROVE CallOK(calls[s])'
    BY <1>1 DEF Calls
  <2>1. calls[s] \in Call /\ CallOK(calls[s])
    BY DEF IInv, TypeOK, Calls
  <2>2. MeOK(calls[s])' /\ HeardOK(calls[s])'
    BY <1>1, <2>1 DEF CallOK, MeOK, HeardOK, Call, IInv, TypeOK
  <2> QED BY <1>1, <2>1, <2>2 DEF CallOK, FilledOK, RowsOK, SparedOK, SignOK, Fits, OfId, Account
<1> QED BY <1>2, <1>3, <1>4 DEF IInv

LEMMA LoadStep ==
    ASSUME IInv, Kinds', NEW t \in Tab, NEW page, Load(t, page)
    PROVE  IInv'
<1>1. PICK s \in Slot :
         /\ calls[s] = None
         /\ calls' = [r \in Slot |->
                     IF r = s THEN Ask(t, "me", cookie[t], page)
                     ELSE IF calls[r] # None /\ calls[r].tab = t
                          THEN [calls[r] EXCEPT !.tab = None] ELSE calls[r]]
  BY DEF Load
<1>2. UNCHANGED <<users, next, cookie, lapse>> /\ tabs' = [tabs EXCEPT ![t] = Fresh(page)]
  BY DEF Load
<1>3. /\ tabs'[t].checked = FALSE /\ tabs'[t].shown = None /\ tabs'[t].list = {}
      /\ \A u \in Tab : u # t => tabs'[u] = tabs[u]
  BY <1>2 DEF Fresh, IInv, TypeOK
<1>4. TypeOK' /\ Distinct' /\ AdminKept'
  BY <1>2 DEF IInv, TypeOK, Kinds, Distinct, AdminKept, Admins, Account
<1>5. Lists' /\ SessionShown'
  <2>1. ASSUME NEW u \in Tab, u # t, Awaited(u) PROVE Awaited(u)'
    BY <1>1, <2>1 DEF Awaited
  <2> QED BY <1>2, <1>3, <2>1 DEF IInv, Lists, Fits, Account, SessionShown
<1>6. /\ calls'[s].op = "me" /\ calls'[s].tab = t /\ calls'[s].token = cookie[t]
      /\ calls'[s].stage = "sent" /\ calls'[s].rows = {}
  BY <1>1 DEF Ask
<1>7. ASSUME NEW r \in Slot, r # s, calls'[r] # None
      PROVE  /\ calls[r] # None /\ calls[r] \in Call /\ CallOK(calls[r])
             /\ \/ calls'[r] = calls[r] /\ calls[r].tab # t
                \/ calls'[r] = [calls[r] EXCEPT !.tab = None]
  BY <1>1, <1>7 DEF IInv, TypeOK, Calls
<1>8. Calls'
  <2> SUFFICES ASSUME NEW r \in Slot, calls'[r] # None PROVE CallOK(calls[r])'
    BY DEF Calls
  <2>1. CASE r = s
    BY <1>2, <1>3, <1>6, <2>1 DEF CallOK, FilledOK, RowsOK, SparedOK, MeOK, SignOK, HeardOK
  <2>2. CASE r # s /\ calls'[r] = calls[r] /\ calls[r].tab # t
    <3>1. calls[r] \in Call /\ CallOK(calls[r])
      BY <1>7, <2>2
    <3>2. calls[r].tab # None => tabs'[calls[r].tab] = tabs[calls[r].tab]
      BY <1>3, <2>2, <3>1 DEF Call
    <3> QED BY <1>2, <2>2, <3>1, <3>2
            DEF CallOK, FilledOK, RowsOK, SparedOK, MeOK, SignOK, HeardOK, Fits, OfId, Account
  <2>3. CASE r # s /\ calls'[r] = [calls[r] EXCEPT !.tab = None]
    <3>1. calls[r] \in Call /\ CallOK(calls[r])
      BY <1>7, <2>3
    <3> QED BY <1>2, <2>3, <3>1
            DEF Call, CallOK, FilledOK, RowsOK, SparedOK, MeOK, SignOK, HeardOK, Fits, OfId, Account
  <2> QED BY <1>7, <2>1, <2>2, <2>3
<1>9. MeOnce'
  <2>1. ASSUME NEW r \in Slot, r # s, calls'[r] # None, calls'[r].tab # None
        PROVE  calls'[r] = calls[r] /\ calls[r].tab # t
    <3>1. calls[r] \in Call
      BY <1>7, <2>1
    <3>2. [calls[r] EXCEPT !.tab = None].tab = None
      BY <3>1 DEF Call
    <3> QED BY <1>7, <2>1, <3>2
  <2> QED BY <1>6, <2>1 DEF IInv, MeOnce
<1> QED BY <1>4, <1>5, <1>8, <1>9 DEF IInv
-----------------------------------------------------------------------------
(* Steps of the server *)

\* The table keeps the numbers it has; at most one account is new, with the next.
Keeps == /\ UNCHANGED <<tabs, cookie>>
         /\ next' = next \/ next' = next + 1
         /\ \E new \in Name :
               \A n \in Account(users') :
                  \/ n \in Account(users) /\ users'[n].id = users[n].id
                  \/ n = new /\ users'[n].id = next /\ next' = next + 1

LEMMA NumbersKept ==
    ASSUME IInv, Kinds', Keeps
    PROVE  /\ TypeOK' /\ Distinct' /\ Lists'
           /\ \A c \in Call : CallOK(c) => CallOK(c)'
<1>1. PICK new \in Name : \A n \in Account(users') :
                  \/ n \in Account(users) /\ users'[n].id = users[n].id
                  \/ n = new /\ users'[n].id = next /\ next' = next + 1
  BY DEF Keeps
<1>2. /\ next \in Nat /\ next' \in Nat /\ next <= next'
      /\ \A n \in Account(users) : users[n].id \in Nat /\ users[n].id < next
  BY DEF Keeps, IInv, TypeOK, Row, Id, Account
<1>3. TypeOK'
  BY <1>1, <1>2 DEF TypeOK, Kinds
<1>4. Distinct'
  BY <1>1, <1>2 DEF IInv, Distinct
<1>5. \A n : \A i \in Nat : Fits(i, n) => Fits(i, n)'
  BY <1>1, <1>2 DEF Fits
<1>7. Lists'
  <2>1. \A t \in Tab : \A r \in tabs[t].list : r.id \in Nat
    BY DEF IInv, TypeOK, TabState, UserListItem, Id
  <2> QED BY <1>5, <2>1 DEF Keeps, IInv, Lists
<1>9. ASSUME NEW c \in Call, CallOK(c) PROVE CallOK(c)'
  <2>1. c.id \in Nat /\ \A r \in c.rows : r.id \in Nat
    <3>1. c.id \in Id \cup {0} /\ c.rows \subseteq UserListItem
      BY DEF Call
    <3> QED BY <3>1 DEF UserListItem, Id
  <2>2. RowsOK(c)'
    BY <1>5, <1>9, <2>1 DEF CallOK, RowsOK
  <2>3. SparedOK(c)'
    BY <1>1, <1>2, <1>9, <2>1 DEF CallOK, SparedOK, OfId, Account
  <2> QED BY <1>9, <2>2, <2>3 DEF CallOK, FilledOK, MeOK, SignOK, HeardOK, Keeps
<1> QED BY <1>3, <1>4, <1>7, <1>9

\* A request moves on: what it is for stays.
Moves(s, call) == /\ calls' = [calls EXCEPT ![s] = call] /\ calls[s].stage # "heard"
                  /\ call \in Call /\ call.op = calls[s].op /\ call.tab = calls[s].tab

LEMMA ServerStep ==
    ASSUME IInv, Kinds', Keeps, AdminKept', NEW s \in Slot, calls[s] # None,
           NEW call, Moves(s, call), CallOK(call)
    PROVE  IInv'
<1>1. \A c \in Call : CallOK(c) => CallOK(c)'
  BY NumbersKept
<1>2. CallOK(call)'
  BY <1>1 DEF Moves
<1>3. Calls'
  <2> SUFFICES ASSUME NEW r \in Slot, calls'[r] # None PROVE CallOK(calls[r])'
    BY DEF Calls
  <2>1. CASE r = s
    <3>1. calls'[r] = call
      BY <2>1 DEF Moves, IInv, TypeOK
    <3> QED BY <1>2, <3>1
  <2>2. CASE r # s
    <3>1. calls'[r] = calls[r] /\ calls[r] \in Call /\ CallOK(calls[r])
      BY <2>2 DEF Moves, IInv, TypeOK, Calls
    <3> QED BY <1>1, <3>1
  <2> QED BY <2>1, <2>2
<1>4. MeOnce'
  <2>1. \A r \in Slot : calls'[r] # None =>
           calls[r] # None /\ calls'[r].op = calls[r].op /\ calls'[r].tab = calls[r].tab
    BY DEF Moves, IInv, TypeOK
  <2> QED BY <2>1 DEF IInv, MeOnce
<1>5. SessionShown'
  <2>1. \A t \in Tab : Awaited(t) => Awaited(t)'
    BY DEF Awaited, Moves, IInv, TypeOK
  <2> QED BY <2>1 DEF IInv, SessionShown, Keeps
<1> QED BY <1>3, <1>4, <1>5, NumbersKept DEF IInv

LEMMA SameTable ==
    ASSUME IInv, UNCHANGED <<users, next, tabs, cookie, lapse>>
    PROVE  Keeps /\ AdminKept'
<1>1. Name # {}
  BY NoneAssumption
<1> QED BY <1>1 DEF IInv, Keeps, AdminKept, Admins, Account
\* A request that fails, or is answered, or goes on as it is: harmless as before.
LEMMA StagedOK ==
    ASSUME NEW c \in Call, CallOK(c),
           NEW stage \in {"answered", "failed"}, c.op = "me" => stage # "answered"
    PROVE  [c EXCEPT !.stage = stage] \in Call /\ CallOK([c EXCEPT !.stage = stage])
<1>1. [c EXCEPT !.stage = stage] \in Call
  BY StageType
<1>2. CallOK([c EXCEPT !.stage = stage])
  BY DEF Call, CallOK, FilledOK, RowsOK, SparedOK, MeOK, SignOK, HeardOK
<1> QED BY <1>1, <1>2

LEMMA ReadStep ==
    ASSUME IInv, Kinds', NEW s \in Slot, calls[s] # None,
           Check(s) \/ SignIn(s) \/ CreateSession(s)
    PROVE  IInv'
<1> DEFINE c == calls[s]
<1>0. c \in Call /\ CallOK(c) /\ TypeOK /\ c.stage # "heard"
  BY DEF IInv, TypeOK, Calls, Check, SignIn, CreateSession
<1>1. Keeps /\ AdminKept'
  <2>1. UNCHANGED <<users, next, tabs, cookie, lapse>>
    BY DEF Check, SignIn, CreateSession
  <2> QED BY <2>1, SameTable
<1>2. ASSUME NEW stage \in {"answered", "failed"}, Stage(s, stage), c.op = "me" => stage = "failed"
      PROVE  IInv'
  <2>1. [c EXCEPT !.stage = stage] \in Call /\ CallOK([c EXCEPT !.stage = stage])
    BY <1>0, <1>2, StagedOK
  <2>2. calls' = [calls EXCEPT ![s] = [c EXCEPT !.stage = stage]]
    BY <1>2 DEF Stage, IInv, TypeOK
  <2>3. Moves(s, [c EXCEPT !.stage = stage])
    BY <1>0, <2>1, <2>2 DEF Moves, Call
  <2> QED BY <1>1, <2>1, <2>3, ServerStep
<1>3. CASE Check(s)
  <2>0. c.stage = "sent" /\ c.op \in {"me", "list", "add", "role", "link", "delete"}
    BY <1>3 DEF Check
  <2>1. CASE ~Accepts(c)
    BY <1>2, <1>3, <2>1 DEF Check
  <2>2. CASE Accepts(c) /\ c.op = "list"
    <3> DEFINE call == [c EXCEPT !.stage = "answered", !.rows = Listed]
    <3>1. call \in Call
      BY <1>0, ListedType DEF Call
    <3>2. calls' = [calls EXCEPT ![s] = call]
      BY <1>3, <2>2 DEF Check, IInv, TypeOK
    <3>3. \A r \in Listed : Fits(r.id, r.name)
      <4>1. ASSUME NEW n \in Account(users) PROVE Fits(users[n].id, n)
        BY <1>0 DEF Fits, TypeOK, IInv, Distinct
      <4>2. \A r \in Listed : \E n \in Account(users) : r.id = users[n].id /\ r.name = n
        BY DEF Listed
      <4> QED BY <4>1, <4>2
    <3>4. CallOK(call)
      <4>1. call.rows = Listed /\ call.op = "list" /\ call.stage = "answered"
        BY <1>0, <2>2 DEF Call
      <4> HIDE DEF call
      <4> QED BY <3>3, <4>1 DEF CallOK, FilledOK, RowsOK, SparedOK, MeOK, SignOK, HeardOK
    <3>5. Moves(s, call)
      BY <1>0, <3>1, <3>2 DEF Moves, Call
    <3> QED BY <1>1, <3>4, <3>5, ServerStep
  <2>3. CASE Accepts(c) /\ c.op = "me"
    <3> DEFINE call == [c EXCEPT !.stage = "answered", !.got = c.token, !.known = TRUE]
    <3>1. call \in Call
      BY <1>0 DEF Call
    <3>2. calls' = [calls EXCEPT ![s] = call]
      BY <1>3, <2>3 DEF Check, IInv, TypeOK
    <3>3. CallOK(call)
      BY <1>0, <2>3 DEF Call, CallOK, FilledOK, RowsOK, SparedOK, MeOK, SignOK, HeardOK
    <3>4. Moves(s, call)
      BY <1>0, <3>1, <3>2 DEF Moves, Call
    <3> QED BY <1>1, <3>3, <3>4, ServerStep
  <2>4. CASE Accepts(c) /\ c.op \in {"add", "role", "link", "delete"}
    <3> DEFINE call == [c EXCEPT !.stage = "checked"]
    <3>1. call \in Call
      BY <1>0, StageType
    <3>2. calls' = [calls EXCEPT ![s] = call]
      BY <1>3, <2>4 DEF Check, Stage, IInv, TypeOK
    <3>3. CallOK(call)
      <4>1. c.op \in {"role", "delete"} => c.token # None
        BY <2>4 DEF Accepts, RequireAdmin, Current
      <4> QED BY <1>0, <2>4, <4>1 DEF Call, CallOK, FilledOK, RowsOK, SparedOK, MeOK, SignOK, HeardOK
    <3>4. Moves(s, call)
      BY <1>0, <3>1, <3>2 DEF Moves, Call
    <3> QED BY <1>1, <3>3, <3>4, ServerStep
  <2> QED BY <2>0, <2>1, <2>2, <2>3, <2>4
<1>4. CASE SignIn(s)
  <2>1. ASSUME NEW n \in Account(users), c.op \in {"login", "google"},
               calls' = [calls EXCEPT ![s].stage = "opening", ![s].got = Earned(n)]
        PROVE  IInv'
    <3> DEFINE call == [c EXCEPT !.stage = "opening", !.got = Earned(n)]
    <3>1. Earned(n) \in Token
      BY <1>0 DEF TypeOK, Account, Earned, Token, Row
    <3>2. call \in Call
      BY <1>0, <3>1 DEF Call
    <3>3. calls' = [calls EXCEPT ![s] = call]
      BY <2>1 DEF IInv, TypeOK
    <3>4. CallOK(call)
      BY <1>0, <2>1 DEF Call, CallOK, FilledOK, RowsOK, SparedOK, MeOK, SignOK, HeardOK
    <3>5. Moves(s, call)
      BY <1>0, <3>2, <3>3 DEF Moves, Call
    <3> QED BY <1>1, <3>4, <3>5, ServerStep
  <2>2. ASSUME NEW n \in Name, c.op = "google",
               calls' = [calls EXCEPT ![s].stage = "checked", ![s].name = n]
        PROVE  IInv'
    <3> DEFINE call == [c EXCEPT !.stage = "checked", !.name = n]
    <3>1. call \in Call
      BY <1>0 DEF Call
    <3>2. calls' = [calls EXCEPT ![s] = call]
      BY <2>2 DEF IInv, TypeOK
    <3>3. CallOK(call)
      BY <1>0, <2>2 DEF Call, CallOK, FilledOK, RowsOK, SparedOK, MeOK, SignOK, HeardOK
    <3>4. Moves(s, call)
      BY <1>0, <3>1, <3>2 DEF Moves, Call
    <3> QED BY <1>1, <3>3, <3>4, ServerStep
  <2>3. \/ c.op = "login" /\ \E n \in Account(users) :
              calls' = [calls EXCEPT ![s].stage = "opening", ![s].got = Earned(n)]
        \/ c.op = "login" /\ Stage(s, "failed")
        \/ c.op = "google" /\ \E n \in Account(users) :
              calls' = [calls EXCEPT ![s].stage = "opening", ![s].got = Earned(n)]
        \/ c.op = "google" /\ \E n \in Name :
              calls' = [calls EXCEPT ![s].stage = "checked", ![s].name = n]
        \/ c.op = "logout" /\ Stage(s, "answered")
    BY <1>4 DEF SignIn
  <2> QED BY <1>2, <2>1, <2>2, <2>3
<1>5. CASE CreateSession(s)
  <2> DEFINE call == [c EXCEPT !.stage = "answered", !.known = c.got.name \in Account(users)]
  <2>1. calls' = [calls EXCEPT ![s] = call] /\ c.stage = "opening"
    BY <1>5 DEF CreateSession, IInv, TypeOK
  <2>2. c.op \in {"login", "google"}
    BY <1>0, <2>1 DEF CallOK, SignOK
  <2>3. call \in Call
    <3>1. \A k \in BOOLEAN : [c EXCEPT !.stage = "answered", !.known = k] \in Call
      BY <1>0 DEF Call
    <3>2. CASE c.got.name \in Account(users)
      <4>1. (c.got.name \in Account(users)) = TRUE
        BY <3>2
      <4> QED BY <3>1, <4>1
    <3>3. CASE c.got.name \notin Account(users)
      <4>1. (c.got.name \in Account(users)) = FALSE
        BY <3>3
      <4> QED BY <3>1, <4>1
    <3> QED BY <3>2, <3>3
  <2>4. /\ call.op = c.op /\ call.tab = c.tab /\ call.stage = "answered" /\ call.rows = c.rows
        /\ call.name = c.name
    BY <1>0 DEF Call
  <2> HIDE DEF call
  <2>5. CallOK(call)
    BY <1>0, <2>2, <2>4 DEF CallOK, FilledOK, RowsOK, SparedOK, MeOK, SignOK, HeardOK
  <2>6. Moves(s, call)
    BY <2>1, <2>3, <2>4 DEF Moves
  <2> QED BY <1>1, <2>5, <2>6, ServerStep
<1> QED BY <1>3, <1>4, <1>5


LEMMA WriteStep ==
    ASSUME IInv, Kinds', NEW s \in Slot, calls[s] # None,
           \/ ChangePassword(s) \/ CreateUser(s) \/ ChangeRole(s) \/ DeleteUser(s) \/ LinkGoogle(s)
    PROVE  IInv'
<1> DEFINE c == calls[s]
<1>0. c \in Call /\ CallOK(c) /\ TypeOK /\ c.op # "me" /\ c.stage # "heard"
  BY DEF IInv, TypeOK, Calls, ChangePassword, CreateUser, ChangeRole, DeleteUser, LinkGoogle
<1>1. UNCHANGED <<tabs, cookie>> /\ Name # {}
  BY NoneAssumption DEF ChangePassword, CreateUser, ChangeRole, DeleteUser, LinkGoogle
<1>2. \A i : \A n \in OfId(i) : users[n] \in Row /\ users[n] # None
  BY <1>0 DEF OfId, TypeOK, Account
<1>3. ASSUME NEW stage \in {"answered", "failed"}, Stage(s, stage), Keeps, AdminKept'
      PROVE  IInv'
  <2>1. [c EXCEPT !.stage = stage] \in Call /\ CallOK([c EXCEPT !.stage = stage])
    BY <1>0, <1>3, StagedOK
  <2>2. calls' = [calls EXCEPT ![s] = [c EXCEPT !.stage = stage]]
    BY <1>0, <1>3 DEF Stage, TypeOK
  <2>3. Moves(s, [c EXCEPT !.stage = stage])
    BY <1>0, <2>1, <2>2 DEF Moves, Call
  <2> QED BY <1>3, <2>1, <2>3, ServerStep
<1>4. ASSUME Stage(s, "failed"), UNCHANGED <<users, next, lapse>> PROVE IInv'
  BY <1>1, <1>3, <1>4, SameTable
<1>5. CASE ChangePassword(s)
  <2>1. CASE UNCHANGED users
    BY <1>1, <1>3, <1>5, <2>1, SameTable DEF ChangePassword
  <2>2. CASE /\ Stage(s, "answered")
             /\ users' = [n \in Name |-> IF n \in OfId(c.id) THEN [users[n] EXCEPT !.password = TRUE]
                                         ELSE users[n]]
    <3>1. \A n \in OfId(c.id) : /\ [users[n] EXCEPT !.password = TRUE].id = users[n].id
                                /\ [users[n] EXCEPT !.password = TRUE].role = users[n].role
                                /\ [users[n] EXCEPT !.password = TRUE] # None
      <4>1. \A n \in OfId(c.id) : [users[n] EXCEPT !.password = TRUE] \in Row
        BY <1>2 DEF Row
      <4>2. None \notin Row
        BY NoneAssumption
      <4>3. \A n \in OfId(c.id) : /\ [users[n] EXCEPT !.password = TRUE].id = users[n].id
                                  /\ [users[n] EXCEPT !.password = TRUE].role = users[n].role
        BY <1>2 DEF Row
      <4> QED BY <4>1, <4>2, <4>3
    <3>2. \A n \in Name : /\ users[n] = None <=> users'[n] = None
                          /\ users[n] # None => /\ users'[n].id = users[n].id
                                                /\ users'[n].role = users[n].role
      BY <1>2, <2>2, <3>1
    <3>3. Keeps
      BY <1>1, <1>5, <3>2 DEF ChangePassword, Keeps, Account
    <3>4. AdminKept'
      BY <1>5, <3>2 DEF ChangePassword, IInv, AdminKept, Admins, Account
    <3> QED BY <1>3, <2>2, <3>3, <3>4
  <2> QED BY <1>4, <1>5, <2>1, <2>2 DEF ChangePassword
<1>6. CASE LinkGoogle(s)
  <2>1. CASE Stage(s, "failed") /\ UNCHANGED users
    BY <1>4, <1>6, <2>1 DEF LinkGoogle
  <2>2. CASE /\ Stage(s, "answered")
             /\ users' = [n \in Name |-> IF n \in OfId(c.id) THEN [users[n] EXCEPT !.google = c.sub]
                                         ELSE users[n]]
    <3>0. c.sub \in Sub \cup {None}
      BY <1>0 DEF Call
    <3>1. \A n \in OfId(c.id) : /\ [users[n] EXCEPT !.google = c.sub].id = users[n].id
                                /\ [users[n] EXCEPT !.google = c.sub].role = users[n].role
                                /\ [users[n] EXCEPT !.google = c.sub] # None
      BY <1>2, <3>0, NoneAssumption DEF Row
    <3>2. \A n \in Name : /\ users[n] = None <=> users'[n] = None
                          /\ users[n] # None => /\ users'[n].id = users[n].id
                                                /\ users'[n].role = users[n].role
      BY <1>2, <2>2, <3>1
    <3>3. Keeps
      BY <1>1, <1>6, <3>2 DEF LinkGoogle, Keeps, Account
    <3>4. AdminKept'
      BY <1>6, <3>2 DEF LinkGoogle, IInv, AdminKept, Admins, Account
    <3> QED BY <1>3, <2>2, <3>3, <3>4
  <2> QED BY <1>6, <2>1, <2>2 DEF LinkGoogle
<1>7. CASE ChangeRole(s)
  <2>1. /\ users' = [n \in Name |-> IF n \in OfId(c.id) THEN [users[n] EXCEPT !.role = c.role]
                                    ELSE users[n]]
        /\ lapse' = (lapse \/ Lapsed(c))
        /\ Stage(s, "answered") /\ next' = next
        /\ c.op = "role" /\ c.stage = "checked"
    BY <1>7 DEF ChangeRole
  <2>2. \A n \in OfId(c.id) : [users[n] EXCEPT !.role = c.role].id = users[n].id
    BY <1>2 DEF Row
  <2>3. \A n \in Account(users') : n \in Account(users) /\ users'[n].id = users[n].id
    BY <1>2, <2>1, <2>2 DEF Account, OfId
  <2>4. Keeps
    BY <1>1, <2>1, <2>3 DEF Keeps
  <2>5. AdminKept'
    <3>1. c.astray \/ c.token.name \notin OfId(c.id)
      BY <1>0, <2>1 DEF CallOK, SparedOK
    <3>2. ~lapse' => c.token.name \in Admins(users) /\ ~c.astray
      BY <2>1 DEF Lapsed
    <3>3. ~lapse' => c.token.name \in Admins(users')
      BY <2>1, <3>1, <3>2 DEF Admins, Account
    <3> QED BY <3>3 DEF AdminKept
  <2> QED BY <1>3, <2>1, <2>4, <2>5
<1>8. CASE DeleteUser(s)
  <2>1. /\ users' = [n \in Name |-> IF n \in OfId(c.id) THEN None ELSE users[n]]
        /\ lapse' = (lapse \/ Lapsed(c))
        /\ Stage(s, "answered") /\ next' = next
        /\ c.op = "delete" /\ c.stage = "checked"
    BY <1>8 DEF DeleteUser
  <2>2. Keeps
    BY <1>1, <2>1 DEF Keeps, Account
  <2>3. AdminKept'
    <3>1. c.astray \/ c.token.name \notin OfId(c.id)
      BY <1>0, <2>1 DEF CallOK, SparedOK
    <3>2. ~lapse' => c.token.name \in Admins(users) /\ ~c.astray
      BY <2>1 DEF Lapsed
    <3>3. ~lapse' => c.token.name \in Admins(users')
      BY <2>1, <3>1, <3>2 DEF Admins, Account
    <3> QED BY <3>3 DEF AdminKept
  <2> QED BY <1>3, <2>1, <2>2, <2>3
<1>9. CASE CreateUser(s)
  <2>1. CASE Stage(s, "failed") /\ UNCHANGED <<users, next>>
    BY <1>4, <1>9, <2>1 DEF CreateUser
  <2>2. CASE /\ c.name \notin Account(users)
             /\ users' = [users EXCEPT ![c.name] = [id |-> next, role |-> "user", google |-> c.sub,
                                                    password |-> c.op = "add"]]
             /\ next' = next + 1
             /\ \/ Stage(s, "answered")
                \/ /\ calls' = [calls EXCEPT ![s].stage = "opening",
                                             ![s].got = [name |-> c.name, role |-> "user"]]
                   /\ c.op = "google"
    <3>1. c.name \in Name
      BY <1>0, <1>9 DEF CallOK, FilledOK, CreateUser
    <3>2. users'[c.name].id = next /\ \A n \in Name : n # c.name => users'[n] = users[n]
      BY <1>0, <2>2, <3>1 DEF TypeOK
    <3>3. Keeps
      BY <1>1, <2>2, <3>1, <3>2 DEF Keeps, Account
    <3>4. AdminKept'
      <4>1. Admins(users) \subseteq Admins(users')
        BY <2>2, <3>2 DEF Admins, Account
      <4> QED BY <1>9, <4>1 DEF IInv, AdminKept, CreateUser
    <3>5. CASE Stage(s, "answered")
      BY <1>3, <3>3, <3>4, <3>5
    <3>6. CASE /\ calls' = [calls EXCEPT ![s].stage = "opening",
                                         ![s].got = [name |-> c.name, role |-> "user"]]
               /\ c.op = "google"
      <4> DEFINE call == [c EXCEPT !.stage = "opening", !.got = [name |-> c.name, role |-> "user"]]
      <4>1. [name |-> c.name, role |-> "user"] \in Token
        BY <3>1 DEF Token, Role
      <4>2. call \in Call
        BY <1>0, <4>1 DEF Call
      <4>3. calls' = [calls EXCEPT ![s] = call]
        BY <1>0, <3>6 DEF TypeOK
      <4>4. /\ call.op = "google" /\ call.tab = c.tab /\ call.stage = "opening"
            /\ call.rows = c.rows
        BY <1>0, <3>6 DEF Call
      <4> HIDE DEF call
      <4>5. CallOK(call)
        BY <1>0, <3>6, <4>4 DEF CallOK, FilledOK, RowsOK, SparedOK, MeOK, SignOK, HeardOK
      <4>6. Moves(s, call)
        BY <1>0, <3>6, <4>2, <4>3, <4>4 DEF Moves
      <4> QED BY <3>3, <3>4, <4>5, <4>6, ServerStep
    <3> QED BY <2>2, <3>5, <3>6
  <2> QED BY <1>9, <2>1, <2>2 DEF CreateUser, UserId
<1> QED BY <1>5, <1>6, <1>7, <1>8, <1>9

LEMMA RestartStep ==
    ASSUME IInv, Kinds', Restart
    PROVE  IInv'
<1>0. TypeOK /\ \A r \in Slot : calls[r] # None => calls[r] \in Call /\ CallOK(calls[r])
  BY DEF IInv, TypeOK, Calls
<1>1. Keeps /\ AdminKept'
  <2>1. CASE Account(users) = {}
    <3>1. users' = [users EXCEPT ![Admin] = [id |-> next, role |-> "admin", google |-> None,
                                             password |-> TRUE]]
          /\ next' = next + 1 /\ UNCHANGED <<tabs, cookie, lapse>>
      BY <2>1 DEF Restart, Seeded
    <3>2. users'[Admin] = [id |-> next, role |-> "admin", google |-> None, password |-> TRUE]
          /\ \A n \in Name : n # Admin => users'[n] = users[n]
      BY <1>0, <3>1, NoneAssumption DEF TypeOK
    <3>3. Keeps
      BY <3>1, <3>2, NoneAssumption DEF Keeps, Account
    <3>4. next \in Id
      BY <2>1, <1>0, BoundAssumption DEF Restart, TypeOK, Id
    <3>5. users'[Admin] \in Row /\ users'[Admin].role = "admin"
      BY <3>2, <3>4 DEF Row, Role
    <3>6. Admin \in Admins(users')
      BY <3>5, NoneAssumption DEF Admins, Account
    <3> QED BY <3>3, <3>6 DEF AdminKept
  <2>2. CASE Account(users) # {}
    <3>1. /\ users' = [n \in Name |-> IF n = Admin /\ n \in Account(users)
                                      THEN [users[n] EXCEPT !.role = "admin"] ELSE users[n]]
          /\ next' = next /\ UNCHANGED <<tabs, cookie, lapse>>
      BY <2>2 DEF Restart, Seeded
    <3>2. \A n \in Account(users) : users[n] \in Row
      BY <1>0 DEF TypeOK, Account
    <3>3. \A n \in Account(users) : /\ [users[n] EXCEPT !.role = "admin"] \in Row
                                    /\ [users[n] EXCEPT !.role = "admin"].id = users[n].id
                                    /\ [users[n] EXCEPT !.role = "admin"].role = "admin"
      BY <3>2 DEF Row, Role
    <3>4. None \notin Row
      BY NoneAssumption
    <3>5. \A n \in Account(users) : /\ users'[n] # None /\ users'[n].id = users[n].id
                                    /\ users[n].role = "admin" => users'[n].role = "admin"
      BY <3>1, <3>2, <3>3, <3>4 DEF Account
    <3>6. Account(users') \subseteq Account(users)
      BY <3>1 DEF Account
    <3>7. Keeps
      BY <3>1, <3>5, <3>6, NoneAssumption DEF Keeps
    <3>8. Admins(users) \subseteq Admins(users')
      BY <3>5 DEF Admins, Account
    <3> QED BY <3>1, <3>7, <3>8 DEF IInv, AdminKept
  <2> QED BY <2>1, <2>2
<1>2. TypeOK' /\ Distinct' /\ Lists' /\ \A c \in Call : CallOK(c) => CallOK(c)'
  BY <1>1, NumbersKept
<1>3. \A r \in Slot : calls'[r] = IF calls[r] # None /\ calls[r].stage \notin {"answered", "heard"}
                                  THEN [calls[r] EXCEPT !.stage = "failed"] ELSE calls[r]
  BY DEF Restart
<1>4. Calls'
  <2> SUFFICES ASSUME NEW r \in Slot, calls'[r] # None PROVE CallOK(calls[r])'
    BY DEF Calls
  <2>1. PICK call \in Call : CallOK(call) /\ calls'[r] = call
    <3>1. CASE calls'[r] = calls[r]
      BY <1>0, <3>1
    <3>2. CASE calls[r] # None /\ calls'[r] = [calls[r] EXCEPT !.stage = "failed"]
      BY <1>0, <3>2, StagedOK
    <3> QED BY <1>3, <3>1, <3>2
  <2> QED BY <1>2, <2>1
<1>5. MeOnce'
  <2>1. ASSUME NEW r \in Slot, calls'[r] # None
        PROVE  calls[r] # None /\ calls'[r].op = calls[r].op /\ calls'[r].tab = calls[r].tab
    BY <1>0, <1>3, <2>1 DEF Call
  <2> QED BY <2>1 DEF IInv, MeOnce
<1>6. SessionShown'
  <2>1. \A t \in Tab : Awaited(t) => Awaited(t)'
    BY <1>3 DEF Awaited
  <2> QED BY <1>1, <2>1 DEF IInv, SessionShown, Keeps
<1> QED BY <1>1, <1>2, <1>4, <1>5, <1>6 DEF IInv

-----------------------------------------------------------------------------
(* Answers *)

\* A turn of the session, with no other question who is signed in under way for
\* the tab, and the account shown the one of the cookie.
LEMMA TurnStep ==
    ASSUME IInv, Kinds', NEW s \in Slot, calls[s] # None, NEW t \in Tab,
           NEW who \in Token \cup {None}, Turn(s, t, who),
           calls[s].tab = t, UNCHANGED <<users, next, cookie, lapse>>,
           who # None /\ cookie[t] # None => who = cookie[t] \/ tabs[t].crossed,
           \A r \in Slot \ {s} : calls[r] # None /\ calls[r].op = "me" => calls[r].tab # t
    PROVE  IInv'
<1>0. TypeOK /\ \A r \in Slot : calls[r] # None => calls[r] \in Call /\ CallOK(calls[r])
  BY DEF IInv, TypeOK, Calls
<1>1. /\ tabs'[t].checked /\ tabs'[t].shown = who /\ tabs'[t].list \subseteq tabs[t].list
      /\ tabs'[t].crossed = tabs[t].crossed
      /\ \A u \in Tab : u # t => tabs'[u] = tabs[u]
  BY <1>0, TurnType
<1>2. \A u \in Tab : tabs'[u].crossed = tabs[u].crossed
  BY <1>1
<1>3. TypeOK' /\ Distinct' /\ AdminKept'
  BY DEF IInv, TypeOK, Kinds, Distinct, AdminKept, Admins, Account
<1>4. Lists'
  <2> SUFFICES ASSUME NEW u \in Tab, NEW r \in tabs'[u].list PROVE Fits(r.id, r.name)'
    BY DEF Lists
  <2>1. r \in tabs[u].list
    BY <1>1
  <2> QED BY <2>1 DEF IInv, Lists, Fits, Account
<1> DEFINE asked == Ask(t, "list", cookie[t], "users")
<1>6. \A r \in Slot : \/ r = s /\ (calls'[r] = None \/ calls'[r] = asked)
                      \/ r # s /\ calls'[r] = calls[r]
                      \/ /\ r # s /\ calls[r] # None /\ calls[r].tab = t
                         /\ calls'[r] = [calls[r] EXCEPT !.tab = None]
  <2> DEFINE new == RedirectIfNeeded(SetUser(tabs[t], who)).page
             rest == Unheard([calls EXCEPT ![s] = None], t, tabs[t].page, new)
  <2>1. calls' = rest \/ calls' = [rest EXCEPT ![s] = asked]
    BY DEF Turn
  <2> HIDE DEF new
  <2>2. rest = [r \in Slot |-> rest[r]]
    BY DEF Unheard
  <2>3. \A r \in Slot : \/ r = s /\ rest[r] = None
                        \/ r # s /\ rest[r] = calls[r]
                        \/ /\ r # s /\ calls[r] # None /\ calls[r].tab = t
                           /\ rest[r] = [calls[r] EXCEPT !.tab = None]
    BY <1>0 DEF Unheard, TypeOK
  <2> HIDE DEF rest
  <2> HIDE DEF asked
  <2>4. CASE calls' = rest
    BY <2>3, <2>4
  <2>5. CASE calls' = [rest EXCEPT ![s] = asked]
    <3>1. calls'[s] = asked /\ \A r \in Slot : r # s => calls'[r] = rest[r]
      BY <2>2, <2>5
    <3> QED BY <2>3, <3>1
  <2> QED BY <2>1, <2>4, <2>5
<1>7. asked.op = "list" /\ asked.rows = {} /\ asked.stage = "sent"
  BY DEF Ask
<1> HIDE DEF asked
<1>8. Calls'
  <2> SUFFICES ASSUME NEW r \in Slot, calls'[r] # None PROVE CallOK(calls[r])'
    BY DEF Calls
  <2>1. CASE r = s
    BY <1>6, <1>7, <2>1 DEF CallOK, FilledOK, RowsOK, SparedOK, MeOK, SignOK, HeardOK
  <2>2. CASE r # s /\ calls'[r] = calls[r]
    <3>1. calls[r] \in Call /\ CallOK(calls[r])
      BY <1>0, <2>2
    <3>2. calls[r].tab # None => calls[r].tab \in Tab
      BY <3>1 DEF Call
    <3>3. MeOK(calls[r])'
      <4>1. CASE calls[r].op = "me" /\ calls[r].tab # None
        <5>1. calls[r].tab # t
          BY <2>2, <4>1
        <5>2. tabs'[calls[r].tab] = tabs[calls[r].tab]
          BY <1>1, <3>2, <4>1, <5>1
        <5> QED BY <2>2, <3>1, <5>2 DEF CallOK, MeOK
      <4> QED BY <2>2, <4>1 DEF MeOK
    <3>4. SignOK(calls[r])' /\ HeardOK(calls[r])'
      BY <1>1, <1>2, <2>2, <3>1, <3>2 DEF CallOK, SignOK, HeardOK
    <3> QED BY <2>2, <3>1, <3>3, <3>4 DEF CallOK, FilledOK, RowsOK, SparedOK, Fits, OfId, Account
  <2>3. CASE r # s /\ calls[r] # None /\ calls'[r] = [calls[r] EXCEPT !.tab = None]
    <3>1. calls[r] \in Call /\ CallOK(calls[r])
      BY <1>0, <2>3
    <3> QED BY <2>3, <3>1
            DEF Call, CallOK, FilledOK, RowsOK, SparedOK, MeOK, SignOK, HeardOK, Fits, OfId, Account
  <2> QED BY <1>6, <2>1, <2>2, <2>3
<1>9. MeOnce'
  <2>1. ASSUME NEW r \in Slot, calls'[r] # None, calls'[r].op = "me", calls'[r].tab # None
        PROVE  calls[r] # None /\ calls[r].op = "me" /\ calls[r].tab = calls'[r].tab
    BY <1>0, <1>6, <1>7, <2>1 DEF Call
  <2> QED BY <2>1 DEF IInv, MeOnce
<1>10. SessionShown'
  <2> SUFFICES ASSUME NEW u \in Tab, tabs'[u].shown # None, cookie[u] # None
               PROVE  tabs'[u].shown = cookie[u] \/ Awaited(u)' \/ tabs'[u].crossed
    BY DEF SessionShown
  <2>1. CASE u = t
    BY <1>1, <2>1
  <2>2. CASE u # t
    <3>1. tabs[u].shown = cookie[u] \/ Awaited(u) \/ tabs[u].crossed
      BY <1>1, <2>2 DEF IInv, SessionShown
    <3>2. ASSUME Awaited(u) PROVE Awaited(u)'
      <4>1. PICK r \in Slot : calls[r] # None /\ calls[r].tab = u /\ calls[r].stage = "heard"
        BY <3>2 DEF Awaited
      <4>2. calls'[r] = calls[r]
        BY <1>6, <2>2, <4>1
      <4> QED BY <4>1, <4>2 DEF Awaited
    <3> QED BY <1>1, <2>2, <3>1, <3>2
  <2> QED BY <2>1, <2>2
<1> QED BY <1>3, <1>4, <1>8, <1>9, <1>10 DEF IInv

LEMMA SetCookieStep ==
    ASSUME IInv, NEW s \in Slot, SetCookie(s)
    PROVE  IInv'
<1> DEFINE c == calls[s]
           t == c.tab
<1>0. TypeOK /\ \A r \in Slot : calls[r] # None => calls[r] \in Call /\ CallOK(calls[r])
  BY DEF IInv, TypeOK, Calls
<1>1. /\ Kinds' /\ t \in Tab
      /\ calls' = [calls EXCEPT ![s] = [c EXCEPT !.stage = "heard"]]
      /\ \A u \in Tab : /\ tabs'[u].checked = tabs[u].checked
                        /\ tabs'[u].shown = tabs[u].shown
                        /\ tabs'[u].list = tabs[u].list
                        /\ tabs'[u].crossed = (tabs[u].crossed \/ (u = t /\ Awaited(u)))
  BY <1>0, SetCookieKinds
<1>2. /\ c # None /\ c \in Call /\ c.stage = "answered" /\ c.op \in {"login", "google", "logout"}
      /\ UNCHANGED <<users, next, lapse>>
      /\ cookie' = [cookie EXCEPT ![t] = IF c.op = "logout" THEN None ELSE c.got]
  BY <1>0 DEF SetCookie, SetsCookie
<1>3. /\ \A u \in Tab : u # t => cookie'[u] = cookie[u]
      /\ cookie'[t] = IF c.op = "logout" THEN None ELSE c.got
  BY <1>0, <1>1, <1>2 DEF TypeOK
<1>4. TypeOK' /\ Distinct' /\ AdminKept'
  BY <1>1, <1>2 DEF IInv, TypeOK, Kinds, Distinct, AdminKept, Admins, Account
<1>5. Lists'
  BY <1>1, <1>2 DEF IInv, Lists, Fits, Account
<1>a. [c EXCEPT !.stage = "heard"] \in Call
  BY <1>2, StageType
<1>b. PICK call \in Call : call = [c EXCEPT !.stage = "heard"]
  BY <1>a
<1>6. /\ calls'[s] = call
      /\ \A r \in Slot : r # s => calls'[r] = calls[r]
  BY <1>0, <1>1, <1>b DEF TypeOK
<1>7. /\ call \in Call /\ call.stage = "heard" /\ call.op = c.op /\ call.tab = t
      /\ call.got = c.got /\ call.rows = c.rows /\ call # None
  BY <1>2, <1>b, CallAssumption DEF Call
<1>8. ASSUME NEW r \in Slot, calls[r] # None, calls[r].tab = t, calls[r].op = "me" PROVE FALSE
  <2>1. tabs[t].checked
    BY <1>0, <1>1, <1>2, NoneAssumption DEF CallOK, SignOK
  <2> QED BY <1>0, <1>1, <1>8, <2>1, NoneAssumption DEF CallOK, MeOK
<1>9. Calls'
  <2> SUFFICES ASSUME NEW r \in Slot, calls'[r] # None PROVE CallOK(calls[r])'
    BY DEF Calls
  <2>1. CASE r = s
    <3>1. FilledOK(call)' /\ RowsOK(call)' /\ SparedOK(call)' /\ MeOK(call)'
      BY <1>0, <1>2, <1>7 DEF CallOK, FilledOK, RowsOK, SparedOK, MeOK, Fits, Account
    <3>2. SignOK(call)'
      BY <1>0, <1>1, <1>2, <1>7 DEF CallOK, SignOK
    <3>3. HeardOK(call)'
      BY <1>2, <1>3, <1>7 DEF HeardOK
    <3>4. CallOK(call)'
      BY <3>1, <3>2, <3>3 DEF CallOK
    <3> QED BY <1>6, <2>1, <3>4
  <2>2. CASE r # s
    <3>1. calls'[r] = calls[r] /\ calls[r] \in Call /\ CallOK(calls[r]) /\ calls[r] # None
      BY <1>0, <1>6, <2>2
    <3>2. calls[r].tab # None => calls[r].tab \in Tab
      BY <3>1 DEF Call
    <3>3. MeOK(calls[r])'
      BY <1>1, <1>3, <1>8, <3>1, <3>2 DEF CallOK, MeOK
    <3>4. HeardOK(calls[r])'
      <4>1. CASE calls[r].tab = t /\ calls[r].stage = "heard"
        <5>1. tabs'[t].crossed
          BY <1>1, <3>1, <4>1 DEF Awaited
        <5> QED BY <3>1, <4>1, <5>1 DEF CallOK, HeardOK
      <4>2. CASE calls[r].tab # t \/ calls[r].stage # "heard"
        BY <1>1, <1>3, <3>1, <3>2, <4>2 DEF CallOK, HeardOK
      <4> QED BY <4>1, <4>2
    <3> QED BY <1>1, <1>2, <3>1, <3>2, <3>3, <3>4
            DEF CallOK, FilledOK, RowsOK, SparedOK, SignOK, Fits, OfId, Account
  <2> QED BY <2>1, <2>2
<1>10. MeOnce'
  <2>1. \A r \in Slot : calls'[r] # None =>
           calls[r] # None /\ calls'[r].op = calls[r].op /\ calls'[r].tab = calls[r].tab
    BY <1>2, <1>6, <1>7
  <2> QED BY <2>1 DEF IInv, MeOnce
<1>11. SessionShown'
  <2> SUFFICES ASSUME NEW u \in Tab, tabs'[u].shown # None, cookie'[u] # None
               PROVE  tabs'[u].shown = cookie'[u] \/ Awaited(u)' \/ tabs'[u].crossed
    BY DEF SessionShown
  <2>1. CASE u = t
    <3>1. Awaited(u)'
      BY <1>6, <1>7, <2>1 DEF Awaited
    <3> QED BY <3>1
  <2>2. CASE u # t
    <3>1. Awaited(u) => Awaited(u)'
      BY <1>2, <1>6 DEF Awaited
    <3> QED BY <1>1, <1>3, <2>2, <3>1 DEF IInv, SessionShown
  <2> QED BY <2>1, <2>2
<1> QED BY <1>4, <1>5, <1>9, <1>10, <1>11 DEF IInv

LEMMA AnswerStep ==
    ASSUME IInv, Kinds', NEW s \in Slot, Answer(s)
    PROVE  IInv'
<1> DEFINE c == calls[s]
           t == c.tab
           who == IF Good(c) /\ c.known THEN c.got ELSE None
<1>1. /\ c # None /\ c \in Call /\ CallOK(c) /\ TypeOK
      /\ UNCHANGED <<users, next, cookie, lapse, sent, faults>>
  BY DEF Answer, IInv, TypeOK, Calls
<1>2. t \in Tab \cup {None} /\ c.got \in Token \cup {None} /\ c.op \in Op
  BY <1>1 DEF Call
<1>3. who \in Token \cup {None} /\ (who # None => who = c.got /\ Good(c))
  BY <1>2
<1>4. ASSUME t # None, tabs[t].checked, NEW r \in Slot, calls[r] # None, calls[r].op = "me"
      PROVE  calls[r].tab # t
  BY <1>4 DEF IInv, Calls, CallOK, MeOK
<1> HIDE DEF who
<1>a. CASE t # None /\ c.op = "me"
  <2>1. Turn(s, t, who)
    BY <1>a DEF Answer, who
  <2>3. who # None /\ cookie[t] # None => who = cookie[t]
    BY <1>1, <1>3, <1>a DEF CallOK, MeOK, HeardOK, Good
  <2>4. \A r \in Slot \ {s} : calls[r] # None /\ calls[r].op = "me" => calls[r].tab # t
    BY <1>1, <1>a DEF IInv, MeOnce
  <2>5. t \in Tab
    BY <1>2, <1>a
  <2>6. c.tab = t
    OBVIOUS
  <2> HIDE DEF t
  <2> QED BY <1>1, <1>3, <2>1, <2>3, <2>4, <2>5, <2>6, TurnStep
<1>b. CASE t # None /\ c.op \in {"login", "google"} /\ Good(c)
  <2>1. Turn(s, t, who) /\ c.stage = "heard"
    BY <1>b DEF Answer, who, Good, SetsCookie
  <2>2. tabs[t].checked
    BY <1>1, <1>b DEF CallOK, SignOK
  <2>3. \A r \in Slot \ {s} : calls[r] # None /\ calls[r].op = "me" => calls[r].tab # t
    BY <1>4, <1>b, <2>2
  <2>4. t \in Tab
    BY <1>2, <1>b
  <2>5. who # None /\ cookie[t] # None => who = cookie[t] \/ tabs[t].crossed
    BY <1>1, <1>3, <1>b, <2>1 DEF CallOK, HeardOK
  <2>6. c.tab = t
    OBVIOUS
  <2> HIDE DEF t
  <2> QED BY <1>1, <1>3, <2>1, <2>3, <2>4, <2>5, <2>6, TurnStep
<1>c. CASE t # None /\ c.op = "logout" /\ Good(c)
  <2>1. Turn(s, t, None)
    BY <1>c DEF Answer
  <2>2. tabs[t].checked
    BY <1>1, <1>c DEF CallOK, SignOK
  <2>3. \A r \in Slot \ {s} : calls[r] # None /\ calls[r].op = "me" => calls[r].tab # t
    BY <1>4, <1>c, <2>2
  <2>4. t \in Tab
    BY <1>2, <1>c
  <2>6. c.tab = t
    OBVIOUS
  <2> HIDE DEF t
  <2> QED BY <1>1, <2>1, <2>3, <2>4, <2>6, TurnStep
<1>d. CASE t # None /\ c.op = "list" /\ Good(c)
  <2>1. /\ tabs' = [tabs EXCEPT ![t].list = c.rows]
        /\ calls' = [calls EXCEPT ![s] = None] /\ c.stage = "answered"
    BY <1>1, <1>d DEF Answer, Free, Good, CallOK, HeardOK
  <2>2. /\ \A u \in Tab : /\ tabs'[u].checked = tabs[u].checked /\ tabs'[u].shown = tabs[u].shown
                          /\ tabs'[u].crossed = tabs[u].crossed
        /\ \A u \in Tab : u # t => tabs'[u].list = tabs[u].list
        /\ tabs'[t].list = c.rows
    BY <1>1, <1>2, <1>d, <2>1 DEF TypeOK, TabState
  <2>3. \A r \in Slot : calls'[r] # None => calls'[r] = calls[r]
    BY <1>1, <2>1 DEF TypeOK
  <2>8. \A u \in Tab : Awaited(u) => Awaited(u)'
    BY <1>1, <2>1 DEF Awaited, TypeOK
  <2>4. TypeOK' /\ Distinct' /\ AdminKept' /\ SessionShown'
    BY <1>1, <2>1, <2>2, <2>8
       DEF IInv, TypeOK, Kinds, Distinct, AdminKept, Admins, Account, SessionShown
  <2>5. Lists'
    <3> SUFFICES ASSUME NEW u \in Tab, NEW r \in tabs'[u].list PROVE Fits(r.id, r.name)'
      BY DEF Lists
    <3>1. Fits(r.id, r.name)
      BY <1>1, <2>2 DEF CallOK, RowsOK, IInv, Lists
    <3> QED BY <1>1, <3>1 DEF Fits, Account
  <2>6. Calls'
    <3> SUFFICES ASSUME NEW r \in Slot, calls'[r] # None PROVE CallOK(calls[r])'
      BY DEF Calls
    <3>1. calls'[r] = calls[r] /\ calls[r] \in Call /\ CallOK(calls[r])
      BY <1>1, <2>3 DEF IInv, Calls, TypeOK
    <3>2. calls[r].tab # None => calls[r].tab \in Tab
      BY <3>1 DEF Call
    <3> QED BY <1>1, <2>1, <2>2, <3>1, <3>2
            DEF CallOK, FilledOK, RowsOK, SparedOK, MeOK, SignOK, HeardOK, Fits, OfId, Account
  <2>7. MeOnce'
    BY <2>3 DEF IInv, MeOnce
  <2> QED BY <2>4, <2>5, <2>6, <2>7 DEF IInv
<1>e. CASE t # None /\ c.op \in {"add", "role", "link", "delete"} /\ Good(c)
  <2>2. From(t, "list") \in Call
    BY <1>1, <1>2, <1>e, FromType DEF Op
  <2>1. [From(t, "list") EXCEPT !.after = c.op] \in Call
    BY <1>2, <2>2 DEF Call
  <2>3. PICK call \in Call :
           /\ calls' = [calls EXCEPT ![s] = call] /\ tabs' = tabs
           /\ call.op = "list" /\ call.rows = {} /\ call.stage = "sent"
    <3>1. [From(t, "list") EXCEPT !.after = c.op].op = "list"
      BY <2>2 DEF Call, From, Ask
    <3>2. /\ [From(t, "list") EXCEPT !.after = c.op].rows = {}
          /\ [From(t, "list") EXCEPT !.after = c.op].stage = "sent"
      BY <2>2 DEF Call, From, Ask
    <3>3. calls' = [calls EXCEPT ![s] = [From(t, "list") EXCEPT !.after = c.op]]
          /\ tabs' = tabs
      BY <1>e DEF Answer
    <3> QED BY <2>1, <3>1, <3>2, <3>3
  <2>4. Quiet
    BY <1>1, <2>3 DEF Quiet
  <2>5. CallOK(call)
    BY <2>3 DEF CallOK, FilledOK, RowsOK, SparedOK, MeOK, SignOK, HeardOK
  <2>6. CallOK(call)'
    BY <1>1, <2>3, <2>4, <2>5, QuietKeeps
  <2>7. \A r \in Slot : Sent(r)
    <3>1. calls'[s] = call /\ \A r \in Slot : r # s => calls'[r] = calls[r]
      BY <1>1, <2>3 DEF TypeOK
    <3>2. Sent(s)
      <4>1. CallOK(calls[s])'
        BY <2>6, <3>1
      <4>2. c.stage # "heard"
        BY <1>1, <1>e DEF CallOK, HeardOK
      <4> QED BY <2>3, <3>1, <4>1, <4>2 DEF Sent, Waits
    <3> QED BY <3>1, <3>2 DEF Sent, Waits
  <2> QED BY <2>4, <2>7, QuietStep
<1>f. CASE ~(t # None /\ (c.op = "me" \/ (Good(c) /\
                 c.op \in {"login", "google", "logout", "list", "add", "role", "link", "delete"})))
  <2>1. calls' = [calls EXCEPT ![s] = None] /\ tabs' = tabs
    BY <1>f DEF Answer, Free
  <2>2. Quiet
    BY <1>1, <2>1 DEF Quiet
  <2>4. t # None => c.stage # "heard"
    BY <1>1, <1>f DEF CallOK, HeardOK, Good
  <2>3. \A r \in Slot : Sent(r)
    BY <1>1, <2>1, <2>4 DEF Sent, Waits, TypeOK
  <2> QED BY <2>2, <2>3, QuietStep
<1> QED BY <1>a, <1>b, <1>c, <1>d, <1>e, <1>f

-----------------------------------------------------------------------------
(* The theorems *)

LEMMA InitIInv == Init => IInv
<1> SUFFICES ASSUME Init PROVE IInv
  OBVIOUS
<1>1. /\ users \in Installed /\ users \in [Name -> Row \cup {None}] /\ Admins(users) # {}
      /\ Cardinality(Account(users)) \in 0..MaxId
      /\ \A n \in Account(users) : users[n].id <= Cardinality(Account(users))
      /\ \A m, n \in Account(users) : users[m].id = users[n].id => m = n
  BY InstalledAssumption DEF Init
<1>2. \A n \in Account(users) : users[n] \in Row /\ users[n].id \in Nat
  BY <1>1 DEF Account, Row, Id
<1>3. /\ next = 1 + Cardinality(Account(users)) /\ lapse = FALSE /\ sent = 0 /\ faults = 0
      /\ cookie \in [Tab -> Token \cup {None}] /\ calls = [s \in Slot |-> None]
  BY DEF Init
<1>4. next \in 1..(MaxId + 1) /\ \A n \in Account(users) : users[n].id < next
  BY <1>1, <1>2, <1>3, BoundAssumption
<1>5. Listed \subseteq UserListItem
  <2>1. \A n \in Account(users) : \A k \in BOOLEAN :
          [id |-> users[n].id, name |-> n, role |-> users[n].role, linked |-> k] \in UserListItem
    BY <1>2 DEF UserListItem, Row, Account
  <2>2. \A n \in Account(users) : (users[n].google # None) \in BOOLEAN
    OBVIOUS
  <2>3. \A n \in Account(users) :
          [id |-> users[n].id, name |-> n, role |-> users[n].role,
           linked |-> users[n].google # None] \in UserListItem
    BY <2>1, <2>2, Zenon
  <2> QED BY <2>3, Zenon DEF Listed
<1>6. ASSUME NEW t \in Tab
      PROVE  tabs[t] \in TabState /\ tabs[t].shown = cookie[t] /\ tabs[t].list \subseteq Listed
  <2>1. tabs[t] = [Fresh(IF cookie[t] = None THEN "login" ELSE "users") EXCEPT
                     !.checked = TRUE, !.shown = cookie[t],
                     !.list = IF cookie[t] = None THEN {} ELSE Listed]
    BY DEF Init
  <2>2. cookie[t] \in Token \cup {None}
    BY <1>3
  <2> HIDE DEF Listed
  <2> QED BY <1>5, <2>1, <2>2 DEF Fresh, TabState
<1>7. TypeOK
  <2>1. tabs \in [Tab -> TabState]
    BY <1>6 DEF Init
  <2> QED BY <1>1, <1>3, <1>4, <2>1 DEF TypeOK
<1>8. Lists
  <2>1. \A n \in Account(users) : Fits(users[n].id, n)
    BY <1>1, <1>4 DEF Fits
  <2>2. \A r \in Listed : \E n \in Account(users) : r.id = users[n].id /\ r.name = n
    BY DEF Listed
  <2>3. \A r \in Listed : Fits(r.id, r.name)
    BY <2>1, <2>2
  <2> HIDE DEF Listed
  <2> QED BY <1>6, <2>3 DEF Lists
<1>9. Distinct /\ Calls /\ MeOnce /\ SessionShown /\ AdminKept
  BY <1>1, <1>3, <1>6 DEF Distinct, Calls, MeOnce, SessionShown, AdminKept
<1> QED BY <1>7, <1>8, <1>9 DEF IInv

LEMMA NextIInv == IInv /\ [Next]_vars => IInv'
<1> SUFFICES ASSUME IInv, [Next]_vars PROVE IInv'
  OBVIOUS
<1>0. TypeOK /\ Filled
  BY DEF IInv, Calls, CallOK, Filled
<1>1. CASE UNCHANGED vars
  BY <1>1 DEF vars, IInv, TypeOK, Distinct, Lists, Calls, CallOK, FilledOK, RowsOK, SparedOK, MeOK,
              SignOK, HeardOK, MeOnce, SessionShown, Awaited, AdminKept, Fits, OfId, Admins, Account
<1>2. ASSUME NEW t \in Tab,
             \/ \E page \in {"login", "users", "other"} : Go(t, page)
             \/ \E page \in Entry : Load(t, page)
             \/ InitGoogle(t) \/ Logout(t) \/ Expire(t)
             \/ \E n \in Name : HandleSubmit(t, n) \/ HandleAdd(t, n)
             \/ \E g \in Sub : Credential(t, g)
             \/ \E r \in tabs[t].list : \/ HandleLinkGoogle(t, r) \/ HandleToggleRole(t, r)
                                        \/ HandleDelete(t, r) \/ HandleChangePassword(t, r)
      PROVE  IInv'
  <2>1. Kinds'
    BY <1>0, <1>2, PageKinds, EntryAssumption
  <2> QED BY <1>2, <2>1, GoStep, LoadStep, GoogleStep, FormStep, ExpireStep, RowStep
<1>3. ASSUME NEW s \in Slot, Serve(s) PROVE IInv'
  <2>1. CASE Answer(s)
    BY <1>0, <2>1, AnswerKinds, AnswerStep
  <2>4. CASE SetCookie(s)
    BY <2>4, SetCookieStep
  <2>2. CASE Check(s) \/ SignIn(s) \/ CreateSession(s)
    <3>1. calls[s] # None
      BY <2>2 DEF Check, SignIn, CreateSession
    <3> QED BY <1>0, <2>2, <3>1, ReadKinds, ReadStep
  <2>3. CASE \/ ChangePassword(s) \/ CreateUser(s) \/ ChangeRole(s) \/ DeleteUser(s)
             \/ LinkGoogle(s)
    <3>1. calls[s] # None
      BY <2>3 DEF ChangePassword, CreateUser, ChangeRole, DeleteUser, LinkGoogle
    <3> QED BY <1>0, <2>3, <3>1, WriteKinds, WriteStep
  <2> QED BY <1>3, <2>1, <2>2, <2>3, <2>4 DEF Serve
<1>4. CASE Restart
  BY <1>0, <1>4, RestartKinds, RestartStep
<1> QED BY <1>1, <1>2, <1>3, <1>4 DEF Next

\* The invariant holds in every state reached.
LEMMA Invariant == Spec => []IInv
<1> QED BY InitIInv, NextIInv, PTL DEF Spec

\* Every variable keeps its type, and no account is numbered past the counter:
\* user_id is never used twice, however accounts are made, deleted, seeded and
\* made again by sign-ins.
THEOREM TypeCorrect == Spec => []TypeOK
<1>1. IInv => TypeOK
  BY DEF IInv
<1> QED BY <1>1, Invariant, PTL

\* For any accounts, tabs and requests under way: the last admin goes only by a
\* change written for someone who had stopped being an admin, or sent from a page
\* that showed another account than its cookie's.
THEOREM AdminIsKept == Spec => []AdminKept
<1>1. IInv => AdminKept
  BY DEF IInv
<1> QED BY <1>1, Invariant, PTL

\* For any overlap of sign-ins, sign-outs and reloads: the account shown is the
\* account of the cookie, while there is one and no body is awaited, unless two
\* answers came with their bodies in the other order than their cookies.
THEOREM SessionIsShown == Spec => []SessionShown
<1>1. IInv => SessionShown
  BY DEF IInv
<1> QED BY <1>1, Invariant, PTL

\* No request to change a role or to delete, at any stage, names the account of
\* its own cookie, if its page showed that account: the numbers on a stale list
\* never come to name another account.
THEOREM OwnAccountIsSpared == Spec => []OwnAccountSpared
<1>1. IInv => OwnAccountSpared
  BY DEF IInv, Calls, CallOK, SparedOK, OwnAccountSpared
<1> QED BY <1>1, Invariant, PTL
=============================================================================
