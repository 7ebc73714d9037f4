------------------------------ MODULE Accounts ------------------------------
(* Users, project groups and sessions, and the start of the service that     *)
(* brings an old database up to date.                                        *)
(*                                                                           *)
(* A request is a sequence of transactions, one action each, and requests of *)
(* several browsers interleave between them.  A start is the schema script,  *)
(* the statements that rebuild table diffs under its composite key, each     *)
(* committed on its own, and one transaction that renames, seeds and         *)
(* backfills the accounts; the process may be killed anywhere.               *)
(*                                                                           *)
(* A group name is one of Names, Fold is NOCASE, Slug is slugify_group_name  *)
(* (NoSlug where it would fall back to a random id); random ids come from    *)
(* FreshIds and are never drawn twice.  Requests carry the right password    *)
(* and valid fields: any other is refused before it changes anything.        *)
EXTENDS Naturals, FiniteSets, Sequences

CONSTANTS Browsers,     \* each holds one session cookie at most
          Users,        \* user ids
          Names,        \* group names as they are typed
          Ids,          \* group ids that slugs and the demo data use
          FreshIds,     \* group ids with a random part
          Fold, Slug,   \* functions on Names
          Renames,      \* _RENAMED_DEMO_ACCOUNTS: <<old, new>> pairs in order
          Current,      \* each user id to the name its person has today
          Legacy,       \* accounts that an old database may hold
          DemoGroups,   \* _DEMO_GROUPS: records [id, name]
          DemoUsers,    \* _DEMO_ACCOUNTS: each user id to its groups
          DemoHome,     \* ... and to its first active group
          None, NoSlug,
          MaxRequests   \* bound: requests that change something

GroupIds == Ids \union FreshIds
Groups   == [id : GroupIds, name : Names]
Retired  == {Renames[i][1] : i \in 1 .. Len(Renames)}

ASSUME AccountsAssumption ==
  /\ Ids \intersect FreshIds = {} /\ None \notin GroupIds \union Users
  /\ Fold \in [Names -> Names] /\ Slug \in [Names -> Ids \union {NoSlug}]
  /\ NoSlug \notin GroupIds
  /\ \A m, n \in Names : Fold[m] = Fold[n] => Slug[m] = Slug[n]
  /\ \A m, n \in Names : Fold[m] = Fold[n] /\ Slug[m] = NoSlug => m = n
  /\ DemoGroups \in SUBSET Groups
  /\ \A g \in DemoGroups : Slug[g.name] = g.id
  /\ \A g, h \in DemoGroups : g.id = h.id => g = h
  /\ DOMAIN DemoUsers = DOMAIN DemoHome /\ DOMAIN DemoUsers \subseteq Users
  /\ \A u \in DOMAIN DemoUsers : DemoHome[u] \in DemoUsers[u]
  /\ \A u \in DOMAIN DemoUsers : DemoUsers[u] \subseteq {g.id : g \in DemoGroups}
  /\ Renames \in Seq(Users \X Users) /\ Current \in [Users -> Users]
  /\ Legacy \subseteq Users
  /\ MaxRequests \in Nat

(* Later renames are appended at the end of the list: a name that was given  *)
(* up is not given again.  The demo data has nobody under a retired name.    *)
ASSUME RenamesAssumption ==
  /\ \A i \in 1 .. Len(Renames) : /\ Renames[i][1] # Renames[i][2]
                                  /\ Current[Renames[i][1]] = Current[Renames[i][2]]
  /\ \A i, j \in 1 .. Len(Renames) : i < j => Renames[j][2] # Renames[i][1]
  /\ \A u \in Users \ Retired : Current[u] = u
  /\ DOMAIN DemoUsers \intersect Retired = {}

VARIABLES
  groups,    \* rows of project_groups
  last,      \* user_profiles: last active group of each account, None: no account
  members,   \* rows of user_group_memberships
  session,   \* the session of each browser's cookie: user and active group
  req,       \* the request of each browser: what it does, where it stands
  owner,     \* the owner of a job stored under each user's name at first
  diffs,     \* table diffs, its copy diffs_v2, and whether diffs has the old rows
  boot,      \* where the start stands; "up" while the service serves
  asked      \* requests so far

acctVars  == <<groups, last, members, session, owner>>
storeVars == <<diffs, boot>>
vars      == <<groups, last, members, session, req, owner, diffs, boot, asked>>

NoSession == [user |-> None, active |-> None]
Idle      == [op |-> "none", at |-> "idle", user |-> None, name |-> None, group |-> None]

Accounts    == {u \in Users : last[u] # None}
GroupsOf(u) == {g \in GroupIds : /\ <<u, g>> \in members
                                 /\ \E r \in groups : r.id = g}

(* resolve_session_profile: the groups a request of u may end up in; the     *)
(* empty set stands for the fall back to the demo group.                     *)

Resolve(u, active) ==
  LET mine == GroupsOf(u)
  IN IF active \in mine  THEN {active}
     ELSE IF last[u] \in mine THEN {last[u]}
     ELSE mine

(* get_current_user: a cookie whose session and profile both exist.          *)
LoggedIn(b) == session[b].user # None /\ session[b].user \in Accounts
Acting(b)   == Resolve(session[b].user, session[b].active)

-----------------------------------------------------------------------------
(* Requests.                                                                 *)

Ask(b, op, at, u, n, g) ==
  /\ boot = "up" /\ req[b] = Idle /\ asked < MaxRequests
  /\ asked' = asked + 1
  /\ req' = [req EXCEPT ![b] = [op |-> op, at |-> at, user |-> u, name |-> n, group |-> g]]

(* register: an existing group is looked up, a new one is ensured first.     *)
AskRegister(b) ==
  /\ \E u \in Users :
       \/ \E n \in Names : Ask(b, "register", "find", u, n, None)
       \/ \E g \in groups : Ask(b, "register", "create", u, None, g.id)
  /\ UNCHANGED <<acctVars, storeVars>>

(* login: the credentials are verified against an account.                   *)
AskLogin(b) ==
  /\ \E u \in Accounts : Ask(b, "login", "session", u, None, None)
  /\ UNCHANGED <<acctVars, storeVars>>

(* groups/join, as the user of the session.                                  *)
AskJoin(b) ==
  /\ LoggedIn(b)
  /\ \/ \E n \in Names : Ask(b, "join", "find", session[b].user, n, None)
     \/ \E g \in groups : Ask(b, "join", "member", session[b].user, None, g.id)
  /\ UNCHANGED <<acctVars, storeVars>>

(* session/active-group: a group that exists.                                *)
AskSwitch(b) ==
  /\ LoggedIn(b)
  /\ \E g \in groups : Ask(b, "switch", "check", session[b].user, None, g.id)
  /\ UNCHANGED <<acctVars, storeVars>>

(* The next transaction of a request, or its end.                            *)
Goto(b, at)    == req' = [req EXCEPT ![b].at = at]
Got(b, g)      == req' = [req EXCEPT ![b].group = g,
                                     ![b].at = IF req[b].op = "register" THEN "create" ELSE "member"]
Done(b)        == req' = [req EXCEPT ![b] = Idle]

(* ensure_project_group: a group of that name, in any case, is reused ...    *)
FindGroup(b) ==
  /\ req[b].at = "find"
  /\ LET same == {g \in groups : Fold[g.name] = Fold[req[b].name]}
     IN \/ \E g \in same : Got(b, g.id)
        \/ same = {} /\ Goto(b, "insert")
  /\ UNCHANGED <<acctVars, storeVars, asked>>

(* ... or inserted under its slug; when id or name are taken by now, the     *)
(* name is looked up again before an id with a random part is tried.  The    *)
(* write lock is held from the first INSERT on.                              *)
InsertBlindly(b) ==                        \* Mutant: no second look.
  /\ req[b].at = "insert"
  /\ LET n == req[b].name
         free == FreshIds \ {g.id : g \in groups}
         taken == \E g \in groups : g.id = Slug[n] \/ g.name = n
     IN \E id \in IF taken \/ Slug[n] = NoSlug THEN free ELSE {Slug[n]} :
          groups' = groups \union {[id |-> id, name |-> n]} /\ Got(b, id)
  /\ UNCHANGED <<last, members, session, owner, diffs, boot, asked>>

InsertGroup(b) ==
  /\ req[b].at = "insert"
  /\ LET n == req[b].name
         same == {g \in groups : Fold[g.name] = Fold[n]}
         free == FreshIds \ {g.id : g \in groups}
         taken == \E g \in groups : g.id = Slug[n] \/ g.name = n
         Insert(id) == groups' = groups \union {[id |-> id, name |-> n]} /\ Got(b, id)
     IN \/ ~taken /\ Slug[n] # NoSlug /\ Insert(Slug[n])
        \/ ~taken /\ Slug[n] = NoSlug /\ \E id \in free : Insert(id)
        \/ taken /\ \E g \in same : Got(b, g.id) /\ UNCHANGED groups
        \/ taken /\ same = {} /\ \E id \in free : Insert(id)
  /\ UNCHANGED <<last, members, session, owner, diffs, boot, asked>>

(* create_user: profile and membership in one transaction; a user id that is *)
(* taken ends the request and leaves the group behind.                       *)
CreateUserOnly(b) ==                       \* Mutant: the membership is left for later.
  /\ req[b].at = "create"
  /\ IF req[b].user \in Accounts THEN Done(b) /\ UNCHANGED last
     ELSE last' = [last EXCEPT ![req[b].user] = req[b].group] /\ Goto(b, "session")
  /\ UNCHANGED <<groups, members, session, owner, diffs, boot, asked>>

CreateUser(b) ==
  /\ req[b].at = "create"
  /\ IF req[b].user \in Accounts THEN Done(b) /\ UNCHANGED <<last, members>>
     ELSE /\ last' = [last EXCEPT ![req[b].user] = req[b].group]
          /\ members' = members \union {<<req[b].user, req[b].group>>}
          /\ Goto(b, "session")
  /\ UNCHANGED <<groups, session, owner, diffs, boot, asked>>

(* create_session: without an active group of its own.                       *)
CreateSession(b) ==
  /\ req[b].at = "session"
  /\ session' = [session EXCEPT ![b] = [user |-> req[b].user, active |-> None]]
  /\ Done(b)
  /\ UNCHANGED <<groups, last, members, owner, diffs, boot, asked>>

(* join_group: membership, then the switch.                                  *)
JoinGroup(b) ==
  /\ req[b].at = "member"
  /\ members' = members \union {<<req[b].user, req[b].group>>}
  /\ Goto(b, "check")
  /\ UNCHANGED <<groups, last, session, owner, diffs, boot, asked>>

(* switch_active_group reads the memberships ...                             *)
CheckMembership(b) ==
  /\ req[b].at = "check"
  /\ IF req[b].group \in GroupsOf(req[b].user) THEN Goto(b, "switch") ELSE Done(b)
  /\ UNCHANGED <<acctVars, storeVars, asked>>

(* ... and writes session and profile.                                       *)
SwitchEverywhere(b) ==                     \* Mutant: WHERE user_id.
  /\ req[b].at = "switch"
  /\ session' = [c \in Browsers |-> IF session[c].user = req[b].user
                                    THEN [session[c] EXCEPT !.active = req[b].group]
                                    ELSE session[c]]
  /\ last' = [last EXCEPT ![req[b].user] = req[b].group]
  /\ Done(b)
  /\ UNCHANGED <<groups, members, owner, diffs, boot, asked>>

SwitchGroup(b) ==
  /\ req[b].at = "switch"
  /\ session' = IF session[b] = NoSession THEN session
                ELSE [session EXCEPT ![b].active = req[b].group]
  /\ last' = [last EXCEPT ![req[b].user] = IF @ = None THEN None ELSE req[b].group]
  /\ Done(b)
  /\ UNCHANGED <<groups, members, owner, diffs, boot, asked>>

(* logout, or the end of the session's lifetime.                             *)
Logout(b) ==
  /\ boot = "up" /\ session[b] # NoSession
  /\ session' = [session EXCEPT ![b] = NoSession]
  /\ UNCHANGED <<groups, last, members, req, owner, diffs, boot, asked>>

-----------------------------------------------------------------------------
(* The start: the schema ...                                                 *)

SkipBoot == UNCHANGED <<acctVars, req, asked>>

(* The script creates missing tables; an old table diffs is to be rebuilt.   *)
StartSchema ==
  /\ boot = "down"
  /\ diffs' = IF diffs.main = "none" THEN [diffs EXCEPT !.main = "new"] ELSE diffs
  /\ boot' = IF diffs.main = "old" THEN "create" ELSE "accounts"
  /\ SkipBoot

(* CREATE TABLE diffs_v2 fails when a start before this one left it behind.  *)
CreateCopy ==
  /\ boot = "create"
  /\ IF diffs.copy = "none"
     THEN diffs' = [diffs EXCEPT !.copy = "empty"] /\ boot' = "fill"
     ELSE boot' = "down" /\ UNCHANGED diffs
  /\ SkipBoot

FillCopyLate ==                            \* Mutant: a table is dropped, then copied.
  /\ boot = "fill"
  /\ diffs' = [diffs EXCEPT !.main = "none", !.rows = FALSE] /\ boot' = "drop"
  /\ SkipBoot

FillCopy ==
  /\ boot = "fill"
  /\ diffs' = [diffs EXCEPT !.copy = "full"] /\ boot' = "drop"
  /\ SkipBoot

DropOld ==
  /\ boot = "drop"
  /\ diffs' = [diffs EXCEPT !.main = "none", !.rows = FALSE] /\ boot' = "rename"
  /\ SkipBoot

RenameCopy ==
  /\ boot = "rename"
  /\ diffs' = [main |-> "new", copy |-> "none", rows |-> diffs.copy = "full"]
  /\ boot' = "accounts"
  /\ SkipBoot

(* ... and the accounts, on a record of the tables they are in.              *)
Tables == [last |-> last, members |-> members, session |-> session, owner |-> owner]

(* One hop of _rename_legacy_demo_accounts: the rows move to the new name,   *)
(* or, when that name has an account, the old account is dropped.            *)
Hop(t, pair) ==
  LET old == pair[1]
      new == pair[2]
      moved(u) == IF u = old THEN new ELSE u
  IN IF t.last[old] = None THEN t
     ELSE IF t.last[new] # None
     THEN [t EXCEPT !.last[old] = None,
                    !.members = {m \in @ : m[1] # old},
                    !.session = [b \in Browsers |-> IF t.session[b].user = old THEN NoSession
                                                    ELSE t.session[b]]]
     ELSE [t EXCEPT !.last = [t.last EXCEPT ![new] = t.last[old], ![old] = None],
                    !.members = {<<moved(m[1]), m[2]>> : m \in @},
                    !.session = [b \in Browsers |-> [t.session[b] EXCEPT !.user = moved(@)]],
                    !.owner = [j \in Users |-> moved(t.owner[j])]]

(* The tables after each hop, in the order of the list.                      *)
HopsBackwards(t) ==                        \* Mutant: newest pair first.
  LET after[i \in 0 .. Len(Renames)] ==
        IF i = 0 THEN t ELSE Hop(after[i - 1], Renames[Len(Renames) + 1 - i])
  IN  after

Hops(t) ==
  LET after[i \in 0 .. Len(Renames)] ==
        IF i = 0 THEN t ELSE Hop(after[i - 1], Renames[i])
  IN  after

Renamed(t) == Hops(t)[Len(Renames)]

(* _seed_demo_accounts: INSERT OR IGNORE, of the groups ...                  *)
SeededGroups ==
  groups \union {g \in DemoGroups : \A h \in groups : h.id # g.id /\ h.name # g.name}

(* ... and of the accounts with their memberships.                           *)
Seeded(t) ==
  [t EXCEPT
    !.last    = [u \in Users |-> IF t.last[u] = None /\ u \in DOMAIN DemoUsers
                                THEN DemoHome[u] ELSE t.last[u]],
    !.members = @ \union {m \in Users \X GroupIds :
                            m[1] \in DOMAIN DemoUsers /\ m[2] \in DemoUsers[m[1]]}]

(* _backfill_memberships: an account without any row gets its last group.    *)
(* (It inserts that group too where it is missing; groups are never deleted.)*)
Backfilled(t) ==
  [t EXCEPT !.members =
     @ \union {<<u, t.last[u]>> : u \in {v \in Users : /\ t.last[v] # None
                                                       /\ \A m \in t.members : m[1] # v}}]

UpdateAccounts ==
  /\ boot = "accounts"
  /\ LET t == Backfilled(Seeded(Renamed(Tables)))
     IN /\ last' = t.last /\ members' = t.members
        /\ session' = t.session /\ owner' = t.owner
  /\ groups' = SeededGroups
  /\ boot' = "up"
  /\ UNCHANGED <<req, diffs, asked>>

(* The process ends, at any moment: requests are lost.                       *)
Stop ==
  /\ boot # "down" /\ boot' = "down"
  /\ req' = [b \in Browsers |-> Idle]
  /\ UNCHANGED <<acctVars, diffs, asked>>

-----------------------------------------------------------------------------
(* An old database: some of the accounts it may hold, in demo groups, from   *)
(* before memberships or after them, with a session and jobs.                *)
Init ==
  /\ groups \in {{}, DemoGroups}
  /\ \E old \in SUBSET Legacy, g \in DemoGroups :
       /\ last = [u \in Users |-> IF u \in old THEN g.id ELSE None]
       /\ members \in {{}, IF groups = {} THEN {} ELSE {<<u, g.id>> : u \in old}}
       /\ session \in [Browsers -> {NoSession} \union [user : old, active : {None}]]
  /\ owner = [u \in Users |-> u]
  /\ req = [b \in Browsers |-> Idle]
  /\ diffs \in {[main |-> m, copy |-> "none", rows |-> TRUE] : m \in {"old", "new"}}
  /\ boot = "down" /\ asked = 0

Request(b) ==
  \/ AskRegister(b) \/ AskLogin(b) \/ AskJoin(b) \/ AskSwitch(b)
  \/ FindGroup(b) \/ InsertGroup(b) \/ CreateUser(b) \/ CreateSession(b)
  \/ JoinGroup(b) \/ CheckMembership(b) \/ SwitchGroup(b) \/ Logout(b)

Start ==
  \/ StartSchema \/ CreateCopy \/ FillCopy \/ DropOld \/ RenameCopy \/ UpdateAccounts

Next == (\E b \in Browsers : Request(b)) \/ Start \/ Stop
Spec == Init /\ [][Next]_vars

-----------------------------------------------------------------------------
(* Properties.                                                               *)

(* Every variable has its type.                                              *)
TypeOK ==
  /\ groups \subseteq Groups
  /\ last \in [Users -> GroupIds \union {None}]
  /\ members \subseteq Users \X GroupIds
  /\ session \in [Browsers -> [user : Users \union {None}, active : GroupIds \union {None}]]
  /\ req \in [Browsers -> [op : {"none", "register", "login", "join", "switch"},
                           at : {"idle", "find", "insert", "create", "session",
                                 "member", "check", "switch"},
                           user : Users \union {None}, name : Names \union {None},
                           group : GroupIds \union {None}]]
  /\ owner \in [Users -> Users]
  /\ diffs \in [main : {"none", "old", "new"}, copy : {"none", "empty", "full"},
                rows : BOOLEAN]
  /\ boot \in {"down", "create", "fill", "drop", "rename", "accounts", "up"}
  /\ asked \in 0 .. MaxRequests

(* While the service serves, the session of an account always resolves to a  *)
(* group its user is a member of: resolve_session_profile never gets to the  *)
(* demo group, whatever was created, joined, renamed or half done.           *)
ActsInOwnGroups ==
  boot = "up" =>
    \A b \in Browsers : LoggedIn(b) =>
      /\ Acting(b) # {}
      /\ \A g \in Acting(b) : <<session[b].user, g>> \in members

(* Two requests that create a group of one name, in whatever spelling, and   *)
(* two names with one slug, end with one group for each name and id:         *)
(* ensure_project_group looks again under the write lock.                    *)
OneGroupPerName ==
  \A g, h \in groups : Fold[g.name] = Fold[h.name] \/ g.id = h.id => g = h

(* A session that chose a group stays in it until its own browser switches,  *)
(* logs in or out, whatever other sessions of the same user do.              *)
SessionsKeepTheirGroup ==
  [][\A b \in Browsers :
       /\ boot = "up" /\ boot' = "up" /\ LoggedIn(b) /\ LoggedIn(b)'
       /\ session[b].active # None /\ Acting(b)' # Acting(b)
       => req[b].at \in {"switch", "session"}]_vars

(* A start leaves one account of each person, under today's name, and no     *)
(* session or membership of an account that is gone; what the only account   *)
(* of a person had is its own under the new name, whatever hops it took.     *)
OneAccountPerPerson ==
  [][boot = "accounts" /\ boot' = "up" =>
       /\ (Accounts)' \intersect Retired = {}
       /\ \A m \in members' : m[1] \in (Accounts)'
       /\ \A b \in Browsers : session'[b] # NoSession => session'[b].user \in (Accounts)'
       /\ \A u \in Accounts :
            (\A v \in Accounts : Current[v] = Current[u] => v = u) =>
              /\ Current[u] \in (Accounts)'
              /\ \A g \in GroupIds : <<u, g>> \in members => <<Current[u], g>> \in members'
              /\ \A b \in Browsers : session[b].user = u => session'[b].user = Current[u]
              /\ \A j \in Users : owner[j] = u => owner'[j] = Current[u]]_vars

(* The differences stored under the old key are in one table or the other at *)
(* every moment of the rebuild, so that a process killed in it loses none.   *)
RowsAreSomewhere == diffs.rows \/ diffs.copy = "full"
=============================================================================
