------------------------------ MODULE Accounts_proofs ------------------------------
(* Theorems about Accounts, for every set of names, ids, browsers and every   *)
(* demo data that satisfies AccountsAssumption.                               *)
EXTENDS Accounts, WellFoundedInduction, TLAPS

Places   == {"idle", "find", "insert", "create", "session", "member", "check", "switch"}
Requests == [op : {"none", "register", "login", "join", "switch"}, at : Places,
             user : Users \union {None}, name : Names \union {None}, group : GroupIds \union {None}]

(* What a group is made of, and what a request knows that looks for one.      *)
GroupTypes ==
  /\ groups \subseteq Groups
  /\ req \in [Browsers -> Requests]
  /\ \A b \in Browsers : req[b].at \in {"find", "insert"} => req[b].name \in Names

(* The id that a name is slugified to is always taken when the name is: a     *)
(* group that had to take a random id was kept from its slug by another.      *)
SlugsAreTaken ==
  \A g \in groups : Slug[g.name] # NoSlug => \E h \in groups : h.id = Slug[g.name]

GroupInv == GroupTypes /\ OneGroupPerName /\ SlugsAreTaken

-----------------------------------------------------------------------------
(* A group whose id is free, and whose slug and name are free too or whose    *)
(* name is nobody's in any spelling while its slug is taken.                  *)
LEMMA GroupInserted ==
  ASSUME OneGroupPerName, SlugsAreTaken, groups \subseteq Groups,
         NEW n \in Names, NEW id \in GroupIds,
         groups' = groups \union {[id |-> id, name |-> n]},
         \A g \in groups : g.id # id,
         \/ Slug[n] = id
         \/ /\ \A g \in groups : Fold[g.name] # Fold[n]
            /\ Slug[n] = NoSlug \/ \E g \in groups : g.id = Slug[n]
  PROVE  groups' \subseteq Groups /\ OneGroupPerName' /\ SlugsAreTaken'
PROOF
  <1> DEFINE new == [id |-> id, name |-> n]
  <1>1. new \in Groups /\ new.id = id /\ new.name = n
    BY DEF Groups
  <1>2. \A g \in groups : g.id \in GroupIds /\ g.name \in Names
    BY DEF Groups
  <1>3. ASSUME NEW g \in groups, Fold[g.name] = Fold[n], Slug[n] = id
        PROVE  FALSE
    <2>1. Slug[g.name] = id
      BY <1>2, <1>3, AccountsAssumption DEF AccountsAssumption
    <2>2. id # NoSlug
      BY AccountsAssumption DEF AccountsAssumption
    <2> QED BY <2>1, <2>2 DEF SlugsAreTaken
  <1>4. \A g \in groups : Fold[g.name] # Fold[n] /\ g.id # id
    BY <1>3
  <1>5. OneGroupPerName'
    BY <1>1, <1>4 DEF OneGroupPerName
  <1>6. SlugsAreTaken'
    BY <1>1 DEF SlugsAreTaken
  <1> QED BY <1>1, <1>5, <1>6

(* The demo groups come with the ids that their names are slugified to.       *)
LEMMA DemoGroupsSeeded ==
  ASSUME OneGroupPerName, SlugsAreTaken, groups \subseteq Groups, groups' = SeededGroups
  PROVE  groups' \subseteq Groups /\ OneGroupPerName' /\ SlugsAreTaken'
PROOF
  <1> DEFINE new == {g \in DemoGroups : \A h \in groups : h.id # g.id /\ h.name # g.name}
  <1>1. groups' = groups \union new
    BY DEF SeededGroups
  <1>2. /\ DemoGroups \subseteq Groups
        /\ \A g \in DemoGroups : Slug[g.name] = g.id /\ g.id # NoSlug /\ g.name \in Names
        /\ \A g, h \in DemoGroups : g.id = h.id => g = h
        /\ \A m, n \in Names : Fold[m] = Fold[n] => Slug[m] = Slug[n]
    BY AccountsAssumption DEF AccountsAssumption, Groups
  <1>3. \A g \in groups : g.name \in Names
    BY DEF Groups
  <1>4. ASSUME NEW g \in new, NEW h \in groups
        PROVE  g.id # h.id /\ Fold[g.name] # Fold[h.name]
    <2>1. g.id # h.id
      OBVIOUS
    <2>2. ASSUME Fold[g.name] = Fold[h.name] PROVE FALSE
      <3>1. Slug[h.name] = g.id
        BY <1>2, <1>3, <2>2
      <3>2. PICK k \in groups : k.id = g.id
        BY <1>2, <3>1 DEF SlugsAreTaken
      <3> QED BY <3>2
    <2> QED BY <2>1, <2>2
  <1>5. \A g, h \in new : Fold[g.name] = Fold[h.name] \/ g.id = h.id => g = h
    BY <1>2
  <1>6. OneGroupPerName'
    <2> HIDE DEF new
    <2> QED BY <1>1, <1>4, <1>5 DEF OneGroupPerName
  <1>7. SlugsAreTaken'
    BY <1>1, <1>2 DEF SlugsAreTaken
  <1> QED BY <1>1, <1>2, <1>6, <1>7

LEMMA GroupInit == Init => GroupInv
PROOF
  <1> SUFFICES ASSUME Init PROVE GroupInv
    OBVIOUS
  <1>1. /\ DemoGroups \subseteq Groups
        /\ \A g \in DemoGroups : Slug[g.name] = g.id /\ g.name \in Names
        /\ \A g, h \in DemoGroups : g.id = h.id => g = h
        /\ \A m, n \in Names : Fold[m] = Fold[n] => Slug[m] = Slug[n]
    BY AccountsAssumption DEF AccountsAssumption, Groups
  <1>2. groups = {} \/ groups = DemoGroups
    BY DEF Init
  <1>3. GroupTypes
    BY <1>1, <1>2 DEF GroupTypes, Init, Idle, Requests, Places
  <1>4. OneGroupPerName
    BY <1>1, <1>2 DEF OneGroupPerName
  <1>5. SlugsAreTaken
    BY <1>1, <1>2 DEF SlugsAreTaken
  <1> QED BY <1>3, <1>4, <1>5 DEF GroupInv

(* A step that leaves the groups alone.                                       *)
LEMMA GroupsUntouched ==
  ASSUME GroupInv, UNCHANGED groups, req' \in [Browsers -> Requests],
         \A b \in Browsers : req'[b].at \in {"find", "insert"} => req'[b].name \in Names
  PROVE  GroupInv'
PROOF BY DEF GroupInv, GroupTypes, OneGroupPerName, SlugsAreTaken

(* A request that is asked, or goes on.                                       *)
LEMMA GroupRequest ==
  ASSUME GroupInv, NEW b \in Browsers, Request(b)
  PROVE  GroupInv'
PROOF
  <1> USE DEF acctVars, storeVars, GroupInv, GroupTypes
  <1>1. \A g \in groups : g.id \in GroupIds /\ g.name \in Names
    BY DEF Groups
  <1>2. ASSUME NEW g \in GroupIds, Got(b, g)
        PROVE  /\ req' \in [Browsers -> Requests]
               /\ \A c \in Browsers : req'[c].at \in {"find", "insert"} => req'[c].name \in Names
    <2>1. PICK at \in {"create", "member"} : req' = [req EXCEPT ![b].group = g, ![b].at = at]
      BY <1>2 DEF Got
    <2> QED BY <2>1 DEF Requests, Places
  <1>3. CASE AskRegister(b) \/ AskLogin(b) \/ AskJoin(b) \/ AskSwitch(b)
    <2>1. PICK op \in {"register", "login", "join", "switch"}, at \in Places,
               u \in Users, n \in Names \union {None}, g \in GroupIds \union {None} :
            /\ req' = [req EXCEPT ![b] = [op |-> op, at |-> at, user |-> u, name |-> n, group |-> g]]
            /\ at \in {"find", "insert"} => n \in Names
      BY <1>1, <1>3 DEF AskRegister, AskLogin, AskJoin, AskSwitch, Ask, LoggedIn, Accounts, Places
    <2>2. UNCHANGED groups
      BY <1>3 DEF AskRegister, AskLogin, AskJoin, AskSwitch
    <2> QED BY <2>1, <2>2, GroupsUntouched DEF Requests
  <1>4. CASE FindGroup(b)
    <2>1. /\ UNCHANGED groups /\ req[b].at = "find"
          /\ \/ \E g \in groups : Got(b, g.id)
             \/ Goto(b, "insert")
      BY <1>4 DEF FindGroup
    <2>2. CASE \E g \in groups : Got(b, g.id)
      BY <1>1, <1>2, <2>1, <2>2, GroupsUntouched
    <2>3. CASE Goto(b, "insert")
      <3>1. req' = [req EXCEPT ![b].at = "insert"]
        BY <2>3 DEF Goto
      <3>2. /\ req' \in [Browsers -> Requests]
            /\ \A c \in Browsers : req'[c].at \in {"find", "insert"} => req'[c].name \in Names
        BY <2>1, <3>1 DEF Requests, Places
      <3> QED BY <2>1, <3>2, GroupsUntouched
    <2> QED BY <2>1, <2>2, <2>3
  <1>5. CASE InsertGroup(b)
    <2> DEFINE n == req[b].name
    <2>1. n \in Names
      BY <1>5 DEF InsertGroup
    <2>2. PICK id \in GroupIds :
            /\ Got(b, id)
            /\ \/ UNCHANGED groups
               \/ /\ groups' = groups \union {[id |-> id, name |-> n]}
                  /\ \A g \in groups : g.id # id
                  /\ \/ Slug[n] = id
                     \/ /\ \A g \in groups : Fold[g.name] # Fold[n]
                        /\ Slug[n] = NoSlug \/ \E g \in groups : g.id = Slug[n]
      <3> DEFINE same  == {g \in groups : Fold[g.name] = Fold[n]}
                 taken == \E g \in groups : g.id = Slug[n] \/ g.name = n
                 free  == FreshIds \ {g.id : g \in groups}
                 Insert(id) == groups' = groups \union {[id |-> id, name |-> n]} /\ Got(b, id)
      <3>1. \/ ~taken /\ Slug[n] # NoSlug /\ Insert(Slug[n])
            \/ ~taken /\ Slug[n] = NoSlug /\ \E id \in free : Insert(id)
            \/ taken /\ \E g \in same : Got(b, g.id) /\ UNCHANGED groups
            \/ taken /\ same = {} /\ \E id \in free : Insert(id)
        BY <1>5 DEF InsertGroup
      <3>2. /\ Slug[n] \in Ids \union {NoSlug}
            /\ \A m \in Names : Fold[m] = Fold[n] /\ Slug[m] = NoSlug => m = n
            /\ \A m \in Names : Fold[m] = Fold[n] => Slug[m] = Slug[n]
        BY <2>1, AccountsAssumption DEF AccountsAssumption
      <3>3. CASE ~taken /\ Slug[n] # NoSlug /\ Insert(Slug[n])
        BY <3>2, <3>3 DEF GroupIds
      <3>4. CASE ~taken /\ Slug[n] = NoSlug /\ \E id \in free : Insert(id)
        <4>1. \A g \in groups : Fold[g.name] # Fold[n]
          BY <1>1, <3>2, <3>4
        <4> QED BY <3>4, <4>1 DEF GroupIds
      <3>5. CASE taken /\ \E g \in same : Got(b, g.id) /\ UNCHANGED groups
        BY <1>1, <3>5
      <3>6. CASE taken /\ same = {} /\ \E id \in free : Insert(id)
        <4>1. \A g \in groups : Fold[g.name] # Fold[n]
          BY <3>6
        <4>2. \E g \in groups : g.id = Slug[n]
          BY <3>6, <4>1
        <4> QED BY <3>6, <4>1, <4>2 DEF GroupIds
      <3> QED BY <3>1, <3>3, <3>4, <3>5, <3>6
    <2>3. /\ req' \in [Browsers -> Requests]
          /\ \A c \in Browsers : req'[c].at \in {"find", "insert"} => req'[c].name \in Names
      BY <1>2, <2>2
    <2>4. CASE UNCHANGED groups
      BY <2>3, <2>4, GroupsUntouched
    <2>5. CASE ~UNCHANGED groups
      <3>1. groups' \subseteq Groups /\ OneGroupPerName' /\ SlugsAreTaken'
        BY <2>1, <2>2, <2>5, GroupInserted
      <3> QED BY <2>3, <3>1
    <2> QED BY <2>4, <2>5
  <1>6. CASE CreateUser(b) \/ CreateSession(b) \/ JoinGroup(b) \/ CheckMembership(b) \/ SwitchGroup(b) \/ Logout(b)
    <2>1. /\ UNCHANGED groups
          /\ \/ UNCHANGED req
             \/ req' = [req EXCEPT ![b] = Idle]
             \/ \E at \in {"session", "check", "switch"} : req' = [req EXCEPT ![b].at = at]
      BY <1>6 DEF CreateUser, CreateSession, JoinGroup, CheckMembership, SwitchGroup, Logout, Done, Goto
    <2>2. req' \in [Browsers -> Requests]
      BY <2>1 DEF Requests, Places, Idle
    <2>3. \A c \in Browsers : req'[c].at \in {"find", "insert"} => req'[c].name \in Names
      BY <2>1 DEF Requests, Idle
    <2> QED BY <2>1, <2>2, <2>3, GroupsUntouched
  <1> QED BY <1>3, <1>4, <1>5, <1>6 DEF Request

LEMMA GroupNext == GroupInv /\ [Next]_vars => GroupInv'
PROOF
  <1> SUFFICES ASSUME GroupInv, [Next]_vars PROVE GroupInv'
    OBVIOUS
  <1> USE DEF acctVars, storeVars, GroupInv, GroupTypes
  <1>1. CASE \E b \in Browsers : Request(b)
    BY <1>1, GroupRequest
  <1>2. CASE UpdateAccounts
    <2>1. groups' = SeededGroups /\ UNCHANGED req
      BY <1>2 DEF UpdateAccounts
    <2> QED BY <2>1, DemoGroupsSeeded
  <1>3. CASE StartSchema \/ CreateCopy \/ FillCopy \/ DropOld \/ RenameCopy \/ UNCHANGED vars
    <2>1. UNCHANGED <<groups, req>>
      BY <1>3 DEF StartSchema, CreateCopy, FillCopy, DropOld, RenameCopy, SkipBoot, vars
    <2> QED BY <2>1, GroupsUntouched
  <1>4. CASE Stop
    BY <1>4, GroupsUntouched DEF Stop, Idle, Requests, Places
  <1> QED BY <1>1, <1>2, <1>3, <1>4 DEF Next, Start

(* Whatever requests create groups at once, in whatever spelling, and         *)
(* whatever an earlier start seeded, no two groups share an id or a name.     *)
THEOREM NamesAreGroups == Spec => []OneGroupPerName
PROOF
  <1>1. GroupInv => OneGroupPerName
    BY DEF GroupInv
  <1> QED BY <1>1, GroupInit, GroupNext, PTL DEF Spec

-----------------------------------------------------------------------------
(* The rebuild of table diffs: the old table is dropped only when its copy is *)
(* full, and an old table has its rows.                                       *)
RowsInv ==
  /\ RowsAreSomewhere
  /\ diffs \in [main : {"none", "old", "new"}, copy : {"none", "empty", "full"}, rows : BOOLEAN]
  /\ boot \in {"drop", "rename"} => diffs.copy = "full"
  /\ boot \in {"create", "fill"} => diffs.main = "old"
  /\ diffs.main = "old" => diffs.rows

LEMMA RowsInit == Init => RowsInv
PROOF
  <1> SUFFICES ASSUME Init PROVE RowsInv
    OBVIOUS
  <1>1. PICK m \in {"old", "new"} : diffs = [main |-> m, copy |-> "none", rows |-> TRUE]
    BY DEF Init
  <1>2. boot = "down"
    BY DEF Init
  <1> QED BY <1>1, <1>2 DEF RowsInv, RowsAreSomewhere

LEMMA RowsNext == RowsInv /\ [Next]_vars => RowsInv'
PROOF
  <1> SUFFICES ASSUME RowsInv, [Next]_vars PROVE RowsInv'
    OBVIOUS
  <1> USE DEF RowsInv, RowsAreSomewhere
  <1>1. ASSUME NEW b \in Browsers, Request(b) PROVE UNCHANGED storeVars
    BY <1>1 DEF Request, AskRegister, AskLogin, AskJoin, AskSwitch, FindGroup, InsertGroup, CreateUser,
                CreateSession, JoinGroup, CheckMembership, SwitchGroup, Logout, storeVars
  <1>2. CASE UNCHANGED storeVars
    BY <1>2 DEF storeVars
  <1>3. CASE StartSchema
    BY <1>3 DEF StartSchema
  <1>4. CASE CreateCopy
    BY <1>4 DEF CreateCopy
  <1>5. CASE FillCopy \/ DropOld
    BY <1>5 DEF FillCopy, DropOld
  <1>6. CASE RenameCopy
    BY <1>6 DEF RenameCopy
  <1>7. CASE UpdateAccounts \/ Stop
    BY <1>7 DEF UpdateAccounts, Stop
  <1> QED BY <1>1, <1>2, <1>3, <1>4, <1>5, <1>6, <1>7 DEF Next, Start, vars, storeVars

(* A start may be killed between any two statements of the rebuild: the old   *)
(* rows are in the table or in its copy.                                      *)
THEOREM RowsAreKept == Spec => []RowsAreSomewhere
PROOF
  <1>1. RowsInv => RowsAreSomewhere
    BY DEF RowsInv
  <1> QED BY <1>1, RowsInit, RowsNext, PTL DEF Spec

-----------------------------------------------------------------------------
(* Induction on the natural numbers, as a fact about sets: a set of them that *)
(* is not empty has a least element, and one that has 0 and the successor of  *)
(* each of its elements has them all.                                         *)
Less == {p \in Nat \X Nat : p[1] < p[2]}

LEMMA LessIsWellFounded == IsWellFoundedOn(Less, Nat)
PROOF
  <1>1. OpToRel(<, Nat) = Less
    BY Zenon DEF OpToRel, Less
  <1> QED BY <1>1, NatLessThanWellFounded, Zenon

LEMMA LeastElement ==
  ASSUME NEW T \in SUBSET Nat, T # {}
  PROVE  \E x \in T : \A y \in T : x <= y
PROOF
  <1>1. PICK x \in T : \A y \in T : ~(<<y, x>> \in Less)
    BY LessIsWellFounded, WFMin
  <1>2. ASSUME NEW y \in T, y < x PROVE <<y, x>> \in Less
    <2> DEFINE p == <<y, x>>
    <2>1. p[1] = y /\ p[2] = x /\ p \in Nat \X Nat
      OBVIOUS
    <2> HIDE DEF p
    <2>2. p \in Less
      BY <1>2, <2>1 DEF Less
    <2> QED BY <2>2 DEF p
  <1>3. \A y \in T : ~(y < x)
    BY <1>1, <1>2, Zenon
  <1> QED BY <1>3

LEMMA EveryNumber ==
  ASSUME NEW S, 0 \in S, \A n \in Nat : n \in S => n + 1 \in S
  PROVE  Nat \subseteq S
PROOF
  <1> SUFFICES ASSUME NEW k \in Nat \ S PROVE FALSE
    OBVIOUS
  <1>1. PICK x \in Nat \ S : \A y \in Nat \ S : x <= y
    BY LeastElement
  <1>2. x # 0 /\ x - 1 \in Nat /\ ~(x <= x - 1)
    BY <1>1
  <1>3. x - 1 \in S
    BY <1>1, <1>2
  <1> QED BY <1>1, <1>2, <1>3

-----------------------------------------------------------------------------
(* The accounts. *)
Known     == {g.id : g \in groups}
DemoIds   == {g.id : g \in DemoGroups}
Sessions  == {NoSession} \union [user : Users, active : GroupIds \union {None}]
AllTables ==
  [last : [Users -> GroupIds \union {None}], members : SUBSET (Users \X GroupIds),
   session : [Browsers -> Sessions], owner : [Users -> Users]]

(* The tables fit together: who has a membership or a session has an account, *)
(* groups of memberships are known, last groups will be, and a session that   *)
(* chose a group is of a member.                                              *)
Fits(t, known) ==
  /\ t \in AllTables
  /\ \A m \in t.members : t.last[m[1]] # None /\ m[2] \in known
  /\ \A u \in Users : t.last[u] # None => t.last[u] \in known \union DemoIds
  /\ \A b \in Browsers : t.session[b] # NoSession =>
       /\ t.last[t.session[b].user] # None
       /\ t.session[b].active # None => <<t.session[b].user, t.session[b].active>> \in t.members

(* Between its transactions a request knows a group that is there, and acts   *)
(* for an account, which is the one of its browser's session if that is there.*)
RequestFits(b) ==
  /\ req[b].at # "idle" => boot = "up" /\ req[b].user \in Users
  /\ req[b].at \in {"find", "insert"} => req[b].op \in {"register", "join"}
  /\ req[b].at = "create" => req[b].op = "register"
  /\ req[b].at \in {"member", "check", "switch"} => req[b].op \in {"join", "switch"}
  /\ req[b].at \in {"create", "member", "check", "switch"} => req[b].group \in Known
  /\ req[b].at # "idle" /\ (req[b].at = "session" \/ req[b].op \in {"join", "switch"}) =>
       req[b].user \in Accounts
  /\ req[b].at # "idle" /\ req[b].op \in {"join", "switch"} /\ session[b] # NoSession =>
       session[b].user = req[b].user
  /\ req[b].at = "switch" => <<req[b].user, req[b].group>> \in members

(* While the service serves, every account is a member somewhere.             *)
AccountsFit ==
  /\ Fits(Tables, Known)
  /\ \A b \in Browsers : RequestFits(b)
  /\ boot = "up" => \A u \in Accounts : \E g \in GroupIds : <<u, g>> \in members

-----------------------------------------------------------------------------
(* The renames are a recursion over the list: after each hop the tables are   *)
(* what the hop makes of those before it.                                     *)
LEMMA HopsFollow ==
  ASSUME NEW t
  PROVE  /\ Len(Renames) \in Nat
         /\ Hops(t)[0] = t
         /\ \A i \in 1 .. Len(Renames) : Hops(t)[i] = Hop(Hops(t)[i - 1], Renames[i])
PROOF
  <1> DEFINE n == Len(Renames)
             Is(g, m) == g = [i \in 0 .. m |-> IF i = 0 THEN t ELSE Hop(g[i - 1], Renames[i])]
             S == {m \in Nat : \E g : Is(g, m)}
  <1>1. n \in Nat
    BY AccountsAssumption DEF AccountsAssumption
  <1>2. 0 \in S
    <2>1. Is([i \in 0 .. 0 |-> t], 0)
      OBVIOUS
    <2> QED BY <2>1
  <1>3. ASSUME NEW m \in Nat, m \in S PROVE m + 1 \in S
    <2>1. PICK g : Is(g, m)
      BY <1>3
    <2> DEFINE h == [i \in 0 .. (m + 1) |-> IF i = m + 1 THEN Hop(g[m], Renames[i]) ELSE g[i]]
    <2>2. Is(h, m + 1)
      <3> SUFFICES ASSUME NEW i \in 0 .. (m + 1)
                   PROVE  h[i] = IF i = 0 THEN t ELSE Hop(h[i - 1], Renames[i])
        OBVIOUS
      <3> QED BY <2>1
    <2> HIDE DEF h, Is
    <2>3. \E x : Is(x, m + 1)
      BY <2>2
    <2> QED BY <2>3
  <1> HIDE DEF S
  <1>4. n \in S
    BY <1>1, <1>2, <1>3, EveryNumber
  <1>5. Is(Hops(t), n)
    BY <1>4 DEF S, Hops
  <1> QED BY <1>1, <1>5

(* What holds before the first hop, and after a hop when it held before it,   *)
(* holds after all.                                                           *)
LEMMA AfterTheHops ==
  ASSUME NEW F, NEW t \in F[0],
         \A i \in 1 .. Len(Renames) : \A s \in F[i - 1] : Hop(s, Renames[i]) \in F[i]
  PROVE  Renamed(t) \in F[Len(Renames)]
PROOF
  <1> DEFINE n == Len(Renames)
             S == {m \in Nat : m <= n => Hops(t)[m] \in F[m]}
  <1>1. n \in Nat
    BY HopsFollow
  <1>2. 0 \in S
    BY HopsFollow
  <1>3. ASSUME NEW m \in Nat, m \in S, m + 1 <= n PROVE Hops(t)[m + 1] \in F[m + 1]
    <2>1. m + 1 \in 1 .. n /\ (m + 1) - 1 = m /\ m <= n
      BY <1>1, <1>3
    <2>2. Hops(t)[m + 1] = Hop(Hops(t)[m], Renames[m + 1])
      BY <2>1, HopsFollow
    <2> QED BY <1>3, <2>1, <2>2
  <1>4. \A m \in Nat : m \in S => m + 1 \in S
    BY <1>3
  <1> HIDE DEF S
  <1>5. n \in S
    BY <1>1, <1>2, <1>4, EveryNumber
  <1> QED BY <1>1, <1>5 DEF S, Renamed

(* The hops of the list go from a name to another.                            *)
LEMMA RenamesAreHops ==
  ASSUME NEW i \in 1 .. Len(Renames)
  PROVE  /\ Renames[i] = <<Renames[i][1], Renames[i][2]>>
         /\ Renames[i][1] \in Users /\ Renames[i][2] \in Users
         /\ Renames[i][1] # Renames[i][2]
         /\ Current[Renames[i][1]] = Current[Renames[i][2]]
PROOF
  <1>1. Renames \in Seq(Users \X Users)
    BY AccountsAssumption DEF AccountsAssumption
  <1>2. Renames[i] \in Users \X Users
    BY <1>1
  <1> QED BY <1>2, RenamesAssumption DEF RenamesAssumption

(* The three things a hop does: nothing, dropping an account whose new name   *)
(* is taken, moving its rows.                                                 *)
Moved(u, old, new) == IF u = old THEN new ELSE u
HopMakes(s, t, old, new) ==
  /\ s \in AllTables
  /\ t.last[old] = None => s = t
  /\ t.last[old] # None /\ t.last[new] # None =>
       /\ s.last = [t.last EXCEPT ![old] = None]
       /\ s.members = {m \in t.members : m[1] # old}
       /\ \A b \in Browsers : s.session[b] = IF t.session[b].user = old THEN NoSession
                                             ELSE t.session[b]
       /\ s.owner = t.owner
  /\ t.last[old] # None /\ t.last[new] = None =>
       /\ s.last = [t.last EXCEPT ![new] = t.last[old], ![old] = None]
       /\ s.members = {<<Moved(m[1], old, new), m[2]>> : m \in t.members}
       /\ \A b \in Browsers :
            s.session[b] = [t.session[b] EXCEPT !.user = Moved(t.session[b].user, old, new)]
       /\ \A j \in Users : s.owner[j] = Moved(t.owner[j], old, new)

LEMMA HopDoes ==
  ASSUME NEW t \in AllTables, NEW old \in Users, NEW new \in Users, old # new, NEW pair,
         pair[1] = old, pair[2] = new
  PROVE  HopMakes(Hop(t, pair), t, old, new)
PROOF
  <1> DEFINE s == Hop(t, pair)
             moved(u) == Moved(u, old, new)
  <1> USE DEF Moved
  <1>1. /\ t = [last |-> t.last, members |-> t.members, session |-> t.session, owner |-> t.owner]
        /\ t.last \in [Users -> GroupIds \union {None}] /\ t.members \in SUBSET (Users \X GroupIds)
        /\ t.session \in [Browsers -> Sessions] /\ t.owner \in [Users -> Users]
    BY DEF AllTables
  <1>2. CASE t.last[old] = None
    BY <1>2 DEF Hop, HopMakes
  <1>3. CASE t.last[old] # None /\ t.last[new] # None
    <2>1. s = [last |-> [t.last EXCEPT ![old] = None],
               members |-> {m \in t.members : m[1] # old},
               session |-> [b \in Browsers |-> IF t.session[b].user = old THEN NoSession
                                               ELSE t.session[b]],
               owner |-> t.owner]
      BY <1>1, <1>3 DEF Hop
    <2>2. [b \in Browsers |-> IF t.session[b].user = old THEN NoSession ELSE t.session[b]]
            \in [Browsers -> Sessions]
      BY <1>1 DEF Sessions
    <2> QED BY <1>1, <1>3, <2>1, <2>2 DEF AllTables, HopMakes
  <1>4. CASE t.last[old] # None /\ t.last[new] = None
    <2> DEFINE rows == {<<moved(m[1]), m[2]>> : m \in t.members}
               sess == [b \in Browsers |-> [t.session[b] EXCEPT !.user = moved(@)]]
               own  == [j \in Users |-> moved(t.owner[j])]
    <2>1. s = [last |-> [t.last EXCEPT ![new] = t.last[old], ![old] = None],
               members |-> rows, session |-> sess, owner |-> own]
      BY <1>1, <1>4 DEF Hop
    <2>2. sess \in [Browsers -> Sessions]
      <3>1. None \notin Users
        BY AccountsAssumption DEF AccountsAssumption
      <3>2. ASSUME NEW b \in Browsers PROVE [t.session[b] EXCEPT !.user = moved(@)] \in Sessions
        <4>1. CASE t.session[b] = NoSession
          BY <3>1, <4>1 DEF Sessions, NoSession
        <4>2. CASE t.session[b] \in [user : Users, active : GroupIds \union {None}]
          BY <4>2 DEF Sessions
        <4> QED BY <1>1, <4>1, <4>2 DEF Sessions
      <3> QED BY <3>2
    <2>3. rows \in SUBSET (Users \X GroupIds) /\ own \in [Users -> Users]
      BY <1>1
    <2>4. [t.last EXCEPT ![new] = t.last[old], ![old] = None] \in [Users -> GroupIds \union {None}]
      BY <1>1
    <2> QED BY <1>4, <2>1, <2>2, <2>3, <2>4 DEF AllTables, HopMakes
  <1> QED BY <1>2, <1>3, <1>4

(* A hop leaves tables that fit.                                              *)
LEMMA HopFits ==
  ASSUME NEW known, NEW t, Fits(t, known), NEW i \in 1 .. Len(Renames)
  PROVE  Fits(Hop(t, Renames[i]), known)
PROOF
  <1>1. PICK old \in Users, new \in Users :
          Renames[i][1] = old /\ Renames[i][2] = new /\ old # new
    BY RenamesAreHops
  <1> DEFINE s == Hop(t, Renames[i])
             moved(u) == Moved(u, old, new)
  <1>2. t \in AllTables
    BY DEF Fits
  <1>3. HopMakes(s, t, old, new)
    BY <1>1, <1>2, HopDoes
  <1>4. /\ t.last \in [Users -> GroupIds \union {None}] /\ t.members \in SUBSET (Users \X GroupIds)
        /\ t.session \in [Browsers -> Sessions]
        /\ None \notin Users
    BY <1>2, AccountsAssumption DEF AllTables, AccountsAssumption
  <1>5. /\ \A m \in t.members : t.last[m[1]] # None /\ m[2] \in known
        /\ \A u \in Users : t.last[u] # None => t.last[u] \in known \union DemoIds
        /\ \A b \in Browsers : t.session[b] # NoSession =>
             /\ t.session[b].user \in Users
             /\ t.last[t.session[b].user] # None
             /\ t.session[b].active # None => <<t.session[b].user, t.session[b].active>> \in t.members
    BY <1>4 DEF Fits, Sessions
  <1> HIDE DEF s
  <1> USE DEF HopMakes, Moved
  <1>6. CASE t.last[old] = None
    BY <1>3, <1>6 DEF s
  <1>7. CASE t.last[old] # None /\ t.last[new] # None
    BY <1>1, <1>3, <1>4, <1>5, <1>7 DEF Fits, s
  <1>8. CASE t.last[old] # None /\ t.last[new] = None
    <2>1. \A m \in s.members : s.last[m[1]] # None /\ m[2] \in known
      BY <1>1, <1>3, <1>4, <1>5, <1>8
    <2>2. \A u \in Users : s.last[u] # None => s.last[u] \in known \union DemoIds
      BY <1>1, <1>3, <1>4, <1>5, <1>8
    <2>3. ASSUME NEW b \in Browsers, s.session[b] # NoSession
          PROVE  /\ s.last[s.session[b].user] # None
                 /\ s.session[b].active # None =>
                      <<s.session[b].user, s.session[b].active>> \in s.members
      <3>1. s.session[b] = [t.session[b] EXCEPT !.user = moved(@)]
        BY <1>3, <1>8
      <3>2. t.session[b] # NoSession
        <4>1. ASSUME t.session[b] = NoSession PROVE FALSE
          BY <1>1, <1>4, <2>3, <3>1, <4>1 DEF NoSession
        <4> QED BY <4>1
      <3>3. s.session[b].user = moved(t.session[b].user) /\ s.session[b].active = t.session[b].active
        BY <1>4, <3>1, <3>2 DEF Sessions
      <3> DEFINE u == t.session[b].user
                 g == t.session[b].active
      <3>4. u \in Users /\ t.last[u] # None /\ (g # None => <<u, g>> \in t.members)
        BY <1>5, <3>2
      <3>5. <<u, g>> \in t.members => <<moved(u), g>> \in s.members
        BY <1>3, <1>8
      <3>6. s.last[moved(u)] # None
        BY <1>1, <1>3, <1>4, <1>8, <3>4
      <3> QED BY <3>3, <3>4, <3>5, <3>6
    <2> QED BY <1>3, <2>1, <2>2, <2>3 DEF Fits, s
  <1> QED BY <1>6, <1>7, <1>8

(* All hops together.                                                         *)
LEMMA RenamedFits ==
  ASSUME NEW known, NEW t, Fits(t, known)
  PROVE  Fits(Renamed(t), known)
PROOF
  <1> DEFINE F == [i \in 0 .. Len(Renames) |-> {s \in AllTables : Fits(s, known)}]
  <1>1. Len(Renames) \in Nat
    BY HopsFollow
  <1>2. t \in F[0]
    BY <1>1 DEF Fits
  <1>3. ASSUME NEW i \in 1 .. Len(Renames), NEW s \in F[i - 1] PROVE Hop(s, Renames[i]) \in F[i]
    <2>1. i - 1 \in 0 .. Len(Renames) /\ i \in 0 .. Len(Renames)
      BY <1>1
    <2>2. Fits(s, known)
      BY <1>3, <2>1
    <2>3. Fits(Hop(s, Renames[i]), known)
      BY <2>2, HopFits
    <2> QED BY <2>1, <2>3 DEF Fits
  <1> HIDE DEF F
  <1>4. Renamed(t) \in F[Len(Renames)]
    BY <1>2, <1>3, AfterTheHops
  <1> QED BY <1>1, <1>4 DEF F

(* Tables of which two, or one, are replaced.                                 *)
LEMMA TablesReplaced ==
  ASSUME NEW r \in AllTables, NEW l, NEW m
  PROVE  /\ [r EXCEPT !.last = l, !.members = m] =
              [last |-> l, members |-> m, session |-> r.session, owner |-> r.owner]
         /\ [r EXCEPT !.members = m] =
              [last |-> r.last, members |-> m, session |-> r.session, owner |-> r.owner]
PROOF
  <1>1. r = [last |-> r.last, members |-> r.members, session |-> r.session, owner |-> r.owner]
    BY DEF AllTables
  <1> DEFINE q == [r EXCEPT !.last = l]
  <1>2. q = [last |-> l, members |-> r.members, session |-> r.session, owner |-> r.owner]
    BY DEF AllTables
  <1>3. [r EXCEPT !.last = l, !.members = m] = [q EXCEPT !.members = m]
    BY DEF AllTables
  <1> HIDE DEF q
  <1>4. [q EXCEPT !.members = m] =
              [last |-> l, members |-> m, session |-> r.session, owner |-> r.owner]
    BY <1>2
  <1>5. [r EXCEPT !.members = m] =
              [last |-> r.last, members |-> m, session |-> r.session, owner |-> r.owner]
    BY <1>1
  <1> QED BY <1>3, <1>4, <1>5, Zenon

(* The demo data and the backfill only add, and leave every account a member  *)
(* of a group that is known by then.                                          *)
LEMMA SeededFits ==
  ASSUME NEW known, NEW r, Fits(r, known),
         NEW more, known \subseteq more, DemoIds \subseteq more, more \subseteq GroupIds
  PROVE  LET t == Backfilled(Seeded(r))
         IN  /\ Fits(t, more)
             /\ \A u \in Users : t.last[u] # None => \E g \in GroupIds : <<u, g>> \in t.members
             /\ r.members \subseteq t.members /\ t.session = r.session /\ t.owner = r.owner
             /\ \A u \in Users : t.last[u] # None <=> r.last[u] # None \/ u \in DOMAIN DemoUsers
PROOF
  <1> DEFINE s == Seeded(r)
             t == Backfilled(s)
             demo == {m \in Users \X GroupIds :
                        m[1] \in DOMAIN DemoUsers /\ m[2] \in DemoUsers[m[1]]}
             lone == {v \in Users : s.last[v] # None /\ \A m \in s.members : m[1] # v}
  <1>1. /\ DOMAIN DemoUsers \subseteq Users
        /\ \A u \in DOMAIN DemoUsers : DemoHome[u] \in DemoIds /\ DemoUsers[u] \subseteq DemoIds
        /\ None \notin GroupIds /\ None \notin Users
    BY AccountsAssumption DEF AccountsAssumption, DemoIds
  <1>2. /\ r \in AllTables
        /\ r = [last |-> r.last, members |-> r.members, session |-> r.session, owner |-> r.owner]
        /\ r.last \in [Users -> GroupIds \union {None}] /\ r.members \in SUBSET (Users \X GroupIds)
        /\ r.session \in [Browsers -> Sessions] /\ r.owner \in [Users -> Users]
    BY DEF Fits, AllTables
  <1>3. s = [last    |-> [u \in Users |-> IF r.last[u] = None /\ u \in DOMAIN DemoUsers
                                         THEN DemoHome[u] ELSE r.last[u]],
             members |-> r.members \union demo, session |-> r.session, owner |-> r.owner]
    BY <1>2, TablesReplaced, Zenon DEF Seeded
  <1>s. /\ s.last = [u \in Users |-> IF r.last[u] = None /\ u \in DOMAIN DemoUsers
                                    THEN DemoHome[u] ELSE r.last[u]]
        /\ s.members = r.members \union demo /\ s.session = r.session /\ s.owner = r.owner
    <2> HIDE DEF s, demo
    <2> QED BY <1>3
  <1> HIDE DEF s
  <1>4. t = [last |-> s.last, members |-> s.members \union {<<u, s.last[u]>> : u \in lone},
             session |-> s.session, owner |-> s.owner]
    <2>1. s \in AllTables
      <3>1. demo \subseteq Users \X GroupIds
        OBVIOUS
      <3>2. s.last \in [Users -> GroupIds \union {None}]
        BY <1>1, <1>2, <1>s DEF DemoIds
      <3> HIDE DEF demo
      <3> QED BY <1>2, <1>3, <1>s, <3>1, <3>2 DEF AllTables
    <2> QED BY <2>1, TablesReplaced, Zenon DEF Backfilled
  <1>t. /\ t.last = s.last /\ t.session = s.session /\ t.owner = s.owner
        /\ t.members = s.members \union {<<u, s.last[u]>> : u \in lone}
    <2> HIDE DEF t, lone
    <2> QED BY <1>4
  <1> HIDE DEF t
  <1>5. /\ \A u \in Users : s.last[u] \in GroupIds \union {None}
        /\ \A u \in Users : s.last[u] # None => s.last[u] \in more
        /\ \A u \in Users : s.last[u] # None <=> r.last[u] # None \/ u \in DOMAIN DemoUsers
    BY <1>1, <1>2, <1>s DEF Fits
  <1>6. \A m \in s.members : m \in Users \X GroupIds /\ s.last[m[1]] # None /\ m[2] \in more
    <2>1. ASSUME NEW m \in r.members
          PROVE  m \in Users \X GroupIds /\ s.last[m[1]] # None /\ m[2] \in more
      <3>1. m \in Users \X GroupIds /\ r.last[m[1]] # None /\ m[2] \in known
        BY <1>2 DEF Fits
      <3> QED BY <1>5, <3>1
    <2>2. ASSUME NEW m \in demo
          PROVE  m \in Users \X GroupIds /\ s.last[m[1]] # None /\ m[2] \in more
      BY <1>1, <1>5
    <2> QED BY <1>s, <2>1, <2>2
  <1>7. \A m \in t.members : m \in Users \X GroupIds /\ t.last[m[1]] # None /\ m[2] \in more
    <2>1. ASSUME NEW u \in lone
          PROVE  /\ <<u, s.last[u]>> \in Users \X GroupIds
                 /\ s.last[u] # None /\ s.last[u] \in more
      BY <1>5
    <2> HIDE DEF lone
    <2> QED BY <1>t, <1>6, <2>1
  <1>8. t \in AllTables
    <2>1. t.members \in SUBSET (Users \X GroupIds)
      BY <1>7
    <2>2. s.last \in [Users -> GroupIds \union {None}]
      BY <1>s, <1>5
    <2> QED BY <1>2, <1>s, <1>4, <1>t, <2>1, <2>2 DEF AllTables
  <1>9. Fits(t, more)
    <2>1. \A b \in Browsers : t.session[b] # NoSession =>
             /\ t.session[b].user \in Users
             /\ t.last[t.session[b].user] # None
             /\ t.session[b].active # None => <<t.session[b].user, t.session[b].active>> \in t.members
      BY <1>2, <1>s, <1>t, <1>5 DEF Fits, Sessions
    <2> QED BY <1>5, <1>7, <1>8, <1>t, <2>1 DEF Fits
  <1>10. ASSUME NEW u \in Users, t.last[u] # None PROVE \E g \in GroupIds : <<u, g>> \in t.members
    <2>1. CASE u \in lone
      BY <1>t, <1>5, <2>1
    <2>2. CASE u \notin lone
      <3>1. PICK m \in s.members : m[1] = u
        BY <1>t, <1>10, <2>2
      <3>2. m = <<u, m[2]>> /\ m[2] \in GroupIds
        BY <1>6, <3>1
      <3> QED BY <1>t, <3>1, <3>2
    <2> QED BY <2>1, <2>2
  <1>11. r.members \subseteq t.members /\ t.session = r.session /\ t.owner = r.owner
    BY <1>s, <1>t
  <1>12. \A u \in Users : t.last[u] # None <=> r.last[u] # None \/ u \in DOMAIN DemoUsers
    BY <1>t, <1>5
  <1> QED BY <1>9, <1>10, <1>11, <1>12 DEF s, t

-----------------------------------------------------------------------------
(* Groups are never deleted, and after a start every demo group is there: a   *)
(* name of one that is taken is of a group whose slug is taken too.           *)
LEMMA GroupsGrow == [Next]_vars => groups \subseteq groups'
PROOF
  <1> SUFFICES ASSUME [Next]_vars PROVE groups \subseteq groups'
    OBVIOUS
  <1>1. ASSUME NEW b \in Browsers, InsertGroup(b) PROVE groups \subseteq groups'
    BY <1>1 DEF InsertGroup
  <1>2. ASSUME NEW b \in Browsers, Request(b), ~InsertGroup(b) PROVE groups \subseteq groups'
    BY <1>2 DEF Request, AskRegister, AskLogin, AskJoin, AskSwitch, FindGroup, CreateUser,
                CreateSession, JoinGroup, CheckMembership, SwitchGroup, Logout, acctVars
  <1>3. CASE Start
    BY <1>3 DEF Start, StartSchema, CreateCopy, FillCopy, DropOld, RenameCopy, UpdateAccounts,
                SkipBoot, acctVars, SeededGroups
  <1>4. CASE Stop \/ UNCHANGED vars
    BY <1>4 DEF Stop, vars, acctVars
  <1> QED BY <1>1, <1>2, <1>3, <1>4 DEF Next

LEMMA DemoGroupsAreThere ==
  ASSUME GroupInv, groups' = SeededGroups
  PROVE  DemoIds \subseteq Known'
PROOF
  <1> SUFFICES ASSUME NEW g \in DemoGroups PROVE \E h \in groups' : h.id = g.id
    BY DEF DemoIds, Known
  <1>1. Slug[g.name] = g.id /\ g.id # NoSlug
    BY AccountsAssumption DEF AccountsAssumption, Groups
  <1>2. CASE \A h \in groups : h.id # g.id /\ h.name # g.name
    BY <1>2 DEF SeededGroups
  <1>3. CASE \E h \in groups : h.id = g.id
    BY <1>3 DEF SeededGroups
  <1>4. CASE \E h \in groups : h.name = g.name
    <2>1. \E h \in groups : h.id = g.id
      BY <1>1, <1>4 DEF GroupInv, SlugsAreTaken
    <2> QED BY <2>1, <1>3
  <1> QED BY <1>2, <1>3, <1>4

LEMMA AccountsInit == Init => AccountsFit
PROOF
  <1> SUFFICES ASSUME Init PROVE AccountsFit
    OBVIOUS
  <1>1. PICK old \in SUBSET Legacy, g \in DemoGroups :
          /\ last = [u \in Users |-> IF u \in old THEN g.id ELSE None]
          /\ members \in {{}, IF groups = {} THEN {} ELSE {<<u, g.id>> : u \in old}}
          /\ session \in [Browsers -> {NoSession} \union [user : old, active : {None}]]
    BY DEF Init
  <1>2. /\ groups = {} \/ groups = DemoGroups
        /\ owner = [u \in Users |-> u] /\ req = [b \in Browsers |-> Idle] /\ boot = "down"
    BY DEF Init
  <1>3. /\ g.id \in GroupIds /\ g.id \in DemoIds /\ old \subseteq Users
        /\ None \notin GroupIds /\ None \notin Users
    BY AccountsAssumption DEF AccountsAssumption, Groups, DemoIds
  <1>4. \A m \in members : m = <<m[1], g.id>> /\ m[1] \in old /\ groups = DemoGroups
    BY <1>1, <1>2
  <1>5. ASSUME NEW b \in Browsers
        PROVE  /\ session[b] \in Sessions
               /\ session[b] # NoSession => session[b].user \in old /\ session[b].active = None
    <2>1. session[b] = NoSession \/ session[b] \in [user : old, active : {None}]
      BY <1>1
    <2> QED BY <1>3, <2>1 DEF Sessions
  <1>6. Tables \in AllTables
    <2>1. last \in [Users -> GroupIds \union {None}] /\ owner \in [Users -> Users]
      BY <1>1, <1>2, <1>3
    <2>2. members \in SUBSET (Users \X GroupIds)
      BY <1>3, <1>4
    <2>3. session \in [Browsers -> Sessions]
      BY <1>1, <1>5
    <2> QED BY <2>1, <2>2, <2>3 DEF Tables, AllTables
  <1>7. Fits(Tables, Known)
    <2>1. \A m \in members : last[m[1]] # None /\ m[2] \in Known
      BY <1>1, <1>3, <1>4 DEF Known
    <2>2. \A u \in Users : last[u] # None => last[u] \in Known \union DemoIds
      BY <1>1, <1>3
    <2>3. \A b \in Browsers : session[b] # NoSession =>
            last[session[b].user] # None /\ session[b].active = None
      BY <1>1, <1>3, <1>5
    <2> QED BY <1>6, <2>1, <2>2, <2>3 DEF Fits, Tables
  <1>8. \A b \in Browsers : RequestFits(b)
    BY <1>2 DEF RequestFits, Idle
  <1> QED BY <1>2, <1>7, <1>8 DEF AccountsFit

(* The types of the tables, and what fits, variable by variable.              *)
VariablesFit ==
  /\ last \in [Users -> GroupIds \union {None}] /\ members \in SUBSET (Users \X GroupIds)
  /\ session \in [Browsers -> Sessions] /\ owner \in [Users -> Users]
  /\ \A m \in members : last[m[1]] # None /\ m[2] \in Known
  /\ \A u \in Users : last[u] # None => last[u] \in Known \union DemoIds
  /\ \A b \in Browsers : session[b] # NoSession =>
       /\ last[session[b].user] # None
       /\ session[b].active # None => <<session[b].user, session[b].active>> \in members

LEMMA TablesFit == Fits(Tables, Known) <=> VariablesFit
PROOF
  <1>1. Tables \in AllTables <=>
          /\ last \in [Users -> GroupIds \union {None}] /\ members \in SUBSET (Users \X GroupIds)
          /\ session \in [Browsers -> Sessions] /\ owner \in [Users -> Users]
    BY DEF Tables, AllTables
  <1>2. /\ Tables.last = last /\ Tables.members = members
        /\ Tables.session = session /\ Tables.owner = owner
    BY DEF Tables
  <1> QED BY <1>1, <1>2 DEF Fits, VariablesFit

(* A step of one browser's request: what the others know stays true, because  *)
(* groups, accounts and memberships are only added while the service serves.  *)
LEMMA RequestStep ==
  ASSUME AccountsFit, NEW b \in Browsers, VariablesFit', RequestFits(b)',
         \A c \in Browsers \ {b} : req'[c] = req[c] /\ session'[c] = session[c],
         boot' = boot, groups \subseteq groups', members \subseteq members',
         Accounts \subseteq Accounts',
         \A u \in Accounts' : u \in Accounts \/ \E g \in GroupIds : <<u, g>> \in members'
  PROVE  AccountsFit'
PROOF
  <1>1. Known \subseteq Known'
    BY DEF Known
  <1>2. ASSUME NEW c \in Browsers \ {b} PROVE RequestFits(c)'
    <2>1. RequestFits(c)
      BY DEF AccountsFit
    <2> QED BY <1>1, <2>1 DEF RequestFits
  <1>3. Fits(Tables, Known)'
    <2>1. VariablesFit' => Fits(Tables, Known)'
      BY TablesFit, PTL
    <2> QED BY <2>1
  <1>4. boot' = "up" => \A u \in Accounts' : \E g \in GroupIds : <<u, g>> \in members'
    BY DEF AccountsFit
  <1> QED BY <1>2, <1>3, <1>4 DEF AccountsFit

(* A request goes on: its place and perhaps its group change, the tables do   *)
(* not.                                                                       *)
LEMMA RequestMoves ==
  ASSUME AccountsFit, NEW b \in Browsers, RequestFits(b)',
         \A c \in Browsers \ {b} : req'[c] = req[c],
         UNCHANGED <<last, members, session, owner, boot>>, groups \subseteq groups'
  PROVE  AccountsFit'
PROOF
  <1>1. VariablesFit
    BY TablesFit DEF AccountsFit
  <1>2. VariablesFit'
    <2>1. Known \subseteq Known'
      BY DEF Known
    <2> QED BY <1>1, <2>1 DEF VariablesFit
  <1>3. Accounts' = Accounts
    BY DEF Accounts
  <1> QED BY <1>2, <1>3, RequestStep

LEMMA AccountsRequest ==
  ASSUME GroupInv, AccountsFit, NEW b \in Browsers, Request(b)
  PROVE  AccountsFit'
PROOF
  <1>1. /\ req \in [Browsers -> Requests] /\ groups \subseteq Groups
        /\ \A g \in groups : g.id \in GroupIds /\ g.id \in Known
    BY DEF GroupInv, GroupTypes, Groups, Known
  <1>2. VariablesFit /\ RequestFits(b)
    BY TablesFit DEF AccountsFit
  <1>3. None \notin GroupIds /\ None \notin Users
    BY AccountsAssumption DEF AccountsAssumption
  <1>4. groups \subseteq groups'
    <2>1. [Next]_vars
      BY DEF Next
    <2> QED BY <2>1, GroupsGrow
  <1>5. Known \subseteq Known'
    BY <1>4 DEF Known
  <1> USE DEF acctVars, storeVars
  <1>6. CASE AskRegister(b) \/ AskLogin(b) \/ AskJoin(b) \/ AskSwitch(b)
    <2>1. /\ UNCHANGED <<acctVars, storeVars>> /\ boot = "up"
          /\ \A c \in Browsers \ {b} : req'[c] = req[c]
      BY <1>1, <1>6 DEF AskRegister, AskLogin, AskJoin, AskSwitch, Ask
    <2>2. Known' = Known /\ Accounts' = Accounts
      BY <2>1 DEF Known, Accounts
    <2>3. CASE AskRegister(b)
      <3>1. PICK u \in Users, n \in Names \union {None}, g \in Known \union {None}, at \in {"find", "create"} :
              /\ req'[b] = [op |-> "register", at |-> at, user |-> u, name |-> n, group |-> g]
              /\ at = "create" => g \in Known
        BY <1>1, <2>3 DEF AskRegister, Ask
      <3>2. RequestFits(b)'
        BY <2>1, <2>2, <3>1 DEF RequestFits
      <3> QED BY <2>1, <3>2, RequestMoves
    <2>4. CASE AskLogin(b)
      <3>1. PICK u \in Accounts :
              req'[b] = [op |-> "login", at |-> "session", user |-> u, name |-> None, group |-> None]
        BY <1>1, <2>4 DEF AskLogin, Ask
      <3>2. RequestFits(b)'
        BY <2>1, <2>2, <3>1 DEF RequestFits, Accounts
      <3> QED BY <2>1, <3>2, RequestMoves
    <2>5. CASE AskJoin(b) \/ AskSwitch(b)
      <3>1. PICK op \in {"join", "switch"}, n \in Names \union {None}, g \in Known \union {None},
                 at \in {"find", "member", "check"} :
              /\ req'[b] = [op |-> op, at |-> at, user |-> session[b].user, name |-> n, group |-> g]
              /\ at # "find" => g \in Known
              /\ at = "find" => op = "join"
              /\ session[b].user \in Accounts
        BY <1>1, <2>5 DEF AskJoin, AskSwitch, Ask, LoggedIn
      <3>2. RequestFits(b)'
        BY <2>1, <2>2, <3>1 DEF RequestFits, Accounts
      <3> QED BY <2>1, <3>2, RequestMoves
    <2> QED BY <1>6, <2>3, <2>4, <2>5
  <1>7. ASSUME NEW g \in Known', Got(b, g), req[b].at \in {"find", "insert"},
               UNCHANGED <<last, members, session, owner, boot>>
        PROVE  AccountsFit'
    <2>1. /\ req'[b].user = req[b].user /\ req'[b].op = req[b].op /\ req'[b].group = g
          /\ req'[b].at = IF req[b].op = "register" THEN "create" ELSE "member"
          /\ \A c \in Browsers \ {b} : req'[c] = req[c]
      BY <1>1, <1>7 DEF Got, Requests
    <2>2. Accounts' = Accounts
      BY <1>7 DEF Accounts
    <2>3. RequestFits(b)'
      BY <1>2, <1>7, <2>1, <2>2 DEF RequestFits
    <2> QED BY <1>4, <1>7, <2>1, <2>3, RequestMoves
  <1>8. CASE FindGroup(b)
    <2>1. /\ UNCHANGED <<acctVars, storeVars>> /\ req[b].at = "find"
          /\ \/ \E g \in groups : Got(b, g.id)
             \/ Goto(b, "insert")
      BY <1>8 DEF FindGroup
    <2>2. CASE \E g \in groups : Got(b, g.id)
      BY <1>1, <1>5, <1>7, <2>1, <2>2
    <2>3. CASE Goto(b, "insert")
      <3>1. /\ req'[b].user = req[b].user /\ req'[b].op = req[b].op /\ req'[b].at = "insert"
            /\ \A c \in Browsers \ {b} : req'[c] = req[c]
        BY <1>1, <2>3 DEF Goto, Requests
      <3>2. Accounts' = Accounts
        BY <2>1 DEF Accounts
      <3>3. RequestFits(b)'
        BY <1>2, <2>1, <3>1, <3>2 DEF RequestFits
      <3> QED BY <1>4, <2>1, <3>1, <3>3, RequestMoves
    <2> QED BY <2>1, <2>2, <2>3
  <1>9. CASE InsertGroup(b)
    <2>1. UNCHANGED <<last, members, session, owner, boot>> /\ req[b].at = "insert"
      BY <1>9 DEF InsertGroup
    <2>2. \E g \in Known' : Got(b, g)
      <3>1. \/ \E g \in groups : Got(b, g.id)
            \/ \E id : groups' = groups \union {[id |-> id, name |-> req[b].name]} /\ Got(b, id)
        BY <1>9 DEF InsertGroup
      <3>2. CASE \E g \in groups : Got(b, g.id)
        BY <1>1, <1>5, <3>2
      <3>3. ASSUME NEW id, groups' = groups \union {[id |-> id, name |-> req[b].name]}, Got(b, id)
            PROVE  id \in Known'
        <4> DEFINE h == [id |-> id, name |-> req[b].name]
        <4>1. h.id = id /\ h \in groups'
          BY <3>3
        <4> HIDE DEF h
        <4> QED BY <4>1 DEF Known
      <3> QED BY <3>1, <3>2, <3>3
    <2> QED BY <1>7, <2>1, <2>2
  <1>10. CASE CreateUser(b)
    <2> DEFINE u == req[b].user
               g == req[b].group
    <2>1. UNCHANGED <<groups, session, owner, boot>> /\ req[b].at = "create" /\ boot = "up"
      BY <1>2, <1>10 DEF CreateUser, RequestFits
    <2>2. u \in Users /\ g \in Known /\ g \in GroupIds /\ req[b].op = "register"
      BY <1>1, <1>2, <2>1 DEF RequestFits, Known
    <2>3. CASE u \in Accounts
      <3>1. req'[b] = Idle /\ UNCHANGED <<last, members>> /\ \A c \in Browsers \ {b} : req'[c] = req[c]
        BY <1>1, <1>10, <2>3 DEF CreateUser, Done
      <3>2. RequestFits(b)'
        BY <3>1 DEF RequestFits, Idle
      <3> QED BY <1>4, <2>1, <3>1, <3>2, RequestMoves
    <2>4. CASE u \notin Accounts
      <3>1. /\ last' = [last EXCEPT ![u] = g] /\ members' = members \union {<<u, g>>}
            /\ req'[b].user = u /\ req'[b].op = "register" /\ req'[b].at = "session"
            /\ \A c \in Browsers \ {b} : req'[c] = req[c]
        BY <1>1, <1>10, <2>2, <2>4 DEF CreateUser, Goto, Requests
      <3>2. /\ Known' = Known /\ Accounts' = Accounts \union {u} /\ u \notin Accounts
        BY <1>2, <1>3, <2>1, <2>2, <2>4, <3>1 DEF Known, Accounts, VariablesFit
      <3>3. VariablesFit'
        BY <1>2, <1>3, <2>1, <2>2, <3>1, <3>2 DEF VariablesFit, Accounts, Sessions
      <3>4. RequestFits(b)'
        BY <2>1, <2>2, <3>1, <3>2 DEF RequestFits
      <3>5. \A v \in Accounts' : v \in Accounts \/ \E h \in GroupIds : <<v, h>> \in members'
        BY <2>2, <3>1, <3>2
      <3> QED BY <1>4, <2>1, <3>1, <3>2, <3>3, <3>4, <3>5, RequestStep
    <2> QED BY <2>3, <2>4
  <1>11. CASE CreateSession(b)
    <2> DEFINE u == req[b].user
    <2>1. /\ UNCHANGED <<groups, last, members, owner, boot>> /\ req[b].at = "session"
          /\ session' = [session EXCEPT ![b] = [user |-> u, active |-> None]]
          /\ req'[b] = Idle /\ \A c \in Browsers \ {b} : req'[c] = req[c]
      BY <1>1, <1>11 DEF CreateSession, Done
    <2>2. u \in Accounts
      BY <1>2, <2>1 DEF RequestFits
    <2>3. Known' = Known /\ Accounts' = Accounts
      BY <2>1 DEF Known, Accounts
    <2>4. VariablesFit'
      <3>1. [user |-> u, active |-> None] \in Sessions
        BY <2>2 DEF Accounts, Sessions
      <3>2. session' \in [Browsers -> Sessions]
        BY <1>2, <2>1, <3>1 DEF VariablesFit
      <3> QED BY <1>2, <1>3, <2>1, <2>2, <2>3, <3>2 DEF VariablesFit, Accounts
    <2>5. RequestFits(b)'
      BY <2>1 DEF RequestFits, Idle
    <2>6. \A c \in Browsers \ {b} : session'[c] = session[c]
      BY <1>2, <2>1 DEF VariablesFit
    <2> QED BY <2>1, <2>3, <2>4, <2>5, <2>6, RequestStep
  <1>12. CASE JoinGroup(b)
    <2> DEFINE u == req[b].user
               g == req[b].group
    <2>1. /\ UNCHANGED <<groups, last, session, owner, boot>> /\ req[b].at = "member"
          /\ members' = members \union {<<u, g>>}
          /\ req'[b].user = u /\ req'[b].group = g /\ req'[b].op = req[b].op /\ req'[b].at = "check"
          /\ \A c \in Browsers \ {b} : req'[c] = req[c]
      BY <1>1, <1>12 DEF JoinGroup, Goto, Requests
    <2>2. u \in Accounts /\ u \in Users /\ g \in Known /\ g \in GroupIds
      BY <1>1, <1>2, <2>1 DEF RequestFits, Known
    <2>3. Known' = Known /\ Accounts' = Accounts
      BY <2>1 DEF Known, Accounts
    <2>4. VariablesFit'
      BY <1>2, <2>1, <2>2, <2>3 DEF VariablesFit, Accounts
    <2>5. RequestFits(b)'
      BY <1>2, <2>1, <2>2, <2>3 DEF RequestFits
    <2> QED BY <2>1, <2>3, <2>4, <2>5, RequestStep
  <1>13. CASE CheckMembership(b)
    <2>1. /\ UNCHANGED <<acctVars, storeVars>> /\ req[b].at = "check"
          /\ \A c \in Browsers \ {b} : req'[c] = req[c]
          /\ \/ req'[b] = Idle
             \/ /\ req[b].group \in GroupsOf(req[b].user)
                /\ req'[b].user = req[b].user /\ req'[b].group = req[b].group
                /\ req'[b].op = req[b].op /\ req'[b].at = "switch"
      BY <1>1, <1>13 DEF CheckMembership, Goto, Done, Requests
    <2>2. Known' = Known /\ Accounts' = Accounts
      BY <2>1 DEF Known, Accounts
    <2>3. CASE req'[b] = Idle
      <3>1. RequestFits(b)'
        BY <2>3 DEF RequestFits, Idle
      <3> QED BY <2>1, <3>1, RequestMoves
    <2>4. CASE req'[b] # Idle
      <3>1. RequestFits(b)'
        BY <1>2, <2>1, <2>2, <2>4 DEF RequestFits, GroupsOf
      <3> QED BY <2>1, <3>1, RequestMoves
    <2> QED BY <2>3, <2>4
  <1>14. CASE SwitchGroup(b)
    <2> DEFINE u == req[b].user
               g == req[b].group
    <2>1. /\ UNCHANGED <<groups, members, owner, boot>> /\ req[b].at = "switch"
          /\ session' = IF session[b] = NoSession THEN session ELSE [session EXCEPT ![b].active = g]
          /\ last' = [last EXCEPT ![u] = IF last[u] = None THEN None ELSE g]
          /\ req'[b] = Idle /\ \A c \in Browsers \ {b} : req'[c] = req[c]
      BY <1>1, <1>14 DEF SwitchGroup, Done
    <2>2. /\ u \in Accounts /\ u \in Users /\ g \in Known /\ g \in GroupIds /\ <<u, g>> \in members
          /\ session[b] # NoSession => session[b].user = u
      BY <1>1, <1>2, <2>1 DEF RequestFits, Known
    <2>3. Known' = Known
      BY <2>1 DEF Known
    <2>4. \A v \in Users : last'[v] = IF v = u THEN g ELSE last[v]
      BY <1>2, <2>1, <2>2 DEF VariablesFit, Accounts
    <2>5. Accounts' = Accounts
      BY <1>3, <2>2, <2>4 DEF Accounts
    <2>6. last' \in [Users -> GroupIds \union {None}]
      BY <1>2, <2>1, <2>2 DEF VariablesFit
    <2>7. /\ \A c \in Browsers \ {b} : session'[c] = session[c]
          /\ session[b] = NoSession => session'[b] = NoSession
          /\ session[b] # NoSession => session'[b] = [user |-> u, active |-> g]
          /\ session' \in [Browsers -> Sessions]
      <3>1. session \in [Browsers -> Sessions] /\ [user |-> u, active |-> g] \in Sessions
        BY <1>2, <2>2 DEF VariablesFit, Sessions
      <3>2. CASE session[b] = NoSession
        BY <2>1, <3>1, <3>2
      <3>3. CASE session[b] # NoSession
        <4>1. session[b] \in [user : Users, active : GroupIds \union {None}]
          BY <3>1, <3>3 DEF Sessions
        <4>2. [session[b] EXCEPT !.active = g] = [user |-> u, active |-> g]
          BY <2>2, <3>3, <4>1
        <4>3. session' = [session EXCEPT ![b] = [user |-> u, active |-> g]]
          BY <2>1, <3>1, <3>3, <4>2
        <4> QED BY <3>1, <3>3, <4>3
      <3> QED BY <3>2, <3>3
    <2>8. VariablesFit'
      <3>1. ASSUME NEW c \in Browsers, session'[c] # NoSession
            PROVE  /\ last'[session'[c].user] # None
                   /\ session'[c].active # None => <<session'[c].user, session'[c].active>> \in members'
        <4>1. CASE c = b
          BY <1>3, <2>1, <2>2, <2>4, <2>7, <3>1, <4>1
        <4>2. CASE c # b
          <5>1. session'[c] = session[c] /\ session[c].user \in Users /\ last[session[c].user] # None
                /\ (session[c].active # None => <<session[c].user, session[c].active>> \in members)
            BY <1>2, <2>7, <3>1, <4>2 DEF VariablesFit, Sessions
          <5> QED BY <1>3, <2>1, <2>2, <2>4, <5>1
        <4> QED BY <4>1, <4>2
      <3>2. \A m \in members' : last'[m[1]] # None /\ m[2] \in Known'
        BY <1>2, <1>3, <2>1, <2>2, <2>3, <2>4 DEF VariablesFit
      <3>3. \A v \in Users : last'[v] # None => last'[v] \in Known' \union DemoIds
        BY <1>2, <2>2, <2>3, <2>4 DEF VariablesFit
      <3>4. DemoIds' = DemoIds
        BY DEF DemoIds
      <3> QED BY <1>2, <2>1, <2>6, <2>7, <3>1, <3>2, <3>3, <3>4 DEF VariablesFit
    <2>9. RequestFits(b)'
      BY <2>1 DEF RequestFits, Idle
    <2> QED BY <2>1, <2>5, <2>7, <2>8, <2>9, RequestStep
  <1>15. CASE Logout(b)
    <2>1. /\ UNCHANGED <<groups, last, members, req, owner, boot>>
          /\ session' = [session EXCEPT ![b] = NoSession]
      BY <1>15 DEF Logout
    <2>2. Known' = Known /\ Accounts' = Accounts
      BY <2>1 DEF Known, Accounts
    <2>3. /\ session'[b] = NoSession /\ \A c \in Browsers \ {b} : session'[c] = session[c]
          /\ session' \in [Browsers -> Sessions]
      BY <1>2, <2>1 DEF VariablesFit, Sessions
    <2>4. VariablesFit'
      BY <1>2, <2>1, <2>2, <2>3 DEF VariablesFit
    <2>5. RequestFits(b)'
      BY <1>2, <2>1, <2>2, <2>3 DEF RequestFits
    <2> QED BY <2>1, <2>2, <2>3, <2>4, <2>5, RequestStep
  <1> QED BY <1>6, <1>8, <1>9, <1>10, <1>11, <1>12, <1>13, <1>14, <1>15 DEF Request

(* A start: the tables after the renames, the demo data and the backfill.     *)
Updated == Backfilled(Seeded(Renamed(Tables)))

LEMMA StartFits ==
  ASSUME GroupInv, AccountsFit, UpdateAccounts
  PROVE  /\ Tables' = Updated
         /\ AccountsFit'
PROOF
  <1> DEFINE r == Renamed(Tables)
  <1>1. /\ groups' = SeededGroups /\ boot = "accounts" /\ boot' = "up" /\ UNCHANGED req
        /\ last' = Updated.last /\ members' = Updated.members
        /\ session' = Updated.session /\ owner' = Updated.owner
    BY DEF UpdateAccounts, Updated
  <1>2. Known \subseteq Known' /\ DemoIds \subseteq Known'
    BY <1>1, DemoGroupsAreThere DEF Known, SeededGroups
  <1>3. Known' \subseteq GroupIds
    BY <1>1, DemoGroupsSeeded DEF GroupInv, GroupTypes, Known, Groups
  <1>4. Fits(r, Known)
    BY RenamedFits DEF AccountsFit
  <1>5. /\ Fits(Updated, Known')
        /\ \A u \in Users : Updated.last[u] # None => \E g \in GroupIds : <<u, g>> \in Updated.members
    <2> HIDE DEF r
    <2>1. LET t == Backfilled(Seeded(r))
          IN  /\ Fits(t, Known')
              /\ \A u \in Users : t.last[u] # None => \E g \in GroupIds : <<u, g>> \in t.members
      BY <1>2, <1>3, <1>4, SeededFits
    <2> QED BY <2>1 DEF Updated, r
  <1> HIDE DEF r
  <1>6. Updated = [last |-> Updated.last, members |-> Updated.members,
                   session |-> Updated.session, owner |-> Updated.owner]
    BY <1>5 DEF Fits, AllTables
  <1>7. Tables' = Updated
    BY <1>1, <1>6 DEF Tables
  <1>8. Fits(Tables, Known)'
    BY <1>5, <1>7 DEF Fits
  <1>9. \A b \in Browsers : RequestFits(b)'
    <2>1. \A b \in Browsers : req[b].at = "idle"
      BY <1>1 DEF AccountsFit, RequestFits
    <2> QED BY <1>1, <2>1 DEF RequestFits
  <1>10. \A u \in Accounts' : \E g \in GroupIds : <<u, g>> \in members'
    BY <1>1, <1>5 DEF Accounts
  <1> QED BY <1>7, <1>8, <1>9, <1>10 DEF AccountsFit

LEMMA AccountsNext == GroupInv /\ AccountsFit /\ [Next]_vars => AccountsFit'
PROOF
  <1> SUFFICES ASSUME GroupInv, AccountsFit, [Next]_vars PROVE AccountsFit'
    OBVIOUS
  <1>1. CASE \E b \in Browsers : Request(b)
    BY <1>1, AccountsRequest
  <1>2. CASE UpdateAccounts
    BY <1>2, StartFits
  <1>3. CASE StartSchema \/ CreateCopy \/ FillCopy \/ DropOld \/ RenameCopy
    <2>1. UNCHANGED <<groups, last, members, session, req, owner>> /\ boot # "up" /\ boot' # "up"
      BY <1>3 DEF StartSchema, CreateCopy, FillCopy, DropOld, RenameCopy, SkipBoot, acctVars
    <2>2. \A b \in Browsers : req[b].at = "idle"
      BY <2>1 DEF AccountsFit, RequestFits
    <2>3. \A b \in Browsers : RequestFits(b)'
      BY <2>1, <2>2 DEF RequestFits
    <2>4. Fits(Tables, Known)'
      <3>1. Tables' = Tables /\ Known' = Known
        BY <2>1 DEF Tables, Known
      <3> QED BY <3>1 DEF AccountsFit, Fits
    <2> QED BY <2>1, <2>3, <2>4 DEF AccountsFit
  <1>4. CASE Stop \/ UNCHANGED vars
    <2>1. /\ UNCHANGED <<groups, last, members, session, owner>>
          /\ \/ boot' # "up" /\ \A b \in Browsers : req'[b] = Idle
             \/ UNCHANGED <<boot, req>>
      BY <1>4 DEF Stop, acctVars, vars
    <2>2. Known' = Known /\ Accounts' = Accounts
      BY <2>1 DEF Known, Accounts
    <2>3. ASSUME NEW b \in Browsers PROVE RequestFits(b)'
      <3>1. RequestFits(b)
        BY DEF AccountsFit
      <3> QED BY <2>1, <2>2, <3>1 DEF RequestFits, Idle
    <2>4. Fits(Tables, Known)'
      <3>1. Tables' = Tables
        BY <2>1 DEF Tables
      <3> QED BY <2>2, <3>1 DEF AccountsFit, Fits
    <2>5. boot' = "up" => \A u \in Accounts' : \E g \in GroupIds : <<u, g>> \in members'
      BY <2>1, <2>2 DEF AccountsFit
    <2> QED BY <2>3, <2>4, <2>5 DEF AccountsFit
  <1> QED BY <1>1, <1>2, <1>3, <1>4 DEF Next, Start

(* While the service serves, whatever was created, joined, renamed or half    *)
(* done, a session of an account acts in a group of its user's.               *)
THEOREM NobodyFallsBack == Spec => []ActsInOwnGroups
PROOF
  <1>1. ASSUME GroupInv, AccountsFit PROVE ActsInOwnGroups
    <2>1. VariablesFit
      BY <1>1, TablesFit DEF AccountsFit
    <2>2. ASSUME NEW u \in Accounts, boot = "up" PROVE GroupsOf(u) # {}
      <3>1. PICK g \in GroupIds : <<u, g>> \in members
        BY <1>1, <2>2 DEF AccountsFit
      <3>2. g \in Known
        BY <2>1, <3>1 DEF VariablesFit
      <3> QED BY <3>1, <3>2 DEF GroupsOf, Known
    <2>3. \A u, a : Resolve(u, a) \subseteq GroupsOf(u) /\ (GroupsOf(u) # {} => Resolve(u, a) # {})
      BY DEF Resolve
    <2>4. \A u : \A g \in GroupsOf(u) : <<u, g>> \in members
      BY DEF GroupsOf
    <2> QED BY <2>2, <2>3, <2>4 DEF ActsInOwnGroups, LoggedIn, Acting
  <1> QED BY <1>1, GroupInit, GroupNext, AccountsInit, AccountsNext, PTL DEF Spec

(* A session's choice of a group is a membership, memberships are kept while  *)
(* the service serves, and only requests of its own browser change it.        *)
THEOREM ChoicesAreTheirOwn == Spec => SessionsKeepTheirGroup
PROOF
  <1> DEFINE Keeps == \A b \in Browsers :
       /\ boot = "up" /\ boot' = "up" /\ LoggedIn(b) /\ LoggedIn(b)'
       /\ session[b].active # None /\ Acting(b)' # Acting(b)
       => req[b].at \in {"switch", "session"}
  <1>1. ASSUME GroupInv, AccountsFit, [Next]_vars PROVE [Keeps]_vars
    <2> SUFFICES ASSUME NEW b \in Browsers, boot = "up", boot' = "up", LoggedIn(b), LoggedIn(b)',
                        session[b].active # None, req[b].at \notin {"switch", "session"}
                 PROVE  Acting(b)' = Acting(b)
      OBVIOUS
    <2>1. VariablesFit
      BY <1>1, TablesFit DEF AccountsFit
    <2>2. None \notin Users /\ None \notin GroupIds
      BY AccountsAssumption DEF AccountsAssumption
    <2> DEFINE u == session[b].user
               g == session[b].active
    <2>3. u \in Users /\ g \in GroupIds /\ <<u, g>> \in members /\ g \in Known
      BY <2>1, <2>2 DEF VariablesFit, LoggedIn, Sessions, NoSession
    <2>4. session'[b] = session[b] /\ members \subseteq members'
      <3>1. CASE UNCHANGED vars
        BY <3>1 DEF vars
      <3>2. CASE Start \/ Stop
        BY <3>2 DEF Start, StartSchema, CreateCopy, FillCopy, DropOld, RenameCopy, UpdateAccounts, Stop
      <3>3. ASSUME NEW c \in Browsers, Request(c)
            PROVE  session'[b] = session[b] /\ members \subseteq members'
        <4>1. CASE AskRegister(c) \/ AskLogin(c) \/ AskJoin(c) \/ AskSwitch(c) \/ FindGroup(c) \/ CheckMembership(c)
          BY <4>1 DEF AskRegister, AskLogin, AskJoin, AskSwitch, FindGroup, CheckMembership, acctVars
        <4>2. CASE InsertGroup(c) \/ CreateUser(c) \/ JoinGroup(c)
          BY <4>2 DEF InsertGroup, CreateUser, JoinGroup
        <4>3. CASE CreateSession(c) \/ SwitchGroup(c)
          BY <2>1, <4>3 DEF CreateSession, SwitchGroup, VariablesFit
        <4>4. CASE Logout(c)
          BY <2>1, <2>2, <4>4 DEF Logout, VariablesFit, LoggedIn, NoSession
        <4> QED BY <3>3, <4>1, <4>2, <4>3, <4>4 DEF Request
      <3> QED BY <1>1, <3>1, <3>2, <3>3 DEF Next
    <2>5. Known \subseteq Known'
      BY <1>1, GroupsGrow DEF Known
    <2>6. Acting(b) = {g}
      BY <2>3 DEF Acting, Resolve, GroupsOf, Known
    <2>7. Acting(b)' = {g}
      BY <2>3, <2>4, <2>5 DEF Acting, Resolve, GroupsOf, Known
    <2> QED BY <2>6, <2>7
  <1> QED BY <1>1, GroupInit, GroupNext, AccountsInit, AccountsNext, PTL DEF Spec, SessionsKeepTheirGroup

(* Every variable has its type, in every state of every instance.             *)
THEOREM TypeCorrect == Spec => []TypeOK
PROOF
  <1> DEFINE Rest == /\ boot \in {"down", "create", "fill", "drop", "rename", "accounts", "up"}
                     /\ asked \in 0 .. MaxRequests
  <1>1. Init => Rest
    BY AccountsAssumption DEF AccountsAssumption, Init
  <1>2. ASSUME Rest, [Next]_vars PROVE Rest'
    <2>1. ASSUME NEW b \in Browsers, AskRegister(b) \/ AskLogin(b) \/ AskJoin(b) \/ AskSwitch(b) PROVE Rest'
      <3>1. asked < MaxRequests /\ asked' = asked + 1 /\ UNCHANGED boot
        BY <2>1 DEF AskRegister, AskLogin, AskJoin, AskSwitch, Ask, storeVars
      <3> QED BY <1>2, <3>1, AccountsAssumption DEF AccountsAssumption
    <2>2. ASSUME NEW b \in Browsers, Request(b),
                 ~(AskRegister(b) \/ AskLogin(b) \/ AskJoin(b) \/ AskSwitch(b))
          PROVE  UNCHANGED <<boot, asked>>
      BY <2>2 DEF Request, FindGroup, InsertGroup, CreateUser, CreateSession, JoinGroup,
                  CheckMembership, SwitchGroup, Logout, storeVars
    <2>3. CASE Start
      BY <1>2, <2>3 DEF Start, StartSchema, CreateCopy, FillCopy, DropOld, RenameCopy,
                        UpdateAccounts, SkipBoot
    <2>4. CASE Stop \/ UNCHANGED vars
      BY <1>2, <2>4 DEF Stop, vars
    <2> QED BY <1>2, <2>1, <2>2, <2>3, <2>4 DEF Next
  <1>3. ASSUME GroupInv, RowsInv, AccountsFit, Rest PROVE TypeOK
    <2>1. VariablesFit
      BY <1>3, TablesFit DEF AccountsFit
    <2>2. Sessions \subseteq [user : Users \union {None}, active : GroupIds \union {None}]
      BY DEF Sessions, NoSession
    <2>3. session \in [Browsers -> [user : Users \union {None}, active : GroupIds \union {None}]]
      BY <2>1, <2>2 DEF VariablesFit
    <2> QED BY <1>3, <2>1, <2>3 DEF TypeOK, VariablesFit, GroupInv, GroupTypes, Requests, Places, RowsInv
  <1> HIDE DEF Rest
  <1> QED BY <1>1, <1>2, <1>3, GroupInit, GroupNext, RowsInit, RowsNext, AccountsInit, AccountsNext, PTL DEF Spec

-----------------------------------------------------------------------------
(* The renames, hop by hop.  A name that was given up is not given again, so  *)
(* that after all hops nobody is left under one ...                           *)
LEMMA NobodyRetiredIsLeft ==
  ASSUME NEW t \in AllTables
  PROVE  \A u \in Retired : Renamed(t).last[u] = None
PROOF
  <1> DEFINE n == Len(Renames)
             F == [i \in 0 .. n |-> {s \in AllTables : \A k \in 1 .. i : s.last[Renames[k][1]] = None}]
  <1>1. n \in Nat
    BY HopsFollow
  <1>2. t \in F[0]
    BY <1>1
  <1>3. ASSUME NEW i \in 1 .. n, NEW s \in F[i - 1] PROVE Hop(s, Renames[i]) \in F[i]
    <2>1. i - 1 \in 0 .. n /\ i \in 0 .. n /\ i \in Nat
      BY <1>1
    <2>2. s \in AllTables /\ \A k \in 1 .. (i - 1) : s.last[Renames[k][1]] = None
      BY <1>3, <2>1
    <2>3. PICK old \in Users, new \in Users : Renames[i][1] = old /\ Renames[i][2] = new /\ old # new
      BY RenamesAreHops
    <2> DEFINE h == Hop(s, Renames[i])
    <2>4. HopMakes(h, s, old, new)
      BY <2>2, <2>3, HopDoes
    <2>5. s.last \in [Users -> GroupIds \union {None}]
      BY <2>2 DEF AllTables
    <2> HIDE DEF h
    <2>6. ASSUME NEW k \in 1 .. i PROVE h.last[Renames[k][1]] = None
      <3>1. Renames[k][1] \in Users /\ k \in 1 .. n
        BY <1>1, RenamesAreHops
      <3>2. k # i => k \in 1 .. (i - 1) /\ k < i
        BY <2>1
      <3>3. k # i => Renames[k][1] # new /\ s.last[Renames[k][1]] = None
        BY <2>2, <2>3, <3>1, <3>2, RenamesAssumption DEF RenamesAssumption
      <3> QED BY <2>3, <2>4, <2>5, <3>1, <3>3 DEF HopMakes
    <2> QED BY <2>1, <2>4, <2>6 DEF HopMakes, h
  <1> HIDE DEF F
  <1>4. Renamed(t) \in F[n]
    BY <1>2, <1>3, AfterTheHops
  <1>5. \A k \in 1 .. n : Renamed(t).last[Renames[k][1]] = None
    BY <1>1, <1>4 DEF F
  <1> QED BY <1>5 DEF Retired

(* ... and what the only account of a person has goes with it: some name w of *)
(* that person's has in s what name u had in t.                               *)
Carried(s, t, u, w) ==
  /\ Current[w] = Current[u]
  /\ s.last[w] # None
  /\ \A v \in Users : s.last[v] # None /\ Current[v] = Current[u] => v = w
  /\ \A g \in GroupIds : <<u, g>> \in t.members => <<w, g>> \in s.members
  /\ \A b \in Browsers : t.session[b].user = u => s.session[b].user = w
  /\ \A j \in Users : t.owner[j] = u => s.owner[j] = w

LEMMA HopCarries ==
  ASSUME NEW t, NEW u \in Users, NEW s \in AllTables, NEW w \in Users, Carried(s, t, u, w),
         NEW i \in 1 .. Len(Renames)
  PROVE  \E x \in Users : Carried(Hop(s, Renames[i]), t, u, x)
PROOF
  <1>1. PICK old \in Users, new \in Users :
          /\ Renames[i][1] = old /\ Renames[i][2] = new /\ old # new
          /\ Current[old] = Current[new]
    BY RenamesAreHops
  <1> DEFINE h == Hop(s, Renames[i])
  <1>2. HopMakes(h, s, old, new)
    BY <1>1, HopDoes
  <1>3. /\ s.last \in [Users -> GroupIds \union {None}] /\ s.owner \in [Users -> Users]
        /\ s.session \in [Browsers -> Sessions] /\ None \notin Users
        /\ s.members \in SUBSET (Users \X GroupIds)
    BY AccountsAssumption DEF AllTables, AccountsAssumption
  <1> HIDE DEF h
  <1>4. CASE s.last[old] = None
    BY <1>2, <1>4 DEF HopMakes, h
  <1>5. CASE s.last[old] # None /\ s.last[new] # None
    <2>1. Current[old] # Current[u] /\ old # w
      BY <1>1, <1>5 DEF Carried
    <2>2. /\ h.last = [s.last EXCEPT ![old] = None]
          /\ h.members = {m \in s.members : m[1] # old}
          /\ \A b \in Browsers : h.session[b] = IF s.session[b].user = old THEN NoSession
                                                ELSE s.session[b]
          /\ h.owner = s.owner
      BY <1>2, <1>5 DEF HopMakes
    <2>3. Carried(h, t, u, w)
      BY <1>3, <2>1, <2>2 DEF Carried
    <2> QED BY <2>3 DEF h
  <1>6. CASE s.last[old] # None /\ s.last[new] = None
    <2>1. /\ h.last = [s.last EXCEPT ![new] = s.last[old], ![old] = None]
          /\ h.members = {<<Moved(m[1], old, new), m[2]>> : m \in s.members}
          /\ \A b \in Browsers :
               h.session[b] = [s.session[b] EXCEPT !.user = Moved(s.session[b].user, old, new)]
          /\ \A j \in Users : h.owner[j] = Moved(s.owner[j], old, new)
      BY <1>2, <1>6 DEF HopMakes
    <2> DEFINE x == Moved(w, old, new)
    <2>2. x \in Users /\ Current[x] = Current[u]
      BY <1>1 DEF Moved, Carried
    <2>3. \A v \in Users : h.last[v] = IF v = old THEN None
                                      ELSE IF v = new THEN s.last[old] ELSE s.last[v]
      BY <1>1, <1>3, <2>1
    <2>4. old # w => Current[old] # Current[u] /\ new # w
      BY <1>1, <1>6 DEF Carried
    <2>5. h.last[x] # None
      BY <1>1, <1>6, <2>3, <2>4 DEF Moved, Carried
    <2>6. \A v \in Users : h.last[v] # None /\ Current[v] = Current[u] => v = x
      BY <1>1, <1>6, <2>3, <2>4 DEF Moved, Carried
    <2>7. \A g \in GroupIds : <<u, g>> \in t.members => <<x, g>> \in h.members
      <3> SUFFICES ASSUME NEW g \in GroupIds, <<w, g>> \in s.members PROVE <<x, g>> \in h.members
        BY DEF Carried
      <3> QED BY <2>1
    <2>8. \A b \in Browsers : t.session[b].user = u => h.session[b].user = x
      <3> SUFFICES ASSUME NEW b \in Browsers, s.session[b].user = w PROVE h.session[b].user = x
        BY DEF Carried
      <3>1. s.session[b] \in [user : Users, active : GroupIds \union {None}]
        BY <1>3 DEF Sessions, NoSession
      <3> QED BY <2>1, <3>1
    <2>9. \A j \in Users : t.owner[j] = u => h.owner[j] = x
      BY <2>1 DEF Carried
    <2>10. Carried(h, t, u, x)
      <3> HIDE DEF x
      <3> QED BY <2>2, <2>5, <2>6, <2>7, <2>8, <2>9 DEF Carried
    <2> QED BY <2>2, <2>10 DEF h
  <1> QED BY <1>4, <1>5, <1>6

LEMMA RenamedCarries ==
  ASSUME NEW t \in AllTables, NEW u \in Users, t.last[u] # None,
         \A v \in Users : t.last[v] # None /\ Current[v] = Current[u] => v = u
  PROVE  Carried(Renamed(t), t, u, Current[u])
PROOF
  <1> DEFINE n == Len(Renames)
             F == [i \in 0 .. n |-> {s \in AllTables : \E w \in Users : Carried(s, t, u, w)}]
  <1>1. n \in Nat
    BY HopsFollow
  <1>2. t \in F[0]
    <2>1. Carried(t, t, u, u)
      BY DEF Carried
    <2> QED BY <1>1, <2>1
  <1>3. ASSUME NEW i \in 1 .. n, NEW s \in F[i - 1] PROVE Hop(s, Renames[i]) \in F[i]
    <2>1. i - 1 \in 0 .. n /\ i \in 0 .. n
      BY <1>1
    <2>2. s \in AllTables /\ \E w \in Users : Carried(s, t, u, w)
      BY <1>3, <2>1
    <2>3. \E w \in Users : Carried(Hop(s, Renames[i]), t, u, w)
      BY <2>2, HopCarries
    <2>4. Hop(s, Renames[i]) \in AllTables
      BY <2>2, RenamesAreHops, HopDoes DEF HopMakes
    <2> QED BY <2>1, <2>3, <2>4
  <1> HIDE DEF F
  <1>4. Renamed(t) \in F[n]
    BY <1>2, <1>3, AfterTheHops
  <1>5. PICK w \in Users : Carried(Renamed(t), t, u, w)
    BY <1>1, <1>4 DEF F
  <1>6. w \notin Retired
    BY <1>5, NobodyRetiredIsLeft DEF Carried
  <1>7. w = Current[w]
    BY <1>6, RenamesAssumption DEF RenamesAssumption
  <1> QED BY <1>5, <1>7 DEF Carried

(* After a start every person has one account, under today's name, and what   *)
(* was its own is still; what belonged to no account is gone.                 *)
THEOREM PeopleKeepTheirAccount == Spec => OneAccountPerPerson
PROOF
  <1> DEFINE Keeps ==
       boot = "accounts" /\ boot' = "up" =>
       /\ (Accounts)' \intersect Retired = {}
       /\ \A m \in members' : m[1] \in (Accounts)'
       /\ \A b \in Browsers : session'[b] # NoSession => session'[b].user \in (Accounts)'
       /\ \A u \in Accounts :
            (\A v \in Accounts : Current[v] = Current[u] => v = u) =>
              /\ Current[u] \in (Accounts)'
              /\ \A g \in GroupIds : <<u, g>> \in members => <<Current[u], g>> \in members'
              /\ \A b \in Browsers : session[b].user = u => session'[b].user = Current[u]
              /\ \A j \in Users : owner[j] = u => owner'[j] = Current[u]
  <1>1. ASSUME GroupInv, AccountsFit, [Next]_vars PROVE [Keeps]_vars
    <2> SUFFICES ASSUME boot = "accounts", boot' = "up" PROVE Keeps
      OBVIOUS
    <2>1. UpdateAccounts
      <3>1. ASSUME NEW b \in Browsers, Request(b) PROVE boot' = boot
        BY <3>1 DEF Request, AskRegister, AskLogin, AskJoin, AskSwitch, Ask, FindGroup, InsertGroup,
                    CreateUser, CreateSession, JoinGroup, CheckMembership, SwitchGroup, Logout, storeVars
      <3> QED BY <1>1, <3>1 DEF Next, Start, StartSchema, CreateCopy, FillCopy, DropOld, RenameCopy,
                                Stop, vars
    <2> DEFINE r == Renamed(Tables)
    <2>2. Tables' = Updated /\ AccountsFit'
      BY <1>1, <2>1, StartFits
    <2>3. /\ last' = Updated.last /\ members' = Updated.members
          /\ session' = Updated.session /\ owner' = Updated.owner
      BY <2>2 DEF Tables
    <2>4. VariablesFit /\ VariablesFit' /\ Tables \in AllTables
      <3>1. VariablesFit
        BY <1>1, TablesFit DEF AccountsFit
      <3>2. VariablesFit'
        <4>1. Fits(Tables, Known)'
          BY <2>2 DEF AccountsFit
        <4>2. Fits(Tables, Known)' => VariablesFit'
          BY TablesFit, PTL
        <4> QED BY <4>1, <4>2
      <3>3. Tables \in AllTables
        BY <1>1 DEF AccountsFit, Fits
      <3> QED BY <3>1, <3>2, <3>3
    <2>5. /\ r.members \subseteq members' /\ session' = r.session /\ owner' = r.owner
          /\ \A u \in Users : last'[u] # None <=> r.last[u] # None \/ u \in DOMAIN DemoUsers
      <3>1. Fits(r, Known)
        BY <1>1, RenamedFits DEF AccountsFit
      <3>2. Known \subseteq Known' /\ DemoIds \subseteq Known' /\ Known' \subseteq GroupIds
        <4>1. groups' = SeededGroups
          BY <2>1 DEF UpdateAccounts
        <4> QED BY <1>1, <4>1, DemoGroupsAreThere, DemoGroupsSeeded
                   DEF Known, SeededGroups, GroupInv, GroupTypes, Groups
      <3> HIDE DEF r
      <3>3. LET t == Backfilled(Seeded(r))
            IN  /\ r.members \subseteq t.members /\ t.session = r.session /\ t.owner = r.owner
                /\ \A u \in Users : t.last[u] # None <=> r.last[u] # None \/ u \in DOMAIN DemoUsers
        BY <3>1, <3>2, SeededFits
      <3> QED BY <2>3, <3>3 DEF Updated, r
    <2>6. (Accounts)' \intersect Retired = {}
      <3>1. \A u \in Retired : r.last[u] = None /\ u \notin DOMAIN DemoUsers
        BY <2>4, NobodyRetiredIsLeft, RenamesAssumption DEF RenamesAssumption
      <3> HIDE DEF r
      <3> QED BY <2>5, <3>1 DEF Accounts
    <2>7. \A m \in members' : m[1] \in (Accounts)'
      BY <2>4 DEF VariablesFit, Accounts
    <2>8. \A b \in Browsers : session'[b] # NoSession => session'[b].user \in (Accounts)'
      BY <2>4 DEF VariablesFit, Accounts, Sessions
    <2>9. ASSUME NEW u \in Accounts, \A v \in Accounts : Current[v] = Current[u] => v = u
          PROVE  /\ Current[u] \in (Accounts)'
                 /\ \A g \in GroupIds : <<u, g>> \in members => <<Current[u], g>> \in members'
                 /\ \A b \in Browsers : session[b].user = u => session'[b].user = Current[u]
                 /\ \A j \in Users : owner[j] = u => owner'[j] = Current[u]
      <3>1. /\ Tables.last = last /\ Tables.members = members
            /\ Tables.session = session /\ Tables.owner = owner
        BY DEF Tables
      <3>2. u \in Users /\ Current[u] \in Users
        BY AccountsAssumption DEF Accounts, AccountsAssumption
      <3>3. Carried(r, Tables, u, Current[u])
        BY <2>4, <2>9, <3>1, <3>2, RenamedCarries DEF Accounts
      <3> HIDE DEF r
      <3> QED BY <2>5, <3>1, <3>2, <3>3 DEF Carried, Accounts
    <2> QED BY <2>6, <2>7, <2>8, <2>9
  <1> QED BY <1>1, GroupInit, GroupNext, AccountsInit, AccountsNext, PTL DEF Spec, OneAccountPerPerson

=============================================================================
