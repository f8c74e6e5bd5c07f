------------------------- MODULE AuthManagerProofs --------------------------
(***************************************************************************)
(* Proofs about AuthManager, for any number of threads, users, privileges  *)
(* and any choice of calls: its variables keep their types, a call has the *)
(* singleton for itself, names and privilege entries stay unique, an admin *)
(* is always there, users.dat holds what memory holds, and a call that     *)
(* answers with success has had its effect.                                *)
(***************************************************************************)
EXTENDS AuthManager, PositionsProofs

USE NamesAssumption, CallsAssumption

\* The user a call names is found where its name is.
LEMMA FoundUser ==
    ASSUME TypeOK, NEW name, userExists(name)
    PROVE  /\ Min(Positions(name)) \in DOMAIN users
           /\ users[Min(Positions(name))].name = name
           /\ UserAt(name) \in User
<1>1. Positions(name) \subseteq Nat /\ Positions(name) # {}
  BY DEF TypeOK, Positions, userExists
<1>2. Min(Positions(name)) \in Positions(name)
  BY <1>1, MinIsLeast
<1>3. Min(Positions(name)) \in DOMAIN users /\ users[Min(Positions(name))].name = name
  BY <1>2 DEF Positions
<1> QED
  BY <1>3 DEF TypeOK, UserAt

\* The entry of a table is found where it is.
LEMMA FoundEntry ==
    ASSUME NEW u \in User, NEW d, NEW tb, Entries(u, d, tb) # {}
    PROVE  /\ Min(Entries(u, d, tb)) \in DOMAIN u.privileges
           /\ u.privileges[Min(Entries(u, d, tb))].db = d
           /\ u.privileges[Min(Entries(u, d, tb))].table = tb
<1>1. u.privileges \in Seq(Privilege)
  BY DEF User
<1>2. Entries(u, d, tb) \subseteq Nat
  BY <1>1 DEF Entries
<1>3. Min(Entries(u, d, tb)) \in Entries(u, d, tb)
  BY <1>2, MinIsLeast
<1> QED
  BY <1>3 DEF Entries

\* GRANT changes the rights of one entry, or adds one.
LEMMA GrantedType ==
    ASSUME NEW u \in User, NEW c \in Call, c.op \in {"grant", "revoke"}
    PROVE  /\ Granted(u, c) \in User
           /\ Granted(u, c).name = u.name /\ Granted(u, c).role = u.role
           /\ Entries(u, c.db, c.table) # {} =>
                /\ Revoked(u, c) \in User
                /\ Revoked(u, c).name = u.name /\ Revoked(u, c).role = u.role
<1>1. c.db \in Db /\ c.table \in Table /\ c.rights \in SUBSET Right
  BY DEF Call
<1>2. CASE Entries(u, c.db, c.table) = {}
  <2>1. [db |-> c.db, table |-> c.table, rights |-> c.rights] \in Privilege
    BY <1>1 DEF Privilege
  <2>2. Append(u.privileges, [db |-> c.db, table |-> c.table, rights |-> c.rights])
          \in Seq(Privilege)
    BY <2>1 DEF User
  <2>3. Granted(u, c) = [u EXCEPT !.privileges =
          Append(u.privileges, [db |-> c.db, table |-> c.table, rights |-> c.rights])]
    BY <1>2 DEF Granted
  <2> QED
    BY <1>2, <2>2, <2>3 DEF User
<1>3. CASE Entries(u, c.db, c.table) # {}
  <2> DEFINE e == Min(Entries(u, c.db, c.table))
  <2>1. e \in DOMAIN u.privileges
    BY <1>3, FoundEntry
  <2> HIDE DEF e
  <2>2. u.privileges \in Seq(Privilege)
    BY DEF User
  <2>3. \A rs \in SUBSET Right :
          [u.privileges EXCEPT ![e].rights = rs] \in Seq(Privilege)
    <3> SUFFICES ASSUME NEW rs \in SUBSET Right
                 PROVE  [u.privileges EXCEPT ![e].rights = rs] \in Seq(Privilege)
      OBVIOUS
    <3>1. u.privileges[e] \in Privilege
      BY <2>1, <2>2
    <3>2. [u.privileges[e] EXCEPT !.rights = rs] \in Privilege
      BY <3>1 DEF Privilege
    <3> QED
      BY <2>1, <2>2, <3>2
  <2>4. u.privileges[e].rights \in SUBSET Right
    <3>1. u.privileges[e] \in Privilege
      BY <2>1, <2>2
    <3> QED
      BY <3>1 DEF Privilege
  <2>5. /\ Granted(u, c) = [u EXCEPT !.privileges =
             [u.privileges EXCEPT ![e].rights = u.privileges[e].rights \cup c.rights]]
        /\ Revoked(u, c) = [u EXCEPT !.privileges =
             [u.privileges EXCEPT ![e].rights = u.privileges[e].rights \ c.rights]]
    BY <1>3, <2>1, <2>2 DEF Granted, Revoked, User, e
  <2>6. /\ u.privileges[e].rights \cup c.rights \in SUBSET Right
        /\ u.privileges[e].rights \ c.rights \in SUBSET Right
    BY <1>1, <2>4
  <2>7. ASSUME NEW ps \in Seq(Privilege), NEW v, v = [u EXCEPT !.privileges = ps]
        PROVE  v \in User /\ v.name = u.name /\ v.role = u.role
    BY <2>7 DEF User
  <2>8. Granted(u, c) \in User /\ Granted(u, c).name = u.name /\ Granted(u, c).role = u.role
    <3>1. PICK ps \in Seq(Privilege) : Granted(u, c) = [u EXCEPT !.privileges = ps]
      BY <2>3, <2>5, <2>6, Zenon
    <3> QED
      BY <2>7, <3>1
  <2>9. Revoked(u, c) \in User /\ Revoked(u, c).name = u.name /\ Revoked(u, c).role = u.role
    <3>1. PICK ps \in Seq(Privilege) : Revoked(u, c) = [u EXCEPT !.privileges = ps]
      BY <2>3, <2>5, <2>6, Zenon
    <3> QED
      BY <2>7, <3>1
  <2> QED
    BY <2>8, <2>9
<1> QED
  BY <1>2, <1>3

\* The list after a call is a list of users, each with the name it had.
LEMMA NewListType ==
    ASSUME TypeOK, NEW c \in Call, Changes(c)
    PROVE  /\ NewList(c) \in Seq(User)
           /\ c.op = "createUser" => /\ c.user \in UserName
                                     /\ NewUser(c.user, c.password, c.role) \in User
           /\ c.op \in {"grant", "revoke"} =>
                 /\ DOMAIN NewList(c) = DOMAIN users
                 /\ \A j \in DOMAIN users : /\ NewList(c)[j].name = users[j].name
                                            /\ NewList(c)[j].role = users[j].role
<1>1. users \in Seq(User)
  BY DEF TypeOK
<1>2. CASE c.op = "createUser"
  <2>1. NewUser(c.user, c.password, c.role) \in User
    BY <1>2 DEF Call, NewUser, User
  <2> QED
    BY <1>1, <1>2, <2>1 DEF NewList, Call
<1>3. CASE c.op = "dropUser"
  <2>1. Keep(users, DOMAIN users \ Positions(c.user)) \in Seq(User)
    BY <1>1, KeepType, DOMAIN users \ Positions(c.user) \subseteq DOMAIN users
  <2> QED
    BY <1>3, <2>1 DEF NewList
<1>4. CASE c.op \in {"grant", "revoke"}
  <2> DEFINE i == Min(Positions(c.user))
             new == IF c.op = "grant" THEN Granted(users[i], c) ELSE Revoked(users[i], c)
  <2>1. userExists(c.user)
    BY <1>4 DEF Changes, Refuses
  <2>2. i \in DOMAIN users /\ users[i] \in User
    BY <1>1, <2>1, FoundUser
  <2>3. c.op = "revoke" => Entries(users[i], c.db, c.table) # {}
    BY <1>4 DEF Changes, UserAt
  <2> HIDE DEF i
  <2>4. new \in User /\ new.name = users[i].name /\ new.role = users[i].role
    BY <1>4, <2>2, <2>3, GrantedType
  <2>5. NewList(c) = [users EXCEPT ![i] = new]
    BY <1>4 DEF NewList, i
  <2> HIDE DEF new
  <2>6. NewList(c) \in Seq(User) /\ DOMAIN NewList(c) = DOMAIN users
    BY <1>1, <2>2, <2>4, <2>5
  <2>7. \A j \in DOMAIN users : /\ NewList(c)[j].name = users[j].name
                               /\ NewList(c)[j].role = users[j].role
    BY <1>1, <2>2, <2>4, <2>5
  <2> QED
    BY <1>4, <2>6, <2>7
<1> QED
  BY <1>2, <1>3, <1>4 DEF Changes

-----------------------------------------------------------------------------

LEMMA AdminType == Admin \in User /\ Admin.name = "admin" /\ Admin.role = "ADMIN"
BY DEF Admin, NewUser, User, Role

\* What users.dat holds while nobody has written a list to it.
LEMMA NoListType ==
    /\ NoFile \in [magic : {"absent", "empty", "users"}, users : Seq(User)]
    /\ Torn   \in [magic : {"absent", "empty", "users"}, users : Seq(User)]
<1>1. << >> \in Seq(User)
  OBVIOUS
<1> QED
  BY <1>1 DEF NoFile, Torn

LEMMA InitTypeOK == Init => TypeOK
<1> SUFFICES ASSUME Init
             PROVE  TypeOK
  OBVIOUS
<1>1. users \in Seq(User)
  BY DEF Init, Boot
<1>2. call \in [Threads -> Call \cup {NoCall}]
  BY DEF Init, Boot
<1> HIDE DEF NoFile
<1> QED
  BY <1>1, <1>2, NoListType DEF Init, Boot, TypeOK

LEMMA NextTypeOK == TypeOK /\ [Next]_vars => TypeOK'
<1> SUFFICES ASSUME TypeOK, [Next]_vars
             PROVE  TypeOK'
  OBVIOUS
<1>1. CASE Load
  BY <1>1 DEF TypeOK, Load
<1>2. CASE BootOpen
  BY <1>2, AdminType DEF TypeOK, BootOpen, Torn
<1>3. CASE BootWrite
  BY <1>3 DEF TypeOK, BootWrite, UsersFile
<1>4. CASE Restart
  <2>1. users' \in Seq(User)
    BY <1>4 DEF Restart
  <2>2. call' \in [Threads -> Call \cup {NoCall}]
    BY <1>4 DEF Restart
  <2> QED
    BY <1>4, <2>1, <2>2 DEF TypeOK, Restart
<1>5. ASSUME NEW t \in Threads, Invoke(t)
      PROVE  TypeOK'
  BY <1>5 DEF TypeOK, Invoke
<1>6. ASSUME NEW t \in Threads, Lock(t)
      PROVE  TypeOK'
  BY <1>6 DEF TypeOK, Lock
<1>7. ASSUME NEW t \in Threads, Body(t)
      PROVE  TypeOK'
  <2>1. pc' \in [Threads -> {"idle", "lock", "body", "open", "write", "unlock"}]
    BY <1>7 DEF TypeOK, Body
  <2>2. users' \in Seq(User)
    <3>1. CASE Changes(call[t])
      <4>1. call[t] \in Call
        BY <3>1 DEF TypeOK, Changes, NoCall
      <4> QED
        BY <1>7, <3>1, <4>1, NewListType DEF TypeOK, Body, Changes
    <3> QED
      BY <1>7, <3>1 DEF TypeOK, Body
  <2>3. reply' \in [Threads -> BOOLEAN]
    <3>1. Answer(call[t]) \in BOOLEAN
      BY Zenon DEF Answer, authenticate, checkPrivilege
    <3> QED
      BY <1>7, <3>1 DEF TypeOK, Body
  <2> QED
    BY <1>7, <2>1, <2>2, <2>3 DEF TypeOK, Body
<1>8. ASSUME NEW t \in Threads, SaveOpen(t)
      PROVE  TypeOK'
  <2>1. file' \in [magic : {"absent", "empty", "users"}, users : Seq(User)]
    BY <1>8, NoListType DEF TypeOK, SaveOpen
  <2>2. pc' \in [Threads -> {"idle", "lock", "body", "open", "write", "unlock"}]
    BY <1>8 DEF TypeOK, SaveOpen
  <2>3. unsaved' \in BOOLEAN
    BY <1>8 DEF TypeOK, SaveOpen
  <2> QED
    BY <1>8, <2>1, <2>2, <2>3 DEF TypeOK, SaveOpen
<1>9. ASSUME NEW t \in Threads, SaveWrite(t)
      PROVE  TypeOK'
  BY <1>9 DEF TypeOK, SaveWrite, UsersFile
<1>10. ASSUME NEW t \in Threads, Unlock(t)
       PROVE  TypeOK'
  BY <1>10 DEF TypeOK, Unlock
<1>11. CASE UNCHANGED vars
  BY <1>11 DEF TypeOK, vars
<1> QED
  BY <1>1, <1>2, <1>3, <1>4, <1>5, <1>6, <1>7, <1>8, <1>9, <1>10, <1>11 DEF Next, Step

\* Every variable keeps its type.
THEOREM TypeCorrect == Spec => []TypeOK
BY InitTypeOK, NextTypeOK, PTL DEF Spec

-----------------------------------------------------------------------------
(* Mutual exclusion.  Boot runs before any thread does, so no thread is    *)
(* inside a call, nor holds the mutex, until phase is serving.             *)

Alone == phase # "serving" => mutex = NoThread /\ \A t \in Threads : pc[t] = "idle"

Exclusion == TypeOK /\ MutualExclusion /\ Alone

LEMMA InitExclusion == Init => Exclusion
BY InitTypeOK DEF Exclusion, Init, Boot, MutualExclusion, Inside, Alone

LEMMA NextExclusion == Exclusion /\ [Next]_vars => Exclusion'
<1> SUFFICES ASSUME Exclusion, [Next]_vars
             PROVE  MutualExclusion' /\ Alone'
  BY NextTypeOK DEF Exclusion
<1> USE DEF Exclusion, TypeOK, MutualExclusion, Inside, Alone
<1>1. CASE Load
  BY <1>1 DEF Load
<1>2. CASE BootOpen
  BY <1>2 DEF BootOpen
<1>3. CASE BootWrite
  BY <1>3 DEF BootWrite
<1>4. CASE Restart
  BY <1>4 DEF Restart
<1>5. ASSUME NEW t \in Threads, Invoke(t)
      PROVE  MutualExclusion' /\ Alone'
  BY <1>5 DEF Invoke
<1>6. ASSUME NEW t \in Threads, Lock(t)
      PROVE  MutualExclusion' /\ Alone'
  BY <1>6 DEF Lock
<1>7. ASSUME NEW t \in Threads, Body(t)
      PROVE  MutualExclusion' /\ Alone'
  BY <1>7 DEF Body
<1>8. ASSUME NEW t \in Threads, SaveOpen(t)
      PROVE  MutualExclusion' /\ Alone'
  BY <1>8 DEF SaveOpen
<1>9. ASSUME NEW t \in Threads, SaveWrite(t)
      PROVE  MutualExclusion' /\ Alone'
  BY <1>9 DEF SaveWrite
<1>10. ASSUME NEW t \in Threads, Unlock(t)
       PROVE  MutualExclusion' /\ Alone'
  BY <1>10 DEF Unlock
<1>11. CASE UNCHANGED vars
  BY <1>11 DEF vars
<1> QED
  BY <1>1, <1>2, <1>3, <1>4, <1>5, <1>6, <1>7, <1>8, <1>9, <1>10, <1>11 DEF Next, Step

\* A call that has locked m_mutex is the only one that has.
THEOREM Exclusive == Spec => []MutualExclusion
<1>1. Exclusion => MutualExclusion
  BY DEF Exclusion
<1> QED
  BY <1>1, InitExclusion, NextExclusion, PTL DEF Spec

-----------------------------------------------------------------------------
(* Names.  Every list a call saves is one that was in memory, and every    *)
(* list in memory came from users.dat or from the bodies.                  *)

\* Dropping users leaves the names of the others different.
LEMMA KeepUnique ==
    ASSUME NEW us \in Seq(User), NEW S, S \subseteq DOMAIN us, Unique(us)
    PROVE  Unique(Keep(us, S))
<1> SUFFICES ASSUME NEW k \in DOMAIN Keep(us, S), NEW m \in DOMAIN Keep(us, S),
                    Keep(us, S)[k].name = Keep(us, S)[m].name, k # m
             PROVE  FALSE
  BY DEF Unique
<1>1. /\ DOMAIN Keep(us, S) = 1 .. Cardinality(S)
      /\ Nth(S, k) \in DOMAIN us /\ Keep(us, S)[k] = us[Nth(S, k)]
      /\ Nth(S, m) \in DOMAIN us /\ Keep(us, S)[m] = us[Nth(S, m)]
  BY KeepType DEF Keep
<1>2. Nth(S, k) # Nth(S, m)
  BY <1>1, KeepOrder
<1> QED
  BY <1>1, <1>2 DEF Unique

\* createUser refuses a name that is taken; no other call gives names.
LEMMA NewListUnique ==
    ASSUME TypeOK, Unique(users), NEW c \in Call, Changes(c)
    PROVE  Unique(NewList(c))
<1>1. users \in Seq(User)
  BY DEF TypeOK
<1>2. CASE c.op = "createUser"
  <2> DEFINE u == NewUser(c.user, c.password, c.role)
  <2>1. u.name = c.user /\ \A i \in DOMAIN users : users[i].name # c.user
    BY <1>2 DEF NewUser, Changes, Refuses, userExists, Positions
  <2>2. NewList(c) = Append(users, u)
    BY <1>2 DEF NewList
  <2> HIDE DEF u
  <2> QED
    BY <1>1, <2>1, <2>2 DEF Unique
<1>3. CASE c.op = "dropUser"
  <2>1. DOMAIN users \ Positions(c.user) \subseteq DOMAIN users
    OBVIOUS
  <2>2. NewList(c) = Keep(users, DOMAIN users \ Positions(c.user))
    BY <1>3 DEF NewList
  <2> QED
    BY <1>1, <2>1, <2>2, KeepUnique
<1>4. CASE c.op \in {"grant", "revoke"}
  BY <1>4, NewListType DEF Unique
<1> QED
  BY <1>2, <1>3, <1>4 DEF Changes

\* Induction step of UserNamesUnique, which is inductive with the types.
LEMMA NextNames == TypeOK /\ UserNamesUnique /\ [Next]_vars => UserNamesUnique'
<1> SUFFICES ASSUME TypeOK, UserNamesUnique, [Next]_vars
             PROVE  UserNamesUnique'
  OBVIOUS
<1>1. Unique(<<Admin>>) /\ Unique(<<>>)
  BY DEF Unique
<1>2. CASE Load
  BY <1>2 DEF Load, UserNamesUnique, Unique
<1>3. CASE BootOpen
  BY <1>1, <1>3 DEF BootOpen, Torn, UserNamesUnique
<1>4. CASE BootWrite
  BY <1>4 DEF BootWrite, UsersFile, UserNamesUnique
<1>5. CASE Restart
  BY <1>1, <1>5 DEF Restart, UserNamesUnique
<1>6. ASSUME NEW t \in Threads, Body(t)
      PROVE  UserNamesUnique'
  <2>1. CASE Changes(call[t])
    <3>1. call[t] \in Call
      BY <2>1 DEF TypeOK, Changes, NoCall
    <3>2. users' = NewList(call[t]) /\ file' = file
      BY <1>6, <2>1 DEF Body, Changes
    <3> QED
      BY <2>1, <3>1, <3>2, NewListUnique DEF UserNamesUnique
  <2> QED
    BY <1>6, <2>1 DEF Body, UserNamesUnique
<1>7. ASSUME NEW t \in Threads, SaveOpen(t)
      PROVE  UserNamesUnique'
  BY <1>1, <1>7 DEF SaveOpen, Torn, UserNamesUnique
<1>8. ASSUME NEW t \in Threads, SaveWrite(t)
      PROVE  UserNamesUnique'
  BY <1>8 DEF SaveWrite, UsersFile, UserNamesUnique
<1>9. ASSUME NEW t \in Threads, Invoke(t) \/ Lock(t) \/ Unlock(t)
      PROVE  UserNamesUnique'
  BY <1>9 DEF Invoke, Lock, Unlock, UserNamesUnique
<1>10. CASE UNCHANGED vars
  BY <1>10 DEF vars, UserNamesUnique
<1> QED
  BY <1>2, <1>3, <1>4, <1>5, <1>6, <1>7, <1>8, <1>9, <1>10 DEF Next, Step

\* No two users share a name, in memory and on disk, at any time.
THEOREM NamesStayUnique == Spec => []UserNamesUnique
<1>1. Init => UserNamesUnique
  BY DEF Init, Boot, NoFile, UserNamesUnique, Unique
<1> QED
  BY <1>1, InitTypeOK, NextTypeOK, NextNames, PTL DEF Spec

-----------------------------------------------------------------------------
(* The administrator.  The list is empty only while main() loads it; from  *)
(* then on, the moment before the first save included, admin is in it.     *)

Administered ==
    /\ phase = "load" => users = <<>>
    /\ phase \in {"write", "serving"} => HasAdmin(users)
    /\ file.magic = "users" => HasAdmin(file.users)

\* dropUser refuses admin, and no call changes a role.
LEMMA NewListHasAdmin ==
    ASSUME TypeOK, HasAdmin(users), NEW c \in Call, Changes(c)
    PROVE  HasAdmin(NewList(c))
<1>1. users \in Seq(User)
  BY DEF TypeOK
<1>2. PICK i \in DOMAIN users : users[i].name = "admin" /\ users[i].role = "ADMIN"
  BY DEF HasAdmin
<1>3. CASE c.op = "createUser"
  <2> DEFINE u == NewUser(c.user, c.password, c.role)
  <2>1. NewList(c) = Append(users, u)
    BY <1>3 DEF NewList
  <2> HIDE DEF u
  <2>2. i \in DOMAIN NewList(c) /\ NewList(c)[i] = users[i]
    BY <1>1, <2>1
  <2> QED
    BY <1>2, <2>2 DEF HasAdmin
<1>4. CASE c.op = "dropUser"
  <2>1. i \in DOMAIN users \ Positions(c.user)
    BY <1>2, <1>4 DEF Changes, Refuses, Positions
  <2>2. NewList(c) = Keep(users, DOMAIN users \ Positions(c.user))
    BY <1>4 DEF NewList
  <2>3. \E k \in DOMAIN NewList(c) : NewList(c)[k] = users[i]
    BY <1>1, <2>1, <2>2, KeepAll, DOMAIN users \ Positions(c.user) \subseteq DOMAIN users
  <2> QED
    BY <1>2, <2>3 DEF HasAdmin
<1>5. CASE c.op \in {"grant", "revoke"}
  BY <1>2, <1>5, NewListType DEF HasAdmin
<1> QED
  BY <1>3, <1>4, <1>5 DEF Changes

LEMMA NextAdministered == Exclusion /\ Administered /\ [Next]_vars => Administered'
<1> SUFFICES ASSUME Exclusion, Administered, [Next]_vars
             PROVE  Administered'
  OBVIOUS
<1>1. HasAdmin(<<Admin>>)
  BY AdminType DEF HasAdmin
<1>2. CASE Load
  BY <1>2 DEF Load, Administered
<1>3. CASE BootOpen
  BY <1>1, <1>3 DEF BootOpen, Torn, Administered
<1>4. CASE BootWrite
  BY <1>4 DEF BootWrite, UsersFile, Administered
<1>5. CASE Restart
  BY <1>5 DEF Restart, Administered
<1>6. ASSUME NEW t \in Threads, Body(t)
      PROVE  Administered'
  <2>1. phase = "serving" /\ phase' = phase /\ file' = file
    BY <1>6 DEF Exclusion, Alone, Body
  <2>2. CASE Changes(call[t])
    <3>1. call[t] \in Call
      BY <2>2 DEF Exclusion, TypeOK, Changes, NoCall
    <3>2. users' = NewList(call[t])
      BY <1>6, <2>2 DEF Body, Changes
    <3> QED
      BY <2>1, <2>2, <3>1, <3>2, NewListHasAdmin DEF Administered, Exclusion
  <2> QED
    BY <1>6, <2>1, <2>2 DEF Body, Administered
<1>7. ASSUME NEW t \in Threads, SaveOpen(t)
      PROVE  Administered'
  BY <1>7 DEF SaveOpen, Torn, Administered
<1>8. ASSUME NEW t \in Threads, SaveWrite(t)
      PROVE  Administered'
  BY <1>8 DEF SaveWrite, UsersFile, Administered, Exclusion, Alone
<1>9. ASSUME NEW t \in Threads, Invoke(t) \/ Lock(t) \/ Unlock(t)
      PROVE  Administered'
  BY <1>9 DEF Invoke, Lock, Unlock, Administered
<1>10. CASE UNCHANGED vars
  BY <1>10 DEF vars, Administered
<1> QED
  BY <1>2, <1>3, <1>4, <1>5, <1>6, <1>7, <1>8, <1>9, <1>10 DEF Next, Step

\* An admin with all rights is there whenever calls are served, and in every
\* list users.dat ever holds, however often the process stops.
THEOREM AdminStays == Spec => []AdminPresent
<1>1. Init => Administered
  BY DEF Init, Boot, NoFile, Administered
<1>2. Administered => AdminPresent
  BY DEF Administered, AdminPresent
<1> QED
  BY <1>1, <1>2, InitExclusion, NextExclusion, NextAdministered, PTL DEF Spec

-----------------------------------------------------------------------------
(* The file.  Between a body that changed the list and the end of its save *)
(* the two differ; a save that could not open the file leaves them so.     *)

Saving(t) == pc[t] \in {"open", "write"}

Saved == phase = "serving" /\ ~ unsaved /\ (\A t \in Threads : ~ Saving(t))
            => file = UsersFile(users)

LEMMA NextSaved == TypeOK /\ Administered /\ Saved /\ [Next]_vars => Saved'
<1> SUFFICES ASSUME TypeOK, Administered, Saved, [Next]_vars,
                    phase' = "serving", ~ unsaved', \A t \in Threads : ~ Saving(t)'
             PROVE  file' = UsersFile(users)'
  BY DEF Saved
<1> USE DEF Saving, UsersFile
<1>1. CASE Load
  <2>1. file.magic = "users" /\ users' = file.users
    BY <1>1 DEF Load, Administered
  <2> QED
    BY <1>1, <2>1 DEF Load, TypeOK
<1>2. CASE BootOpen
  BY <1>2 DEF BootOpen
<1>3. CASE BootWrite
  BY <1>3 DEF BootWrite
<1>4. CASE Restart
  BY <1>4 DEF Restart
<1>5. ASSUME NEW t \in Threads, Body(t)
      PROVE  file' = UsersFile(users)'
  <2>1. pc'[t] # "open"
    OBVIOUS
  <2>2. users' = users /\ file' = file /\ pc[t] = "body" /\ pc' = [pc EXCEPT ![t] = "unlock"]
    BY <1>5, <2>1 DEF Body, TypeOK
  <2> QED
    BY <1>5, <2>2 DEF Body, Saved, TypeOK
<1>6. ASSUME NEW t \in Threads, SaveOpen(t)
      PROVE  file' = UsersFile(users)'
  BY <1>6 DEF SaveOpen, TypeOK
<1>7. ASSUME NEW t \in Threads, SaveWrite(t)
      PROVE  file' = UsersFile(users)'
  BY <1>7 DEF SaveWrite
<1>8. ASSUME NEW t \in Threads, Invoke(t) \/ Lock(t) \/ Unlock(t)
      PROVE  file' = UsersFile(users)'
  BY <1>8 DEF Invoke, Lock, Unlock, Saved, TypeOK
<1>9. CASE UNCHANGED vars
  BY <1>9 DEF vars, Saved
<1> QED
  BY <1>1, <1>2, <1>3, <1>4, <1>5, <1>6, <1>7, <1>8, <1>9 DEF Next, Step

\* Between calls, users.dat is the list in memory unless its last save failed.
THEOREM FileFollowsMemory == Spec => []FileMatchesMemory
<1>1. Init => Administered /\ Saved
  BY DEF Init, Boot, NoFile, Administered, Saved
<1>2. Saved => FileMatchesMemory
  BY DEF Saved, Saving, FileMatchesMemory, Inside
<1> QED
  BY <1>1, <1>2, InitExclusion, NextExclusion, NextAdministered, NextSaved, PTL
     DEF Spec, Exclusion

-----------------------------------------------------------------------------
(* Entries.  GRANT adds an entry only where there is none; REVOKE never    *)
(* adds one, and neither changes what an entry is about.                   *)

SingleEntries(u) ==
    \A p, q \in DOMAIN u.privileges :
        /\ u.privileges[p].db = u.privileges[q].db
        /\ u.privileges[p].table = u.privileges[q].table
        => p = q

AllSingle(us) == \A i \in DOMAIN us : SingleEntries(us[i])

\* Two lists of privileges whose entries are about the same tables.
SameTables(ps, qs) ==
    /\ DOMAIN ps = DOMAIN qs
    /\ \A p \in DOMAIN ps : ps[p].db = qs[p].db /\ ps[p].table = qs[p].table

\* GRANT and REVOKE where there is an entry change its rights alone.
LEMMA ChangedEntry ==
    ASSUME NEW u \in User, NEW c \in Call, c.op \in {"grant", "revoke"},
           Entries(u, c.db, c.table) # {},
           NEW e, e = Min(Entries(u, c.db, c.table))
    PROVE  /\ e \in DOMAIN u.privileges
           /\ SameTables(Granted(u, c).privileges, u.privileges)
           /\ SameTables(Revoked(u, c).privileges, u.privileges)
           /\ Granted(u, c).privileges[e].rights = u.privileges[e].rights \cup c.rights
           /\ Revoked(u, c).privileges[e].rights = u.privileges[e].rights \ c.rights
<1>1. e \in DOMAIN u.privileges
  BY FoundEntry
<1>2. u.privileges \in Seq(Privilege)
  BY DEF User
<1>3. \A p \in DOMAIN u.privileges : u.privileges[p] \in Privilege
  BY <1>2
<1>4. /\ Granted(u, c).privileges =
             [u.privileges EXCEPT ![e].rights = u.privileges[e].rights \cup c.rights]
      /\ Revoked(u, c).privileges =
             [u.privileges EXCEPT ![e].rights = u.privileges[e].rights \ c.rights]
  BY <1>1, <1>2 DEF Granted, Revoked, User
<1>5. ASSUME NEW ps, NEW rs, ps = [u.privileges EXCEPT ![e].rights = rs]
      PROVE  SameTables(ps, u.privileges) /\ ps[e].rights = rs
  BY <1>1, <1>2, <1>3, <1>5 DEF SameTables, Privilege
<1>6. /\ SameTables(Granted(u, c).privileges, u.privileges)
      /\ Granted(u, c).privileges[e].rights = u.privileges[e].rights \cup c.rights
  BY <1>4, <1>5
<1>7. /\ SameTables(Revoked(u, c).privileges, u.privileges)
      /\ Revoked(u, c).privileges[e].rights = u.privileges[e].rights \ c.rights
  BY <1>4, <1>5
<1> QED
  BY <1>1, <1>6, <1>7

\* GRANT where there is no entry adds one at the end.
LEMMA AddedEntry ==
    ASSUME NEW u \in User, NEW c \in Call, c.op \in {"grant", "revoke"},
           Entries(u, c.db, c.table) = {},
           NEW n \in Nat, n = Len(u.privileges) + 1
    PROVE  /\ DOMAIN Granted(u, c).privileges = DOMAIN u.privileges \cup {n}
           /\ n \notin DOMAIN u.privileges
           /\ \A p \in DOMAIN u.privileges : Granted(u, c).privileges[p] = u.privileges[p]
           /\ Granted(u, c).privileges[n] = [db |-> c.db, table |-> c.table, rights |-> c.rights]
<1>1. u.privileges \in Seq(Privilege)
  BY DEF User
<1>2. Granted(u, c).privileges =
        Append(u.privileges, [db |-> c.db, table |-> c.table, rights |-> c.rights])
  BY DEF Granted, User
<1> QED
  BY <1>1, <1>2

LEMMA ChangedSingle ==
    ASSUME NEW u \in User, NEW c \in Call, c.op \in {"grant", "revoke"}, SingleEntries(u)
    PROVE  /\ SingleEntries(Granted(u, c))
           /\ Entries(u, c.db, c.table) # {} => SingleEntries(Revoked(u, c))
<1>1. CASE Entries(u, c.db, c.table) # {}
  <2>1. PICK e : e = Min(Entries(u, c.db, c.table))
    OBVIOUS
  <2> QED
    BY SMTT(30), <1>1, <2>1, ChangedEntry DEF SingleEntries, SameTables
<1>2. CASE Entries(u, c.db, c.table) = {}
  <2>1. PICK n \in Nat : n = Len(u.privileges) + 1
    BY DEF User
  <2>2. \A p \in DOMAIN u.privileges :
          ~ (u.privileges[p].db = c.db /\ u.privileges[p].table = c.table)
    BY <1>2 DEF Entries
  <2>3. PICK ps : ps = Granted(u, c).privileges
    OBVIOUS
  <2>4. /\ DOMAIN ps = DOMAIN u.privileges \cup {n}
        /\ \A p \in DOMAIN u.privileges : ps[p] = u.privileges[p]
        /\ ps[n] = [db |-> c.db, table |-> c.table, rights |-> c.rights]
    BY <1>2, <2>1, <2>3, AddedEntry
  <2>5. SingleEntries(Granted(u, c))
    BY <2>2, <2>3, <2>4 DEF SingleEntries
  <2> QED
    BY <1>2, <2>5
<1> QED
  BY <1>1, <1>2

\* What GRANT and REVOKE put where the user was.
LEMMA NewListEntry ==
    ASSUME TypeOK, NEW c \in Call, Changes(c), c.op \in {"grant", "revoke"},
           NEW i, i = Min(Positions(c.user))
    PROVE  /\ i \in DOMAIN users /\ users[i] \in User /\ users[i].name = c.user
           /\ c.op = "revoke" => Entries(users[i], c.db, c.table) # {}
           /\ NewList(c) = [users EXCEPT ![i] =
                IF c.op = "grant" THEN Granted(users[i], c) ELSE Revoked(users[i], c)]
<1>1. userExists(c.user)
  BY DEF Changes, Refuses
<1>2. i \in DOMAIN users /\ users[i] \in User /\ users[i].name = c.user
  BY <1>1, FoundUser DEF TypeOK
<1>3. c.op = "revoke" => Entries(users[i], c.db, c.table) # {}
  BY DEF Changes, UserAt
<1> QED
  BY <1>2, <1>3 DEF NewList

LEMMA NewListSingle ==
    ASSUME TypeOK, AllSingle(users), NEW c \in Call, Changes(c)
    PROVE  AllSingle(NewList(c))
<1>1. users \in Seq(User)
  BY DEF TypeOK
<1>2. CASE c.op = "createUser"
  <2> DEFINE u == NewUser(c.user, c.password, c.role)
  <2>1. SingleEntries(u)
    BY DEF SingleEntries, NewUser
  <2>2. NewList(c) = Append(users, u)
    BY <1>2 DEF NewList
  <2> HIDE DEF u
  <2> QED
    BY <1>1, <2>1, <2>2 DEF AllSingle
<1>3. CASE c.op = "dropUser"
  <2> DEFINE S == DOMAIN users \ Positions(c.user)
  <2>1. \A k \in DOMAIN Keep(users, S) : Nth(S, k) \in S /\ Keep(users, S)[k] = users[Nth(S, k)]
    BY <1>1, KeepType, S \subseteq DOMAIN users
  <2>2. NewList(c) = Keep(users, S)
    BY <1>3 DEF NewList
  <2> QED
    BY <2>1, <2>2 DEF AllSingle
<1>4. CASE c.op \in {"grant", "revoke"}
  <2>1. PICK i : i = Min(Positions(c.user))
    OBVIOUS
  <2>2. PICK new : new = IF c.op = "grant" THEN Granted(users[i], c) ELSE Revoked(users[i], c)
    OBVIOUS
  <2>3. i \in DOMAIN users /\ NewList(c) = [users EXCEPT ![i] = new]
    BY <1>4, <2>1, <2>2, NewListEntry
  <2>4. SingleEntries(new)
    BY <1>4, <2>1, <2>2, NewListEntry, ChangedSingle DEF AllSingle
  <2> QED
    BY <1>1, <2>3, <2>4 DEF AllSingle
<1> QED
  BY <1>2, <1>3, <1>4 DEF Changes

\* Induction step of EntriesUnique, in memory and in users.dat.
LEMMA NextSingle ==
    TypeOK /\ AllSingle(users) /\ AllSingle(file.users) /\ [Next]_vars
        => AllSingle(users)' /\ AllSingle(file.users)'
<1> SUFFICES ASSUME TypeOK, AllSingle(users), AllSingle(file.users), [Next]_vars
             PROVE  AllSingle(users)' /\ AllSingle(file.users)'
  OBVIOUS
<1>1. AllSingle(<<Admin>>) /\ AllSingle(<<>>)
  BY DEF AllSingle, SingleEntries, Admin, NewUser
<1>2. CASE Load
  BY <1>2 DEF Load
<1>3. CASE BootOpen
  BY <1>1, <1>3 DEF BootOpen, Torn
<1>4. CASE BootWrite
  BY <1>4 DEF BootWrite, UsersFile
<1>5. CASE Restart
  BY <1>1, <1>5 DEF Restart
<1>6. ASSUME NEW t \in Threads, Body(t)
      PROVE  AllSingle(users)' /\ AllSingle(file.users)'
  <2>1. CASE Changes(call[t])
    <3>1. call[t] \in Call
      BY <2>1 DEF TypeOK, Changes, NoCall
    <3>2. users' = NewList(call[t]) /\ file' = file
      BY <1>6, <2>1 DEF Body, Changes
    <3> QED
      BY <2>1, <3>1, <3>2, NewListSingle
  <2> QED
    BY <1>6, <2>1 DEF Body
<1>7. ASSUME NEW t \in Threads, SaveOpen(t)
      PROVE  AllSingle(users)' /\ AllSingle(file.users)'
  BY <1>1, <1>7 DEF SaveOpen, Torn
<1>8. ASSUME NEW t \in Threads, SaveWrite(t)
      PROVE  AllSingle(users)' /\ AllSingle(file.users)'
  BY <1>8 DEF SaveWrite, UsersFile
<1>9. ASSUME NEW t \in Threads, Invoke(t) \/ Lock(t) \/ Unlock(t)
      PROVE  AllSingle(users)' /\ AllSingle(file.users)'
  BY <1>9 DEF Invoke, Lock, Unlock
<1>10. CASE UNCHANGED vars
  BY <1>10 DEF vars
<1> QED
  BY <1>2, <1>3, <1>4, <1>5, <1>6, <1>7, <1>8, <1>9, <1>10 DEF Next, Step

\* No user ever has two entries for one table, so that a REVOKE finds all a
\* GRANT gave for it.
THEOREM EntriesStayUnique == Spec => []EntriesUnique
<1>1. Init => AllSingle(users) /\ AllSingle(file.users)
  BY DEF Init, Boot, NoFile, AllSingle
<1>2. AllSingle(users) => EntriesUnique
  BY DEF AllSingle, SingleEntries, EntriesUnique
<1> QED
  BY <1>1, <1>2, InitTypeOK, NextTypeOK, NextSingle, PTL DEF Spec

-----------------------------------------------------------------------------
(* What a call did is there when it ends.  From the body on, until the     *)
(* thread gives the mutex back, no other call changes the list.            *)

AllowedBy(u, c) ==
    /\ Entries(u, c.db, c.table) # {}
    /\ c.rights \subseteq u.privileges[Min(Entries(u, c.db, c.table))].rights

DeniedBy(u, c) ==
    Entries(u, c.db, c.table) # {} =>
        c.rights \cap u.privileges[Min(Entries(u, c.db, c.table))].rights = {}

Effective(c) ==
    /\ c.op = "createUser" => authenticate(c.user, c.password)
    /\ c.op = "grant" => userExists(c.user) /\ AllowedBy(UserAt(c.user), c)
    /\ c.op = "revoke" => DeniedBy(UserAt(c.user), c)

Answered(t) == pc[t] = "unlock" /\ reply[t]

Effects ==
    \A t \in Threads :
        /\ pc[t] # "unlock" => ~ reply[t]
        /\ \A c \in Call : call[t] = c /\ (Saving(t) \/ Answered(t)) => Effective(c)
        /\ Ends(t, "createUser") => file = UsersFile(users)

\* GRANT leaves an entry with the rights, REVOKE one without them.
LEMMA ChangedRights ==
    ASSUME NEW u \in User, NEW c \in Call, c.op \in {"grant", "revoke"}
    PROVE  /\ AllowedBy(Granted(u, c), c)
           /\ Entries(u, c.db, c.table) # {} => DeniedBy(Revoked(u, c), c)
<1>1. CASE Entries(u, c.db, c.table) # {}
  <2>1. PICK e : e = Min(Entries(u, c.db, c.table))
    OBVIOUS
  <2>2. /\ Entries(Granted(u, c), c.db, c.table) = Entries(u, c.db, c.table)
        /\ Entries(Revoked(u, c), c.db, c.table) = Entries(u, c.db, c.table)
    BY <1>1, <2>1, ChangedEntry DEF SameTables, Entries
  <2>3. /\ Granted(u, c).privileges[e].rights = u.privileges[e].rights \cup c.rights
        /\ Revoked(u, c).privileges[e].rights = u.privileges[e].rights \ c.rights
    BY <1>1, <2>1, ChangedEntry
  <2> QED
    BY <1>1, <2>1, <2>2, <2>3 DEF AllowedBy, DeniedBy
<1>2. CASE Entries(u, c.db, c.table) = {}
  <2>1. PICK n \in Nat : n = Len(u.privileges) + 1
    BY DEF User
  <2>2. PICK v : v = Granted(u, c)
    OBVIOUS
  <2>3. /\ DOMAIN v.privileges = DOMAIN u.privileges \cup {n}
        /\ \A p \in DOMAIN u.privileges : v.privileges[p] = u.privileges[p]
        /\ v.privileges[n] = [db |-> c.db, table |-> c.table, rights |-> c.rights]
    BY <1>2, <2>1, <2>2, AddedEntry
  <2>4. \A p \in DOMAIN u.privileges :
          ~ (u.privileges[p].db = c.db /\ u.privileges[p].table = c.table)
    BY <1>2 DEF Entries
  <2>5. Entries(v, c.db, c.table) = {n}
    BY <2>3, <2>4 DEF Entries
  <2>6. Min({n}) = n
    BY MinIsLeast
  <2>7. v.privileges[n].rights = c.rights
    BY <2>3
  <2> QED
    BY <1>2, <2>2, <2>5, <2>6, <2>7 DEF AllowedBy
<1> QED
  BY <1>1, <1>2

\* The body that changes the list does what the call asked for.
LEMMA BodyEffective ==
    ASSUME TypeOK, NEW c \in Call, Changes(c), users' = NewList(c)
    PROVE  Effective(c)'
<1>1. users \in Seq(User)
  BY DEF TypeOK
<1>2. CASE c.op = "createUser"
  <2>1. PICK u : u = NewUser(c.user, c.password, c.role)
    OBVIOUS
  <2>2. u.name = c.user /\ u.passwordHash = hashPassword[c.password]
    BY <2>1 DEF NewUser
  <2>3. users' = Append(users, u)
    BY <1>2, <2>1 DEF NewList
  <2>4. PICK n \in DOMAIN users' : users'[n] = u
    BY <1>1, <2>3
  <2> QED
    BY <1>2, <2>2, <2>4 DEF Effective, authenticate, Positions
<1>3. CASE c.op \in {"grant", "revoke"}
  <2>1. PICK i : i = Min(Positions(c.user))
    OBVIOUS
  <2>2. PICK new : new = IF c.op = "grant" THEN Granted(users[i], c) ELSE Revoked(users[i], c)
    OBVIOUS
  <2>3. i \in DOMAIN users /\ users' = [users EXCEPT ![i] = new]
    BY <1>3, <2>1, <2>2, NewListEntry
  <2>4. \A j \in DOMAIN users : users'[j].name = users[j].name
    BY <1>3, NewListType
  <2>5. Positions(c.user)' = Positions(c.user) /\ Positions(c.user) # {}
    BY <1>3, <2>3, <2>4 DEF Positions, Changes, Refuses, userExists
  <2>6. UserAt(c.user)' = new /\ userExists(c.user)'
    BY <1>1, <2>1, <2>3, <2>5 DEF UserAt, userExists
  <2>7. /\ c.op = "grant" => AllowedBy(new, c)
        /\ c.op = "revoke" => DeniedBy(new, c)
    BY <1>3, <2>1, <2>2, NewListEntry, ChangedRights
  <2> QED
    BY <1>3, <2>6, <2>7 DEF Effective
<1>4. CASE c.op \notin {"createUser", "grant", "revoke"}
  BY <1>4 DEF Effective
<1> QED
  BY <1>2, <1>3, <1>4

\* Nothing but the list says whether a call has had its effect.
LEMMA SameEffect ==
    ASSUME NEW c, users' = users
    PROVE  Effective(c)' = Effective(c)
<1>1. \A name : Positions(name)' = Positions(name)
  BY DEF Positions
<1> QED
  BY <1>1 DEF Effective, authenticate, userExists, UserAt

LEMMA NextEffects == Exclusion /\ Effects /\ [Next]_vars => Effects'
<1> SUFFICES ASSUME Exclusion, Effects, [Next]_vars
             PROVE  Effects'
  OBVIOUS
<1> USE DEF Saving, Answered, Ends
<1>1. CASE Load \/ BootOpen \/ BootWrite
  <2>1. \A t \in Threads : pc[t] = "idle" /\ pc' = pc /\ reply' = reply
    BY <1>1 DEF Exclusion, Alone, Load, BootOpen, BootWrite
  <2> QED
    BY <2>1 DEF Effects
<1>2. CASE Restart
  BY <1>2 DEF Restart, Effects
<1>3. ASSUME NEW s \in Threads, Invoke(s) \/ Lock(s) \/ Unlock(s)
      PROVE  Effects'
  <2>1. users' = users /\ file' = file
    BY <1>3 DEF Invoke, Lock, Unlock
  <2>2. \A t \in Threads : t # s => pc'[t] = pc[t] /\ call'[t] = call[t] /\ reply'[t] = reply[t]
    BY <1>3 DEF Invoke, Lock, Unlock, Exclusion, TypeOK
  <2>3. pc'[s] \in {"lock", "body", "idle"} /\ ~ reply'[s]
    BY <1>3 DEF Invoke, Lock, Unlock, Effects, Exclusion, TypeOK
  <2> QED
    BY <2>1, <2>2, <2>3, SameEffect DEF Effects, UsersFile
<1>4. ASSUME NEW s \in Threads, Body(s)
      PROVE  Effects'
  <2>1. \A t \in Threads : t # s => ~ Inside(t)
    BY <1>4 DEF Body, Exclusion, MutualExclusion, Inside
  <2>2. \A t \in Threads : t # s => ~ Saving(t)' /\ pc'[t] # "unlock" /\ ~ reply'[t]
    BY <1>4, <2>1 DEF Body, Inside, Effects, Exclusion, TypeOK
  <2>3. call' = call /\ file' = file /\ pc[s] = "body" /\ ~ reply[s]
    BY <1>4 DEF Body, Effects
  <2>4. CASE Refuses(call[s])
    <3>1. pc'[s] = "unlock" /\ reply' = reply
      BY <1>4, <2>4 DEF Body, Changes, Exclusion, TypeOK
    <3> QED
      BY <2>2, <2>3, <3>1 DEF Effects
  <2>5. CASE Changes(call[s])
    <3>1. pc'[s] = "open" /\ reply' = reply /\ users' = NewList(call[s])
      BY <1>4, <2>5 DEF Body, Changes, Exclusion, TypeOK
    <3>2. \A c \in Call : call[s] = c => Effective(c)'
      BY <2>5, <3>1, BodyEffective DEF Exclusion
    <3> QED
      BY <2>2, <2>3, <3>1, <3>2 DEF Effects
  <2>6. CASE ~ Refuses(call[s]) /\ ~ Changes(call[s])
    <3>1. pc'[s] = "unlock" /\ users' = users
      BY <1>4, <2>6 DEF Body, Exclusion, TypeOK
    <3>2. \A c \in Call : call[s] = c => c.op \notin {"createUser", "grant"} /\ Effective(c)
      BY <2>6 DEF Changes, Effective, DeniedBy
    <3>3. call[s].op # "createUser"
      BY <2>6 DEF Changes
    <3> QED
      BY <2>2, <2>3, <3>1, <3>2, <3>3, SameEffect DEF Effects
  <2> QED
    BY <2>4, <2>5, <2>6
<1>5. ASSUME NEW s \in Threads, SaveOpen(s) \/ SaveWrite(s)
      PROVE  Effects'
  <2>1. /\ users' = users /\ call' = call /\ Saving(s) /\ ~ reply[s]
        /\ \A t \in Threads : t # s => ~ Inside(t)
    BY <1>5 DEF SaveOpen, SaveWrite, Effects, Exclusion, MutualExclusion, Inside
  <2>2. \A t \in Threads : t # s => ~ Saving(t)' /\ pc'[t] # "unlock" /\ ~ reply'[t]
    BY <1>5, <2>1 DEF SaveOpen, SaveWrite, Inside, Effects, Exclusion, TypeOK
  <2>3. /\ pc'[s] # "unlock" => ~ reply'[s]
        /\ pc'[s] = "unlock" /\ reply'[s] => file' = UsersFile(users)'
    BY <1>5, <2>1 DEF SaveOpen, SaveWrite, UsersFile, Exclusion, TypeOK
  <2> QED
    BY <2>1, <2>2, <2>3, SameEffect DEF Effects
<1>6. CASE UNCHANGED vars
  BY <1>6, SameEffect DEF vars, Effects, UsersFile
<1> QED
  BY <1>1, <1>2, <1>3, <1>4, <1>5, <1>6 DEF Next, Step

LEMMA InitEffects == Init => Effects
BY DEF Init, Boot, Effects, Saving, Answered, Ends

\* Where no older entry matches, the entry of the call decides.
LEMMA EntryDecides ==
    ASSUME NEW u \in User, NEW c \in Call, c.op \in {"grant", "revoke"},
           Entries(u, c.db, c.table) # {},
           NEW e, e = Min(Entries(u, c.db, c.table)),
           \A p \in Matches(u, c.db, c.table) : ~ (p < e)
    PROVE  Matches(u, c.db, c.table) # {} /\ Min(Matches(u, c.db, c.table)) = e
<1>1. /\ Entries(u, c.db, c.table) \subseteq Matches(u, c.db, c.table)
      /\ Matches(u, c.db, c.table) \subseteq Nat
  BY DEF Entries, Matches, User
<1>2. e \in Entries(u, c.db, c.table)
  BY <1>1, MinIsLeast
<1>3. /\ Min(Matches(u, c.db, c.table)) \in Matches(u, c.db, c.table)
      /\ Min(Matches(u, c.db, c.table)) <= e
  BY <1>1, <1>2, MinIsLeast
<1> QED
  BY <1>1, <1>2, <1>3

\* A call that is answered finds its user as Effective says.
LEMMA AnsweredEffective ==
    ASSUME TypeOK, Effects, NEW t \in Threads, Answered(t), call[t].op # "none"
    PROVE  call[t] \in Call /\ Effective(call[t])
<1>1. call[t] \in Call
  BY DEF TypeOK, NoCall
<1> QED
  BY <1>1 DEF Effects

\* A user who was created with success can authenticate, and users.dat has
\* the user, however many others call at the same time.
THEOREM CreatedStays == Spec => []CreatedUserIsSaved
<1>1. TypeOK /\ Effects => CreatedUserIsSaved
  BY AnsweredEffective DEF CreatedUserIsSaved, Effects, Ends, Answered, Effective
<1> QED
  BY <1>1, InitExclusion, NextExclusion, InitEffects, NextEffects, PTL DEF Spec, Exclusion

\* What a GRANT gave is allowed when it answers, unless an older entry for
\* all tables decides.
THEOREM GrantsAllow == Spec => []GrantTakesEffect
<1>1. TypeOK /\ Effects => GrantTakesEffect
  <2> SUFFICES ASSUME TypeOK, Effects, NEW t \in Threads, Ends(t, "grant"),
                      ~ Shadowed(call[t]), NEW r \in call[t].rights
               PROVE  checkPrivilege(call[t].user, call[t].db, call[t].table, r)
    BY DEF GrantTakesEffect
  <2>1. PICK c : c = call[t]
    OBVIOUS
  <2>2. c \in Call /\ Effective(c) /\ c.op = "grant"
    BY <2>1, AnsweredEffective DEF Ends, Answered
  <2>3. PICK u : u = UserAt(c.user)
    OBVIOUS
  <2>4. userExists(c.user) /\ u \in User /\ AllowedBy(u, c)
    BY <2>2, <2>3, FoundUser DEF Effective
  <2>5. PICK e : e = Min(Entries(u, c.db, c.table))
    OBVIOUS
  <2>6. \A p \in Matches(u, c.db, c.table) : ~ (p < e)
    BY <2>1, <2>3, <2>5 DEF Shadowed, Entry
  <2>7. Matches(u, c.db, c.table) # {} /\ Min(Matches(u, c.db, c.table)) = e
    BY <2>2, <2>4, <2>5, <2>6, EntryDecides DEF AllowedBy
  <2>8. r \in u.privileges[e].rights
    BY <2>1, <2>4, <2>5 DEF AllowedBy
  <2> QED
    BY <2>1, <2>3, <2>4, <2>7, <2>8 DEF checkPrivilege
<1> QED
  BY <1>1, InitExclusion, NextExclusion, InitEffects, NextEffects, PTL DEF Spec, Exclusion

\* What a REVOKE took from an entry is refused when it answers, under the
\* same condition, to everybody but an ADMIN.
THEOREM RevokesDeny == Spec => []RevokeTakesEffect
<1>1. TypeOK /\ Effects => RevokeTakesEffect
  <2> SUFFICES ASSUME TypeOK, Effects, NEW t \in Threads, Ends(t, "revoke"),
                      getRole(call[t].user) # "ADMIN",
                      Entries(UserAt(call[t].user), call[t].db, call[t].table) # {},
                      ~ Shadowed(call[t]), NEW r \in call[t].rights,
                      checkPrivilege(call[t].user, call[t].db, call[t].table, r)
               PROVE  FALSE
    BY DEF RevokeTakesEffect
  <2>1. PICK c : c = call[t]
    OBVIOUS
  <2>2. c \in Call /\ Effective(c) /\ c.op = "revoke"
    BY <2>1, AnsweredEffective DEF Ends, Answered
  <2>3. PICK u : u = UserAt(c.user)
    OBVIOUS
  <2>4. userExists(c.user) /\ u \in User /\ DeniedBy(u, c) /\ u.role # "ADMIN"
    BY <2>1, <2>2, <2>3, FoundUser DEF Effective, checkPrivilege, getRole
  <2>5. PICK e : e = Min(Entries(u, c.db, c.table))
    OBVIOUS
  <2>6. /\ Entries(u, c.db, c.table) # {}
        /\ \A p \in Matches(u, c.db, c.table) : ~ (p < e)
    BY <2>1, <2>3, <2>5 DEF Shadowed, Entry
  <2>7. Matches(u, c.db, c.table) # {} /\ Min(Matches(u, c.db, c.table)) = e
    BY <2>2, <2>4, <2>5, <2>6, EntryDecides
  <2>8. r \notin u.privileges[e].rights
    BY <2>1, <2>4, <2>5, <2>6 DEF DeniedBy
  <2> QED
    BY <2>1, <2>3, <2>4, <2>7, <2>8 DEF checkPrivilege
<1> QED
  BY <1>1, InitExclusion, NextExclusion, InitEffects, NextEffects, PTL DEF Spec, Exclusion
=============================================================================
