---------------------------- MODULE AuthManager -----------------------------
(***************************************************************************)
(* Users, roles and privileges of chapaBD (auth/AuthManager.cpp): the list *)
(* in memory, its copy in users.dat, and the mutex every call holds from   *)
(* its first line to its return, the rewrite of the file included.         *)
(*                                                                         *)
(* users.dat fits one stream buffer: a rewrite is a truncation and, when   *)
(* the stream is closed, one write.  The process may stop in between.      *)
(***************************************************************************)
EXTENDS Positions

CONSTANTS
    Threads, NoThread,  \* callers of the singleton, and the mutex when free
    UserName,           \* names, "admin" among them
    Password,
    hashPassword,       \* the hash of each password, not nec. one to one
    Db, Table,          \* what a privilege may be on
    Any,                \* the wildcard: a GRANT may be ON * instead of a table
    Calls               \* the calls each thread may make

ASSUME NamesAssumption ==
    /\ "admin" \in UserName /\ "admin" \in Password
    /\ NoThread \notin Threads
    /\ hashPassword \in [Password -> Nat]

Role      == {"ADMIN", "READWRITE", "READONLY"}
Right     == {"select", "insert", "update", "delete"}
Privilege == [db : Db, table : Table, rights : SUBSET Right]
User      == [name : UserName, passwordHash : Nat, role : Role, privileges : Seq(Privilege)]

Call ==
         [op : {"createUser"}, user : UserName, password : Password, role : Role]
    \cup [op : {"dropUser", "getRole"}, user : UserName]
    \cup [op : {"authenticate"}, user : UserName, password : Password]
    \cup [op : {"grant", "revoke"}, user : UserName, db : Db, table : Table, rights : SUBSET Right]
    \cup [op : {"check"}, user : UserName, db : Db, table : Table, right : Right]
    \cup [op : {"listUsers"}]

ASSUME CallsAssumption == Calls \in [Threads -> SUBSET Call]

NoCall == [op |-> "none"]
NoFile == [magic |-> "absent", users |-> <<>>]
Torn   == [magic |-> "empty", users |-> <<>>]
UsersFile(us) == [magic |-> "users", users |-> us]

VARIABLES
    users,          \* m_users
    file,           \* users.dat
    phase,          \* how far main() is in AuthManager::init
    mutex,          \* m_mutex: its holder
    pc, call,       \* the step and the call of each thread
    reply,          \* what the call returned; FALSE for an exception
    unsaved         \* history: the last save could not open its file

vars == <<users, file, phase, mutex, pc, call, reply, unsaved>>

-----------------------------------------------------------------------------
(* Lookups.                                                                *)

\* The loops stop at the first position that matches.
Positions(name) == {i \in DOMAIN users : users[i].name = name}
userExists(name) == Positions(name) # {}
UserAt(name) == users[Min(Positions(name))]

authenticate(name, password) ==
    \E i \in Positions(name) : users[i].passwordHash = hashPassword[password]

getRole(name) == IF userExists(name) THEN UserAt(name).role ELSE "READONLY"

\* The entries for that table, wildcards included.
Matches(u, db, table) ==
    {p \in DOMAIN u.privileges :
        u.privileges[p].db \in {db, Any} /\ u.privileges[p].table \in {table, Any}}

\* The first of them decides; without one only an ADMIN may do anything, and
\* a READONLY user may select.
checkPrivilege(name, db, table, right) ==
    LET u     == UserAt(name)
        match == Matches(u, db, table)
    IN  /\ userExists(name)
        /\ \/ u.role = "ADMIN"
           \/ match # {} /\ right \in u.privileges[Min(match)].rights
           \/ match = {} /\ u.role = "READONLY" /\ right = "select"

-----------------------------------------------------------------------------
(* Changes to the list.                                                    *)

\* Mutant: the hash is read back as a signed number.
NewUserSigned(name, password, role) ==
    [name |-> name, passwordHash |-> 0 - hashPassword[password], role |-> role, privileges |-> <<>>]

NewUser(name, password, role) ==
    [name |-> name, passwordHash |-> hashPassword[password], role |-> role, privileges |-> <<>>]

Admin == NewUser("admin", "admin", "ADMIN")

Entries(u, db, table) ==
    {p \in DOMAIN u.privileges : u.privileges[p].db = db /\ u.privileges[p].table = table}

\* Mutants: every GRANT adds an entry; a GRANT never changes an entry.
GrantedAgain(u, c) ==
    [u EXCEPT !.privileges = Append(@, [db |-> c.db, table |-> c.table, rights |-> c.rights])]
GrantedOnce(u, c) == IF Entries(u, c.db, c.table) # {} THEN u ELSE GrantedAgain(u, c)

Granted(u, c) ==
    LET e == Entries(u, c.db, c.table)
    IN  IF e # {}
        THEN [u EXCEPT !.privileges[Min(e)].rights = @ \cup c.rights]
        ELSE [u EXCEPT !.privileges = Append(@, [db |-> c.db, table |-> c.table, rights |-> c.rights])]

\* Mutant: an entry loses its rights only if they are those of the REVOKE.
RevokedExactly(u, c) ==
    [u EXCEPT !.privileges[Min(Entries(u, c.db, c.table))].rights =
        IF @ = c.rights THEN {} ELSE @]

Revoked(u, c) ==
    [u EXCEPT !.privileges[Min(Entries(u, c.db, c.table))].rights = @ \ c.rights]

\* Mutants: createUser does not look for the name; dropUser drops anybody.
RefusesNoDuplicate(c) ==
    \/ c.op = "dropUser" /\ (c.user = "admin" \/ ~ userExists(c.user))
    \/ c.op \in {"grant", "revoke"} /\ ~ userExists(c.user)
RefusesNoAdmin(c) ==
    \/ c.op = "createUser" /\ userExists(c.user)
    \/ c.op \in {"dropUser", "grant", "revoke"} /\ ~ userExists(c.user)

\* The call throws before it changes anything.
Refuses(c) ==
    \/ c.op = "createUser" /\ userExists(c.user)
    \/ c.op = "dropUser" /\ (c.user = "admin" \/ ~ userExists(c.user))
    \/ c.op \in {"grant", "revoke"} /\ ~ userExists(c.user)

\* The call changes the list, and so saves it.
Changes(c) ==
    /\ ~ Refuses(c)
    /\ \/ c.op \in {"createUser", "dropUser", "grant"}
       \/ c.op = "revoke" /\ Entries(UserAt(c.user), c.db, c.table) # {}

NewList(c) ==
    LET i == Min(Positions(c.user))
    IN  CASE c.op = "createUser" -> Append(users, NewUser(c.user, c.password, c.role))
          [] c.op = "dropUser"   -> Keep(users, DOMAIN users \ Positions(c.user))
          [] c.op = "grant"      -> [users EXCEPT ![i] = Granted(users[i], c)]
          [] c.op = "revoke"     -> [users EXCEPT ![i] = Revoked(users[i], c)]

\* What a call that changes nothing returns.
Answer(c) ==
    CASE c.op = "authenticate" -> authenticate(c.user, c.password)
      [] c.op = "check"        -> checkPrivilege(c.user, c.db, c.table, c.right)
      [] OTHER                 -> TRUE

-----------------------------------------------------------------------------
(* main() calls init before any thread exists.                             *)

Boot ==
    /\ users = <<>> /\ phase = "load" /\ mutex = NoThread
    /\ pc    = [t \in Threads |-> "idle"]
    /\ call  = [t \in Threads |-> NoCall]
    /\ reply = [t \in Threads |-> FALSE]
    /\ unsaved = FALSE

Init == Boot /\ file = NoFile

\* Mutant: load() skips the privileges of a user.
LoadWithoutPrivileges ==
    /\ phase = "load"
    /\ users' = [i \in DOMAIN file.users |-> [file.users[i] EXCEPT !.privileges = <<>>]]
    /\ phase' = IF users' = <<>> THEN "open" ELSE "serving"
    /\ UNCHANGED <<file, mutex, pc, call, reply, unsaved>>

\* In an empty file the magic number is read from a variable nobody set
\* (AuthManager.cpp:56); it is taken to be another one, as nothing has had
\* the number of users.dat in the process before this read.
Load ==
    /\ phase = "load"
    /\ users' = IF file.magic = "users" THEN file.users ELSE users
    /\ phase' = IF users' = <<>> THEN "open" ELSE "serving"
    /\ UNCHANGED <<file, mutex, pc, call, reply, unsaved>>

\* Nobody is known: admin is, and the list is saved.  Should users.dat not
\* open, the exception leaves main() and the process ends: Restart.
BootOpen ==
    /\ phase = "open"
    /\ users' = <<Admin>>
    /\ file' = Torn
    /\ phase' = "write"
    /\ UNCHANGED <<mutex, pc, call, reply, unsaved>>

BootWrite ==
    /\ phase = "write"
    /\ file' = UsersFile(users)
    /\ phase' = "serving"
    /\ UNCHANGED <<users, mutex, pc, call, reply, unsaved>>

\* The process stops, anywhere, and is started again.
Restart ==
    /\ users' = <<>> /\ phase' = "load" /\ mutex' = NoThread
    /\ pc'    = [t \in Threads |-> "idle"]
    /\ call'  = [t \in Threads |-> NoCall]
    /\ reply' = [t \in Threads |-> FALSE]
    /\ unsaved' = FALSE
    /\ UNCHANGED file

-----------------------------------------------------------------------------
(* A call of one thread.                                                   *)

Invoke(t) ==
    /\ phase = "serving" /\ pc[t] = "idle"
    /\ \E c \in Calls[t] : call' = [call EXCEPT ![t] = c]
    /\ pc' = [pc EXCEPT ![t] = "lock"]
    /\ UNCHANGED <<users, file, phase, mutex, reply, unsaved>>

\* Mutant: a call does not wait for the mutex.
LockAtOnce(t) ==
    /\ pc[t] = "lock"
    /\ mutex' = t
    /\ pc' = [pc EXCEPT ![t] = "body"]
    /\ UNCHANGED <<users, file, phase, call, reply, unsaved>>

Lock(t) ==
    /\ pc[t] = "lock" /\ mutex = NoThread
    /\ mutex' = t
    /\ pc' = [pc EXCEPT ![t] = "body"]
    /\ UNCHANGED <<users, file, phase, call, reply, unsaved>>

\* The body up to save(), or all of it.
Body(t) ==
    LET c == call[t]
    IN  /\ pc[t] = "body"
        /\ \/ /\ Refuses(c)
              /\ pc' = [pc EXCEPT ![t] = "unlock"]
              /\ UNCHANGED <<users, reply>>
           \/ /\ Changes(c)
              /\ users' = NewList(c)
              /\ pc' = [pc EXCEPT ![t] = "open"]
              /\ UNCHANGED reply
           \/ /\ ~ Refuses(c) /\ ~ Changes(c)
              /\ reply' = [reply EXCEPT ![t] = Answer(c)]
              /\ pc' = [pc EXCEPT ![t] = "unlock"]
              /\ UNCHANGED users
        /\ UNCHANGED <<file, phase, mutex, call, unsaved>>

\* Mutant: save() returns when it cannot open its file.
SaveOpenQuietly(t) ==
    /\ pc[t] = "open"
    /\ \/ /\ file' = Torn
          /\ pc' = [pc EXCEPT ![t] = "write"]
          /\ UNCHANGED <<unsaved, reply>>
       \/ /\ unsaved' = TRUE
          /\ reply' = [reply EXCEPT ![t] = TRUE]
          /\ pc' = [pc EXCEPT ![t] = "unlock"]
          /\ UNCHANGED file
    /\ UNCHANGED <<users, phase, mutex, call>>

\* users.dat is truncated, or it cannot be opened: save() then throws, and
\* the list in memory stays changed.
SaveOpen(t) ==
    /\ pc[t] = "open"
    /\ \/ /\ file' = Torn
          /\ pc' = [pc EXCEPT ![t] = "write"]
          /\ UNCHANGED unsaved
       \/ /\ unsaved' = TRUE
          /\ pc' = [pc EXCEPT ![t] = "unlock"]
          /\ UNCHANGED file
    /\ UNCHANGED <<users, phase, mutex, call, reply>>

SaveWrite(t) ==
    /\ pc[t] = "write"
    /\ file' = UsersFile(users)
    /\ unsaved' = FALSE
    /\ reply' = [reply EXCEPT ![t] = TRUE]
    /\ pc' = [pc EXCEPT ![t] = "unlock"]
    /\ UNCHANGED <<users, phase, mutex, call>>

\* Mutant: an exception leaves the mutex locked.
UnlockOnReturn(t) ==
    /\ pc[t] = "unlock"
    /\ mutex' = IF reply[t] THEN NoThread ELSE mutex
    /\ pc'    = [pc EXCEPT ![t] = "idle"]
    /\ call'  = [call EXCEPT ![t] = NoCall]
    /\ reply' = [reply EXCEPT ![t] = FALSE]
    /\ UNCHANGED <<users, file, phase, unsaved>>

\* The lock_guard goes out of scope, by return or by exception.
Unlock(t) ==
    /\ pc[t] = "unlock"
    /\ mutex' = NoThread
    /\ pc'    = [pc EXCEPT ![t] = "idle"]
    /\ call'  = [call EXCEPT ![t] = NoCall]
    /\ reply' = [reply EXCEPT ![t] = FALSE]
    /\ UNCHANGED <<users, file, phase, unsaved>>

Step(t) == Lock(t) \/ Body(t) \/ SaveOpen(t) \/ SaveWrite(t) \/ Unlock(t)

Next ==
    \/ Load \/ BootOpen \/ BootWrite
    \/ \E t \in Threads : Invoke(t) \/ Step(t)
    \/ Restart

Spec == Init /\ [][Next]_vars

\* main() and every thread go on running until the process stops.
FairSpec == Spec /\ WF_vars(Load) /\ WF_vars(BootOpen) /\ WF_vars(BootWrite)
                 /\ \A t \in Threads : WF_vars(Step(t))

-----------------------------------------------------------------------------
(* Properties.                                                             *)

\* Every variable has its type: AuthManager.h.
TypeOK ==
    /\ users \in Seq(User)
    /\ file  \in [magic : {"absent", "empty", "users"}, users : Seq(User)]
    /\ phase \in {"load", "open", "write", "serving"}
    /\ mutex \in Threads \cup {NoThread}
    /\ pc    \in [Threads -> {"idle", "lock", "body", "open", "write", "unlock"}]
    /\ call  \in [Threads -> Call \cup {NoCall}]
    /\ reply \in [Threads -> BOOLEAN]
    /\ unsaved \in BOOLEAN

Inside(t) == pc[t] \in {"body", "open", "write", "unlock"}

\* At most one thread is between lock and unlock (m_mutex), so a save never
\* runs against another save or sees a list that is being changed.
MutualExclusion == \A t \in Threads : Inside(t) => mutex = t

Unique(us) == \A i, j \in DOMAIN us : us[i].name = us[j].name => i = j

\* No name is given to two users, in memory or in users.dat, whoever calls
\* createUser at the same time (AuthManager.cpp:147-159).
UserNamesUnique == Unique(users) /\ Unique(file.users)

HasAdmin(us) == \E i \in DOMAIN us : us[i].name = "admin" /\ us[i].role = "ADMIN"

\* While calls are served there is an admin with the role ADMIN, also after
\* a stop in the middle of a save (init, dropUser: AuthManager.cpp:26-38, 161).
AdminPresent ==
    /\ phase = "serving" => HasAdmin(users)
    /\ file.magic = "users" => HasAdmin(file.users)

\* A user has one entry per table and one for the wildcard, so that GRANT and
\* REVOKE change all there is about it (AuthManager.cpp:186-232).
EntriesUnique ==
    \A i \in DOMAIN users : \A p, q \in DOMAIN users[i].privileges :
        /\ users[i].privileges[p].db = users[i].privileges[q].db
        /\ users[i].privileges[p].table = users[i].privileges[q].table
        => p = q

\* While nobody is inside a call, users.dat holds the list of the memory,
\* unless the last save could not open it (AuthManager::save under m_mutex).
FileMatchesMemory ==
    phase = "serving" /\ (\A t \in Threads : ~ Inside(t)) /\ ~ unsaved
        => file = UsersFile(users)

Ends(t, op) == pc[t] = "unlock" /\ reply[t] /\ call[t].op = op

Entry(c) == Min(Entries(UserAt(c.user), c.db, c.table))

\* An older entry, for all tables, comes before the one of this table.
Shadowed(c) == \E p \in Matches(UserAt(c.user), c.db, c.table) : p < Entry(c)

\* A GRANT that is answered with success allows what it grants, unless an
\* older entry for all tables decides (checkPrivilege takes the first match).
GrantTakesEffect ==
    \A t \in Threads : Ends(t, "grant") /\ ~ Shadowed(call[t]) =>
        \A r \in call[t].rights : checkPrivilege(call[t].user, call[t].db, call[t].table, r)

\* A REVOKE that changed an entry denies what it revokes, except to ADMIN and
\* where an older entry for all tables decides.  (Without an entry it answers
\* success and changes nothing.)
RevokeTakesEffect ==
    \A t \in Threads :
        /\ Ends(t, "revoke")
        /\ getRole(call[t].user) # "ADMIN"
        /\ Entries(UserAt(call[t].user), call[t].db, call[t].table) # {}
        /\ ~ Shadowed(call[t])
        => \A r \in call[t].rights :
             ~ checkPrivilege(call[t].user, call[t].db, call[t].table, r)

\* A user who was created with success can authenticate, and is still there
\* after a restart: both the list and the file have the new password.
CreatedUserIsSaved ==
    \A t \in Threads : Ends(t, "createUser") =>
        /\ authenticate(call[t].user, call[t].password)
        /\ file = UsersFile(users)

\* Whoever holds the mutex gives it back, on every path (lock_guard).
MutexReleased == \A t \in Threads : mutex = t ~> mutex # t
=============================================================================
