--------------------------------- MODULE Web ---------------------------------
(***************************************************************************)
(* The page of the web interface and the handlers of its requests          *)
(* (WebApi.cpp over HttpServer.cpp), beside a connection that uses the     *)
(* same server over TCP.  There is one current database for all of them.   *)
(*                                                                         *)
(* A function of the page runs from one await to the next without a break; *)
(* every fetch has a connection and a handler thread of its own, so        *)
(* requests overtake one another, and so do their answers.  A request may  *)
(* be lost, or cut short and then be handled as far as it came.  A         *)
(* statement is one step here: Executor has the steps it consists of.      *)
(***************************************************************************)
EXTENDS Positions, SequencesExt

CONSTANTS
    Database,       \* names
    None,           \* ""
    MaxActs,        \* bounds what the user of the page does if he waits for it and is alone
    MaxEvents       \* otherwise, with the statements of the other connection and the requests lost

ASSUME DatabaseAssumption == None \notin Database
ASSUME BoundsAssumption   == MaxActs \in Nat /\ MaxEvents \in Nat

VARIABLES
    databases, current,     \* of the server
    page,                   \* currentDb, the tree and the results
    fetches,                \* requests with their handlers, until the page has the answer
    acts, troubles,           \* history: how many there were
    calm                    \* history: nobody was in the way of anybody

vars == <<databases, current, page, fetches, acts, troubles, calm>>

\* op and name: the statement, or the database of ?db=; db: the member "db" of the body.
\* whole: all of it arrives.  History: ran, the current database when it was run; switched,
\* those others have selected since the handler compared it with db or selected db.
Fetch(kind, op, name, db) ==
    [kind |-> kind, op |-> op, name |-> name, db |-> db, version |-> page.version,
     at |-> CASE kind = "databases" -> "list" [] kind = "tables" -> "schema" [] OTHER -> "check",
     waiting |-> TRUE, whole |-> TRUE, status |-> "none", list |-> {}, ran |-> None, switched |-> {}]

AtRest == \A i \in DOMAIN fetches : ~fetches[i].waiting

MayDisturb == acts + troubles < MaxEvents
MayAct     == IF calm /\ AtRest THEN acts < MaxActs ELSE MayDisturb

-----------------------------------------------------------------------------
(* Statements.                                                             *)

Succeeds(op, d) ==
    CASE op = "SELECT"          -> current \in databases
      [] op = "CREATE"          -> d \notin databases
      [] op \in {"USE", "DROP"} -> d \in databases

\* DROP DATABASE of the current one leaves none.
Changes(op, d) ==
    /\ databases' = CASE op = "CREATE" -> databases \cup {d} [] op = "DROP" -> databases \ {d}
                      [] OTHER -> databases
    /\ current' = CASE op = "USE" -> d [] op = "DROP" /\ current = d -> None [] OTHER -> current

Statement(op, d) == IF Succeeds(op, d) THEN Changes(op, d) ELSE UNCHANGED <<databases, current>>

\* The other requests, with what has become of the current database.
Noticed == [j \in DOMAIN fetches |->
               IF current' = current THEN fetches[j] ELSE [fetches[j] EXCEPT !.switched = @ \cup {current'}]]

OtherConnection(op, d) ==
    /\ MayDisturb /\ troubles' = troubles + 1
    /\ Statement(op, d)
    /\ fetches' = Noticed
    /\ calm' = FALSE
    /\ UNCHANGED <<page, acts>>

-----------------------------------------------------------------------------
(* The handlers.                                                           *)

\* The answer of a request for which the page no longer waits goes nowhere.
Handled(i, f) ==
    /\ fetches' = IF f.at = "answered" /\ ~f.waiting THEN RemoveAt(Noticed, i)
                  ELSE [Noticed EXCEPT ![i] = f]
    /\ UNCHANGED <<page, acts, troubles, calm>>

\* The member "db" is the last one: of a request that is cut short it is missing.
Named(f) == IF f.whole THEN f.db ELSE None

\* Mutant: the database is selected only when there is none.
CheckNone(i) ==
    /\ fetches[i].at = "check"
    /\ UNCHANGED <<databases, current>>
    /\ Handled(i, [fetches[i] EXCEPT !.at = IF Named(fetches[i]) # None /\ current = None THEN "use" ELSE "run",
                                     !.switched = {}])

\* POST /api/query
Check(i) ==
    /\ fetches[i].at = "check"
    /\ UNCHANGED <<databases, current>>
    /\ Handled(i, [fetches[i] EXCEPT !.at = IF Named(fetches[i]) \notin {None, current} THEN "use" ELSE "run",
                                     !.switched = {}])

UseDb(i) ==
    LET f == fetches[i]
    IN  /\ f.at = "use"
        /\ Statement("USE", f.db)
        /\ Handled(i, IF Succeeds("USE", f.db) THEN [f EXCEPT !.at = "run", !.switched = {}]
                      ELSE [f EXCEPT !.at = "answered", !.status = "refused"])

RunQuery(i) ==
    LET f == fetches[i]
    IN  /\ f.at = "run"
        /\ Statement(f.op, f.name)
        /\ Handled(i, [f EXCEPT !.at = "answered", !.ran = current,
                                !.status = IF Succeeds(f.op, f.name) THEN "ok" ELSE "error"])

\* GET /api/databases
ListDatabases(i) ==
    /\ fetches[i].at = "list"
    /\ UNCHANGED <<databases, current>>
    /\ Handled(i, [fetches[i] EXCEPT !.at = "current", !.list = databases])

CurrentDatabase(i) ==
    /\ fetches[i].at = "current"
    /\ UNCHANGED <<databases, current>>
    /\ Handled(i, [fetches[i] EXCEPT !.at = "answered", !.ran = current, !.status = "ok"])

\* GET /api/tables; a database that is not there has no tables.
LoadSchema(i) ==
    /\ fetches[i].at = "schema"
    /\ UNCHANGED <<databases, current>>
    /\ Handled(i, [fetches[i] EXCEPT !.at = "answered",
                                     !.status = IF fetches[i].name \in databases THEN "ok" ELSE "error"])

Handle(i) ==
    Check(i) \/ UseDb(i) \/ RunQuery(i) \/ ListDatabases(i) \/ CurrentDatabase(i) \/ LoadSchema(i)

-----------------------------------------------------------------------------
(* The page.                                                               *)

NewPage(version) ==
    [db |-> None, tree |-> "loading", listed |-> {}, open |-> {}, loaded |-> {}, results |-> "none",
     version |-> version]

loadDatabases == <<Fetch("databases", "GET", None, None)>>
expandDb(d)   == <<Fetch("tables", "GET", d, None)>>
setActiveDb(d) == IF d = page.db THEN <<>> ELSE <<Fetch("use", "USE", d, None)>>
executeQuery(op, d) == <<Fetch("execute", op, d, page.db)>>

\* What the user does; harmless unless he is faster than the page.
Acts(next, more, harmless) ==
    /\ MayAct /\ acts' = acts + 1
    /\ page' = next
    /\ fetches' = fetches \o more
    /\ calm' = (calm /\ AtRest /\ harmless)
    /\ UNCHANGED <<databases, current, troubles>>

toggleDb(d) ==
    /\ d \in page.listed
    /\ IF d \in page.open THEN Acts([page EXCEPT !.open = @ \ {d}], <<>>, TRUE)
       ELSE Acts([page EXCEPT !.open = @ \cup {d}], setActiveDb(d) \o expandDb(d), TRUE)

\* The query does not wait for setActiveDb: it names the database from before.
selectTable(d) ==
    /\ d \in page.open \cap page.loaded
    /\ Acts([page EXCEPT !.results = "running"], setActiveDb(d) \o executeQuery("SELECT", None),
            d = page.db)

\* The page does not look for USE in what is typed.
TypeQuery(op, d) ==
    Acts([page EXCEPT !.results = "running"], executeQuery(op, d), op # "USE")

\* The button beside the tree.
Refresh == Acts(page, loadDatabases, TRUE)

\* GET / again, and DOMContentLoaded: the old page waits no longer.
Reload ==
    /\ MayAct /\ acts' = acts + 1
    /\ page' = NewPage(page.version + 1)
    /\ LET handled == Keep(fetches, {i \in DOMAIN fetches : fetches[i].at # "answered"})
       IN  fetches' = [i \in DOMAIN handled |-> [handled[i] EXCEPT !.waiting = FALSE]] \o loadDatabases
    /\ calm' = (calm /\ AtRest)
    /\ UNCHANGED <<databases, current, troubles>>

Continue(i, next, more) ==
    /\ fetches[i].waiting /\ fetches[i].at = "answered"
    /\ page' = next
    /\ fetches' = RemoveAt(fetches, i) \o more
    /\ UNCHANGED <<databases, current, acts, troubles, calm>>

\* A new tree, on which the answers for the old one have no effect.
LoadedDatabases(i) ==
    LET f == fetches[i]
        active == {f.ran} \cap f.list
        next == [page EXCEPT !.db = f.ran, !.tree = "shown", !.listed = f.list, !.open = active,
                             !.loaded = {}, !.version = @ + 1]
    IN  /\ f.kind = "databases"
        /\ Continue(i, next, IF active = {} THEN <<>>
                             ELSE <<[expandDb(f.ran)[1] EXCEPT !.version = next.version]>>)

LoadedTables(i) ==
    LET f == fetches[i]
    IN  /\ f.kind = "tables"
        /\ Continue(i, IF f.version # page.version THEN page
                       ELSE [page EXCEPT !.loaded = IF f.status = "ok" THEN @ \cup {f.name} ELSE @ \ {f.name}],
                    <<>>)

\* Also when the database could not be selected.
SelectedDb(i) ==
    /\ fetches[i].kind = "use"
    /\ Continue(i, [page EXCEPT !.db = fetches[i].name], <<>>)

\* Mutant: the tree is loaded again after CREATE only.
ReloadsAfterCreate(op) == op = "CREATE"

Reloads(op) == op \in {"CREATE", "DROP"}

ShowResult(i) ==
    /\ fetches[i].kind = "execute"
    /\ Continue(i, [page EXCEPT !.results = "shown"],
                IF fetches[i].status = "ok" /\ Reloads(fetches[i].op) THEN loadDatabases ELSE <<>>)

NoTree == [page EXCEPT !.tree = "failed", !.listed = {}, !.open = {}, !.loaded = {}, !.version = @ + 1]

\* Mutant: the fetch of executeQuery is not inside of a try.
CaughtForTheTree(kind) == IF kind = "databases" THEN NoTree ELSE page

\* The catch of each function; setActiveDb has none.
Caught(kind) ==
    CASE kind = "databases" -> NoTree
      [] kind = "execute"   -> [page EXCEPT !.results = "shown"]
      [] OTHER              -> page

\* The connection of a request breaks: the page learns of it if it still waits.
Broken(i) ==
    /\ fetches[i].whole
    /\ page' = IF fetches[i].waiting THEN Caught(fetches[i].kind) ELSE page
    /\ calm' = FALSE
    /\ UNCHANGED <<databases, current, acts>>

\* Nothing of the request arrives that would be handled, or all of it does
\* and the answer is lost.
FetchFails(i) ==
    /\ MayDisturb /\ troubles' = troubles + 1
    /\ Broken(i)
    /\ \/ /\ fetches[i].at \in {"check", "list", "schema", "answered"}
          /\ fetches' = RemoveAt(fetches, i)
       \/ /\ fetches[i].waiting /\ fetches[i].at # "answered"
          /\ fetches' = [fetches EXCEPT ![i].waiting = FALSE]

\* The connection ends when the statement has arrived and "db" has not: what
\* has arrived is handled.  Any request may be cut, at any time.
CutShort(i) ==
    /\ Broken(i)
    /\ fetches[i].at = "check"
    /\ fetches' = [fetches EXCEPT ![i].whole = FALSE, ![i].waiting = FALSE]
    /\ UNCHANGED troubles

Proceed(i) == LoadedDatabases(i) \/ LoadedTables(i) \/ SelectedDb(i) \/ ShowResult(i)

-----------------------------------------------------------------------------

Init ==
    /\ databases \in SUBSET Database
    /\ current \in databases \cup {None}
    /\ page = NewPage(0)
    /\ fetches = loadDatabases
    /\ acts = 0 /\ troubles = 0 /\ calm = TRUE

User ==
    \/ \E d \in Database : toggleDb(d) \/ selectTable(d)
    \/ \E op \in {"CREATE", "DROP", "USE"}, d \in Database : TypeQuery(op, d)
    \/ TypeQuery("SELECT", None)
    \/ Refresh \/ Reload

Next ==
    \/ User
    \/ \E op \in {"CREATE", "DROP", "USE"}, d \in Database : OtherConnection(op, d)
    \/ \E i \in DOMAIN fetches : Handle(i) \/ Proceed(i) \/ FetchFails(i) \/ CutShort(i)

Spec == Init /\ [][Next]_vars

\* Threads and the event loop go on; the user need not act, and nothing need fail.
Fairness == WF_vars(\E i \in DOMAIN fetches : Handle(i) \/ Proceed(i))

FairSpec == Spec /\ Fairness

-----------------------------------------------------------------------------
(* Properties.                                                             *)

(* A statement of the page runs, or is about to, on the database that the  *)
(* page showed when it was sent, or on one that somebody else has selected *)
(* (none, by dropping it) between the steps of its own handler.  This is   *)
(* so whenever the request arrived whole, and always when the page gets an *)
(* answer; one that is cut behind its "sql" runs wherever the server is    *)
(* (HttpServer.cpp:106-129, WebApi.cpp:149-170, 573-577).                  *)
QueriesRunWhereSent ==
    \A i \in DOMAIN fetches :
        LET f == fetches[i]
        IN  f.kind = "execute" /\ f.db # None /\ (f.whole \/ f.waiting) =>
                /\ f.at = "run" => current \in {f.db} \cup f.switched
                /\ f.status \in {"ok", "error"} => f.ran \in {f.db} \cup f.switched

(* A user who waits for the page before he goes on, alone on the server,   *)
(* sees its databases and the one his statements run on: only USE typed    *)
(* by hand and a table of another database make the page differ            *)
(* (WebApi.cpp:455-480, 532-552, 631-632).                                 *)
PageTellsTheTruth ==
    calm /\ AtRest => page.db = current /\ page.listed = databases

(* The page does not wait for ever: an answer or an error takes the place  *)
(* of what says that a query runs, and the tree appears, whatever is lost  *)
(* and however often the user asks again (WebApi.cpp:455-485, 570-636).    *)
EveryQueryIsShown ==
    /\ page.results = "running" ~> page.results # "running"
    /\ page.tree = "loading" ~> page.tree # "loading"
=============================================================================
