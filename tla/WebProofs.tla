------------------------------ MODULE WebProofs ------------------------------
(***************************************************************************)
(* Proofs about Web, for any databases, any number of requests on their    *)
(* way, and whatever the user and the other connection do, and however     *)
(* often: a query of the page runs where it was sent, and a page whose     *)
(* user waits for it tells the truth.                                      *)
(***************************************************************************)
EXTENDS Web, PositionsProofs

-----------------------------------------------------------------------------
(* Sequences.                                                              *)

\* Without the i-th element, the others keep their order.
LEMMA RemoveAtKeeps ==
    ASSUME NEW E, NEW s \in Seq(E), NEW i \in DOMAIN s
    PROVE  /\ RemoveAt(s, i) \in Seq(E)
           /\ Len(RemoveAt(s, i)) = Len(s) - 1
           /\ \A k \in DOMAIN RemoveAt(s, i) :
                /\ k \in DOMAIN s /\ k + 1 \in DOMAIN s
                /\ RemoveAt(s, i)[k] = IF k < i THEN s[k] ELSE s[k + 1]
<1> DEFINE a == SubSeq(s, 1, i - 1)
           b == SubSeq(s, i + 1, Len(s))
           n == Len(s)
<1>1. n \in Nat /\ i \in 1 .. n /\ DOMAIN s = 1 .. n /\ \A j \in 1 .. n : s[j] \in E
  OBVIOUS
<1>2. /\ a \in Seq(E) /\ Len(a) = i - 1
      /\ \A k \in 1 .. i - 1 : a[k] = s[k]
  <2>1. 1 \in Int /\ i - 1 \in Int /\ \A j \in 1 .. i - 1 : s[j] \in E
    BY <1>1
  <2>2. /\ a \in Seq(E)
        /\ Len(a) = IF 1 <= i - 1 THEN i - 1 - 1 + 1 ELSE 0
        /\ \A k \in 1 .. i - 1 - 1 + 1 : a[k] = s[1 + k - 1]
    BY <2>1, SubSeqProperties
  <2> HIDE DEF a
  <2> QED
    BY <1>1, <2>2
<1>3. /\ b \in Seq(E) /\ Len(b) = n - i
      /\ \A k \in 1 .. n - i : b[k] = s[i + k]
  <2>1. i + 1 \in Int /\ n \in Int /\ \A j \in i + 1 .. n : s[j] \in E
    BY <1>1
  <2>2. /\ b \in Seq(E)
        /\ Len(b) = IF i + 1 <= n THEN n - (i + 1) + 1 ELSE 0
        /\ \A k \in 1 .. n - (i + 1) + 1 : b[k] = s[i + 1 + k - 1]
    BY <2>1, SubSeqProperties
  <2> HIDE DEF b, n
  <2>3. Len(b) = n - i
    BY <1>1, <2>2
  <2>4. ASSUME NEW k \in 1 .. n - i
        PROVE  b[k] = s[i + k]
    <3>1. k \in 1 .. n - (i + 1) + 1 /\ i + 1 + k - 1 = i + k
      BY <1>1
    <3> QED
      BY <2>2, <3>1
  <2> QED
    BY <2>2, <2>3, <2>4
<1>4. /\ RemoveAt(s, i) \in Seq(E)
      /\ Len(RemoveAt(s, i)) = Len(a) + Len(b)
      /\ \A k \in 1 .. Len(a) + Len(b) :
           RemoveAt(s, i)[k] = IF k <= Len(a) THEN a[k] ELSE b[k - Len(a)]
  <2>1. RemoveAt(s, i) = a \o b
    BY DEF RemoveAt
  <2> HIDE DEF a, b
  <2> QED
    BY <1>2, <1>3, <2>1, ConcatProperties
<1>5. DOMAIN RemoveAt(s, i) = 1 .. n - 1
  <2> HIDE DEF a, b, n
  <2> QED
    BY <1>1, <1>2, <1>3, <1>4
<1> HIDE DEF a, b, n
<1>6. Len(RemoveAt(s, i)) = n - 1
  BY <1>1, <1>2, <1>3, <1>4
<1>7. ASSUME NEW k \in 1 .. n - 1
      PROVE  /\ k \in 1 .. n /\ k + 1 \in 1 .. n
             /\ RemoveAt(s, i)[k] = IF k < i THEN s[k] ELSE s[k + 1]
  <2>1. k \in 1 .. n /\ k + 1 \in 1 .. n /\ Len(a) + Len(b) = n - 1
    BY <1>1, <1>2, <1>3
  <2>2. CASE k < i
    <3>1. k \in 1 .. i - 1 /\ k <= Len(a)
      BY <1>1, <1>2, <2>2
    <3> QED
      BY <1>2, <1>4, <2>1, <2>2, <3>1
  <2>3. CASE ~ (k < i)
    <3>1. ~ (k <= Len(a)) /\ k - Len(a) \in 1 .. n - i /\ i + (k - Len(a)) = k + 1
      BY <1>1, <1>2, <2>3
    <3>2. RemoveAt(s, i)[k] = b[k - Len(a)]
      BY <1>4, <2>1, <3>1
    <3>3. b[k - Len(a)] = s[i + (k - Len(a))]
      BY <1>3, <3>1
    <3> QED
      BY <2>1, <2>3, <3>1, <3>2, <3>3
  <2> QED
    BY <2>2, <2>3
<1> QED
  <2>1. n = Len(s)
    BY DEF n
  <2> QED
    BY <1>1, <1>4, <1>5, <1>6, <1>7, <2>1

\* What a sequence has in the place of an element is an element of it.
LEMMA ConcatElements ==
    ASSUME NEW E, NEW s \in Seq(E), NEW t \in Seq(E)
    PROVE  /\ s \o t \in Seq(E)
           /\ \A k \in DOMAIN (s \o t) :
                \/ k \in DOMAIN s /\ (s \o t)[k] = s[k]
                \/ k - Len(s) \in DOMAIN t /\ (s \o t)[k] = t[k - Len(s)]
<1>1. /\ s \o t \in Seq(E)
      /\ Len(s \o t) = Len(s) + Len(t)
      /\ \A k \in 1 .. Len(s) + Len(t) :
           (s \o t)[k] = IF k <= Len(s) THEN s[k] ELSE t[k - Len(s)]
  BY ConcatProperties
<1>2. Len(s) \in Nat /\ Len(t) \in Nat /\ DOMAIN s = 1 .. Len(s) /\ DOMAIN t = 1 .. Len(t)
  OBVIOUS
<1>3. DOMAIN (s \o t) = 1 .. Len(s) + Len(t)
  BY <1>1, <1>2
<1> QED
  BY <1>1, <1>2, <1>3

-----------------------------------------------------------------------------
(* Types.                                                                  *)

Name == Database \cup {None}
Op   == {"USE", "SELECT", "CREATE", "DROP"}

\* A request is in a handler of its kind, and CREATE has a name.
Fits(f) ==
    /\ f.at \in {"check", "use", "run"} => f.kind \in {"use", "execute"} /\ f.op \in Op
    /\ f.at \in {"list", "current"} => f.kind = "databases"
    /\ f.at = "schema" => f.kind = "tables"
    /\ f.op = "CREATE" => f.name \in Database

Request ==
    {f \in [kind : {"databases", "tables", "use", "execute"}, op : Op \cup {"GET"}, name : Name, db : Name,
            version : Nat, at : {"check", "use", "run", "list", "current", "schema", "answered"},
            waiting : BOOLEAN, whole : BOOLEAN, status : {"none", "ok", "error", "refused"},
            list : SUBSET Database, ran : Name, switched : SUBSET Name] : Fits(f)}

Page ==
    [db : Name, tree : {"loading", "shown", "failed"}, listed : SUBSET Database, open : SUBSET Name,
     loaded : SUBSET Name, results : {"none", "running", "shown"}, version : Nat]

ServerType == databases \subseteq Database /\ current \in databases \cup {None}

TypeOK ==
    /\ ServerType
    /\ page \in Page
    /\ fetches \in Seq(Request)
    /\ calm \in BOOLEAN

LEMMA StatementType ==
    ASSUME ServerType, NEW op \in Op, NEW d \in Name, op = "CREATE" => d \in Database, Statement(op, d)
    PROVE  ServerType'
<1>1. CASE op = "CREATE"
  BY <1>1 DEF ServerType, Statement, Succeeds, Changes
<1>2. CASE op = "USE"
  BY <1>2 DEF ServerType, Statement, Succeeds, Changes
<1>3. CASE op = "DROP"
  BY <1>3 DEF ServerType, Statement, Succeeds, Changes
<1>4. CASE op = "SELECT"
  BY <1>4 DEF ServerType, Statement, Succeeds, Changes
<1> QED
  BY <1>1, <1>2, <1>3, <1>4 DEF Op

\* The other requests keep everything but what they have noticed.
LEMMA NoticedType ==
    ASSUME TypeOK, ServerType'
    PROVE  /\ Noticed \in Seq(Request) /\ DOMAIN Noticed = DOMAIN fetches
           /\ \A j \in DOMAIN fetches :
                Noticed[j] = IF current' = current THEN fetches[j]
                             ELSE [fetches[j] EXCEPT !.switched = @ \cup {current'}]
<1>1. PICK c : c = current'
  OBVIOUS
<1>2. c \in Name
  BY <1>1 DEF ServerType, Name
<1>3. PICK n : n = Len(fetches)
  OBVIOUS
<1>4. n \in Nat /\ DOMAIN fetches = 1 .. n /\ \A j \in 1 .. n : fetches[j] \in Request
  BY <1>3 DEF TypeOK
<1>5. ASSUME NEW f \in Request
      PROVE  [f EXCEPT !.switched = @ \cup {c}] \in Request
  BY <1>2, <1>5 DEF Request, Fits
<1>6. \A j \in 1 .. n : (IF c = current THEN fetches[j] ELSE [fetches[j] EXCEPT !.switched = @ \cup {c}])
                          \in Request
  BY <1>4, <1>5
<1>7. Noticed = [j \in 1 .. n |-> IF c = current THEN fetches[j]
                                  ELSE [fetches[j] EXCEPT !.switched = @ \cup {c}]]
  BY <1>1, <1>4 DEF Noticed
<1>8. Noticed \in Seq(Request)
  BY <1>4, <1>6, <1>7
<1> QED
  BY <1>1, <1>4, <1>7, <1>8

\* After a step of the handler of i, every request is the one it has handled
\* or one that has looked on.
LEMMA HandledType ==
    ASSUME TypeOK, ServerType', NEW i \in DOMAIN fetches, NEW f \in Request, Handled(i, f)
    PROVE  /\ fetches' \in Seq(Request)
           /\ UNCHANGED <<page, acts, troubles, calm>>
           /\ \A k \in DOMAIN fetches' :
                \/ fetches'[k] = f
                \/ \E j \in DOMAIN fetches : j # i /\ fetches'[k] = Noticed[j]
           /\ f.waiting => fetches' = [Noticed EXCEPT ![i] = f]
<1>1. Noticed \in Seq(Request) /\ DOMAIN Noticed = DOMAIN fetches
  BY NoticedType
<1>2. UNCHANGED <<page, acts, troubles, calm>>
  BY DEF Handled
<1>3. PICK s : s = Noticed
  OBVIOUS
<1>4. s \in Seq(Request) /\ i \in DOMAIN s /\ DOMAIN s = DOMAIN fetches
  BY <1>1, <1>3
<1>5. CASE fetches' = [s EXCEPT ![i] = f]
  <2>1. fetches' \in Seq(Request) /\ DOMAIN fetches' = DOMAIN s
    BY <1>4, <1>5
  <2>2. \A k \in DOMAIN s : fetches'[k] = IF k = i THEN f ELSE s[k]
    BY <1>4, <1>5
  <2> QED
    BY <1>2, <1>3, <1>4, <1>5, <2>1, <2>2
<1>6. CASE fetches' = RemoveAt(s, i) /\ ~ f.waiting
  <2>1. /\ fetches' \in Seq(Request)
        /\ \A k \in DOMAIN fetches' :
             /\ k \in DOMAIN s /\ k + 1 \in DOMAIN s
             /\ fetches'[k] = IF k < i THEN s[k] ELSE s[k + 1]
    BY <1>4, <1>6, RemoveAtKeeps
  <2>2. DOMAIN s \subseteq Int
    BY <1>4
  <2>3. ASSUME NEW k \in DOMAIN fetches'
        PROVE  \E j \in DOMAIN fetches : j # i /\ fetches'[k] = s[j]
    <3>1. CASE k < i
      BY <1>4, <2>1, <2>2, <3>1
    <3>2. CASE ~ (k < i)
      <4>1. k + 1 # i
        BY <1>4, <2>1, <2>2, <3>2
      <4> QED
        BY <1>4, <2>1, <3>2, <4>1
    <3> QED
      BY <3>1, <3>2
  <2> QED
    BY <1>2, <1>3, <1>6, <2>1, <2>3
<1> QED
  BY <1>3, <1>5, <1>6 DEF Handled

\* A request that the page has just sent.
Fresh(f) == f.waiting /\ f.whole /\ f.status = "none" /\ f.at \notin {"use", "run", "answered"}

\* What it is when its connection has ended behind the statement.
Cut(f) == [f EXCEPT !.whole = FALSE, !.waiting = FALSE]

\* What a step of the page, or of the network, does to the requests: it sends
\* some, waits no longer for others, takes answers, and cuts requests short.
PageStep ==
    /\ UNCHANGED <<databases, current>>
    /\ page' \in Page /\ fetches' \in Seq(Request) /\ calm' \in BOOLEAN
    /\ \A k \in DOMAIN fetches' :
         \/ Fresh(fetches'[k])
         \/ \E j \in DOMAIN fetches :
              \/ fetches'[k] \in {fetches[j], [fetches[j] EXCEPT !.waiting = FALSE]}
              \/ fetches[j].at = "check" /\ fetches'[k] = Cut(fetches[j])

\* The requests of the page.
LEMMA FetchType ==
    ASSUME page \in Page, NEW kind \in {"databases", "tables", "use", "execute"}, NEW op \in Op \cup {"GET"},
           NEW d \in Name, NEW db \in Name,
           op = "CREATE" => d \in Database,
           kind \in {"use", "execute"} => op \in Op
    PROVE  /\ Fetch(kind, op, d, db) \in Request /\ Fresh(Fetch(kind, op, d, db))
           /\ Fetch(kind, op, d, db).kind = kind /\ Fetch(kind, op, d, db).op = op
           /\ Fetch(kind, op, d, db).name = d /\ Fetch(kind, op, d, db).db = db
           /\ Fetch(kind, op, d, db).at = CASE kind = "databases" -> "list" [] kind = "tables" -> "schema"
                                            [] OTHER -> "check"
<1>1. PICK at : at = CASE kind = "databases" -> "list" [] kind = "tables" -> "schema" [] OTHER -> "check"
  OBVIOUS
<1>2. /\ kind = "databases" => at = "list"
      /\ kind = "tables" => at = "schema"
      /\ kind \in {"use", "execute"} => at = "check"
  BY <1>1
<1>3. page.version \in Nat
  BY DEF Page
<1>4. Fetch(kind, op, d, db) =
        [kind |-> kind, op |-> op, name |-> d, db |-> db, version |-> page.version, at |-> at,
         waiting |-> TRUE, whole |-> TRUE, status |-> "none", list |-> {}, ran |-> None, switched |-> {}]
  BY <1>1 DEF Fetch
<1>5. PICK f : f = Fetch(kind, op, d, db)
  OBVIOUS
<1>6. Fits(f)
  BY <1>2, <1>4, <1>5 DEF Fits
<1>7. None \in Name
  BY DEF Name
<1>8. f \in Request
  BY <1>2, <1>3, <1>4, <1>5, <1>6, <1>7 DEF Request
<1> QED
  BY <1>1, <1>2, <1>4, <1>5, <1>8 DEF Fresh

\* After an answer has been taken.
LEMMA ContinueType ==
    ASSUME TypeOK, NEW i \in DOMAIN fetches, NEW next \in Page, NEW more \in Seq(Request),
           \A m \in DOMAIN more : Fresh(more[m]),
           Continue(i, next, more)
    PROVE  /\ PageStep
           /\ page' = next /\ calm' = calm
           /\ fetches[i].at = "answered"
           /\ \A k \in DOMAIN fetches' :
                IF k < Len(fetches) THEN LET j == IF k < i THEN k ELSE k + 1
                                         IN  j \in DOMAIN fetches /\ j # i /\ fetches'[k] = fetches[j]
                ELSE k - (Len(fetches) - 1) \in DOMAIN more /\ fetches'[k] = more[k - (Len(fetches) - 1)]
<1>1. PICK s : s = fetches
  OBVIOUS
<1>2. PICK t : t = RemoveAt(s, i)
  OBVIOUS
<1>3. PICK n : n = Len(s)
  OBVIOUS
<1>4. s \in Seq(Request) /\ n \in Nat /\ DOMAIN s = 1 .. n /\ i \in 1 .. n
  BY <1>1, <1>3 DEF TypeOK
<1>5. /\ t \in Seq(Request) /\ Len(t) = n - 1
      /\ \A k \in DOMAIN t : k \in DOMAIN s /\ k + 1 \in DOMAIN s /\ t[k] = IF k < i THEN s[k] ELSE s[k + 1]
  <2>1. i \in DOMAIN s
    BY <1>1
  <2>2. /\ RemoveAt(s, i) \in Seq(Request)
        /\ Len(RemoveAt(s, i)) = Len(s) - 1
        /\ \A k \in DOMAIN RemoveAt(s, i) :
             /\ k \in DOMAIN s /\ k + 1 \in DOMAIN s
             /\ RemoveAt(s, i)[k] = IF k < i THEN s[k] ELSE s[k + 1]
    BY <1>4, <2>1, RemoveAtKeeps
  <2> QED
    BY <1>2, <1>3, <2>2
<1>6. DOMAIN t = 1 .. n - 1
  BY <1>4, <1>5
<1>7. /\ fetches' = t \o more /\ page' = next /\ fetches[i].at = "answered"
      /\ UNCHANGED <<databases, current, acts, troubles, calm>>
  BY <1>1, <1>2 DEF Continue
<1>8. /\ fetches' \in Seq(Request)
      /\ Len(fetches') = Len(t) + Len(more)
      /\ \A k \in 1 .. Len(t) + Len(more) : fetches'[k] = IF k <= Len(t) THEN t[k] ELSE more[k - Len(t)]
  BY <1>5, <1>7, ConcatProperties
<1>9. Len(more) \in Nat /\ DOMAIN more = 1 .. Len(more)
  OBVIOUS
<1>10. DOMAIN fetches' = 1 .. (n - 1) + Len(more)
  BY <1>5, <1>8, <1>9
<1>11. ASSUME NEW k \in DOMAIN fetches', k < n
       PROVE  LET j == IF k < i THEN k ELSE k + 1
              IN  j \in DOMAIN s /\ j # i /\ fetches'[k] = s[j]
  <2>1. k \in 1 .. n - 1 /\ k <= Len(t) /\ k \in 1 .. Len(t) + Len(more)
    BY <1>4, <1>5, <1>9, <1>10, <1>11
  <2>2. fetches'[k] = t[k] /\ k \in DOMAIN t
    BY <1>6, <1>8, <2>1
  <2> QED
    BY <1>4, <1>5, <2>1, <2>2
<1>12. ASSUME NEW k \in DOMAIN fetches', ~ (k < n)
       PROVE  k - (n - 1) \in DOMAIN more /\ fetches'[k] = more[k - (n - 1)]
  <2>1. ~ (k <= Len(t)) /\ k \in 1 .. Len(t) + Len(more) /\ k - (n - 1) \in 1 .. Len(more)
    BY <1>4, <1>5, <1>9, <1>10, <1>12
  <2> QED
    BY <1>5, <1>8, <1>9, <2>1
<1>13. PageStep
  <2>1. ASSUME NEW k \in DOMAIN fetches'
        PROVE  \/ Fresh(fetches'[k])
               \/ \E j \in DOMAIN fetches :
                    fetches'[k] \in {fetches[j], [fetches[j] EXCEPT !.waiting = FALSE]}
    <3>1. CASE k < n
      BY <1>1, <1>11, <3>1
    <3>2. CASE ~ (k < n)
      BY <1>12, <3>2
    <3> QED
      BY <3>1, <3>2
  <2>2. calm \in BOOLEAN
    BY DEF TypeOK
  <2> QED
    BY <1>7, <1>8, <2>1, <2>2 DEF PageStep
<1> QED
  BY <1>1, <1>3, <1>7, <1>11, <1>12, <1>13

\* After the user has done something.
LEMMA ActsType ==
    ASSUME TypeOK, NEW next \in Page, NEW more \in Seq(Request), NEW harmless \in BOOLEAN,
           \A m \in DOMAIN more : Fresh(more[m]),
           Acts(next, more, harmless)
    PROVE  /\ PageStep
           /\ page' = next
           /\ calm' = (calm /\ AtRest /\ harmless)
           /\ fetches = <<>> => fetches' = more
<1>1. /\ fetches' = fetches \o more /\ page' = next /\ calm' = (calm /\ AtRest /\ harmless)
      /\ UNCHANGED <<databases, current>>
  BY DEF Acts
<1>2. PICK s : s = fetches
  OBVIOUS
<1>3. s \in Seq(Request)
  BY <1>2 DEF TypeOK
<1>4. /\ s \o more \in Seq(Request)
      /\ \A k \in DOMAIN (s \o more) :
           \/ k \in DOMAIN s /\ (s \o more)[k] = s[k]
           \/ k - Len(s) \in DOMAIN more /\ (s \o more)[k] = more[k - Len(s)]
  BY <1>3, ConcatElements
<1>5. ASSUME NEW k \in DOMAIN fetches'
      PROVE  \/ Fresh(fetches'[k])
             \/ \E j \in DOMAIN fetches :
                  fetches'[k] \in {fetches[j], [fetches[j] EXCEPT !.waiting = FALSE]}
  <2>1. \/ k \in DOMAIN s /\ fetches'[k] = s[k]
        \/ k - Len(s) \in DOMAIN more /\ fetches'[k] = more[k - Len(s)]
    BY <1>1, <1>2, <1>4
  <2> QED
    BY <1>2, <2>1
<1>6. PageStep
  <2>1. fetches' \in Seq(Request)
    BY <1>1, <1>2, <1>4
  <2>2. calm' \in BOOLEAN
    BY <1>1 DEF AtRest
  <2> QED
    BY <1>1, <1>5, <2>1, <2>2 DEF PageStep
<1>7. <<>> \o more = more
  BY ConcatEmptySeq
<1> QED
  BY <1>1, <1>6, <1>7

-----------------------------------------------------------------------------
(* What each action of the page does.                                      *)

\* What the functions of the page send.
LEMMA SentType ==
    ASSUME page \in Page, NEW d \in Name
    PROVE  /\ \A more \in {loadDatabases, expandDb(d), setActiveDb(d), setActiveDb(d) \o expandDb(d)} :
                more \in Seq(Request) /\ \A m \in DOMAIN more : Fresh(more[m])
           /\ \A op \in Op : (op = "CREATE" => d \in Database) =>
                LET more == executeQuery(op, d)
                IN  more \in Seq(Request) /\ \A m \in DOMAIN more : Fresh(more[m])
           /\ LET more == setActiveDb(d) \o executeQuery("SELECT", None)
              IN  more \in Seq(Request) /\ \A m \in DOMAIN more : Fresh(more[m])
<1>1. None \in Name /\ page.db \in Name
  BY DEF Name, Page
<1>2. ASSUME NEW f \in Request, Fresh(f)
      PROVE  <<f>> \in Seq(Request) /\ \A m \in DOMAIN <<f>> : Fresh(<<f>>[m])
  <2>1. DOMAIN <<f>> = {1}
    OBVIOUS
  <2> QED
    BY <1>2, <2>1
<1>3. <<>> \in Seq(Request) /\ DOMAIN <<>> = {}
  OBVIOUS
<1>4. ASSUME NEW s \in Seq(Request), NEW t \in Seq(Request),
             \A m \in DOMAIN s : Fresh(s[m]), \A m \in DOMAIN t : Fresh(t[m])
      PROVE  s \o t \in Seq(Request) /\ \A m \in DOMAIN (s \o t) : Fresh((s \o t)[m])
  BY <1>4, ConcatElements
<1>5. loadDatabases \in Seq(Request) /\ \A m \in DOMAIN loadDatabases : Fresh(loadDatabases[m])
  <2>1. /\ Fetch("databases", "GET", None, None) \in Request
        /\ Fresh(Fetch("databases", "GET", None, None))
    BY <1>1, FetchType DEF Op
  <2> QED
    BY <1>2, <2>1 DEF loadDatabases
<1>6. expandDb(d) \in Seq(Request) /\ \A m \in DOMAIN expandDb(d) : Fresh(expandDb(d)[m])
  <2>1. Fetch("tables", "GET", d, None) \in Request /\ Fresh(Fetch("tables", "GET", d, None))
    BY <1>1, FetchType DEF Op
  <2> QED
    BY <1>2, <2>1 DEF expandDb
<1>7. setActiveDb(d) \in Seq(Request) /\ \A m \in DOMAIN setActiveDb(d) : Fresh(setActiveDb(d)[m])
  <2>1. Fetch("use", "USE", d, None) \in Request /\ Fresh(Fetch("use", "USE", d, None))
    BY <1>1, FetchType DEF Op
  <2> QED
    BY <1>2, <1>3, <2>1 DEF setActiveDb
<1>8. ASSUME NEW op \in Op, NEW e \in Name, op = "CREATE" => e \in Database
      PROVE  /\ executeQuery(op, e) \in Seq(Request)
             /\ \A m \in DOMAIN executeQuery(op, e) : Fresh(executeQuery(op, e)[m])
  <2>1. Fetch("execute", op, e, page.db) \in Request /\ Fresh(Fetch("execute", op, e, page.db))
    BY <1>1, <1>8, FetchType
  <2> QED
    BY <1>2, <2>1 DEF executeQuery
<1>9. /\ executeQuery("SELECT", None) \in Seq(Request)
      /\ \A m \in DOMAIN executeQuery("SELECT", None) : Fresh(executeQuery("SELECT", None)[m])
  BY <1>1, <1>8 DEF Op
<1>10. /\ setActiveDb(d) \o expandDb(d) \in Seq(Request)
       /\ \A m \in DOMAIN (setActiveDb(d) \o expandDb(d)) : Fresh((setActiveDb(d) \o expandDb(d))[m])
  BY <1>4, <1>6, <1>7
<1>11. /\ setActiveDb(d) \o executeQuery("SELECT", None) \in Seq(Request)
       /\ \A m \in DOMAIN (setActiveDb(d) \o executeQuery("SELECT", None)) :
            Fresh((setActiveDb(d) \o executeQuery("SELECT", None))[m])
  BY <1>4, <1>7, <1>9
<1> QED
  BY <1>5, <1>6, <1>7, <1>8, <1>10, <1>11

\* The requests that go on without a page, with those of the new one.
LEMMA ReloadType ==
    ASSUME TypeOK, Reload
    PROVE  /\ PageStep
           /\ page' = NewPage(page.version + 1)
           /\ calm' = (calm /\ AtRest)
           /\ fetches = <<>> => fetches' = loadDatabases
<1>1. PICK S : S = {i \in DOMAIN fetches : fetches[i].at # "answered"}
  OBVIOUS
<1>2. PICK s : s = Keep(fetches, S)
  OBVIOUS
<1>3. PICK t : t = [i \in DOMAIN s |-> [s[i] EXCEPT !.waiting = FALSE]]
  OBVIOUS
<1>4. PICK new : new = loadDatabases
  OBVIOUS
<1>5. /\ UNCHANGED <<databases, current>>
      /\ page' = NewPage(page.version + 1) /\ calm' = (calm /\ AtRest)
      /\ fetches' = t \o new
  BY <1>1, <1>2, <1>3, <1>4 DEF Reload
<1>6. /\ s \in Seq(Request) /\ Len(s) = Cardinality(S)
      /\ \A k \in DOMAIN s : \E j \in DOMAIN fetches : s[k] = fetches[j]
  <2>1. PICK old : old = fetches
    OBVIOUS
  <2>2. old \in Seq(Request) /\ S \subseteq DOMAIN old
    BY <1>1, <2>1 DEF TypeOK
  <2>3. /\ Keep(old, S) \in Seq(Request) /\ Len(Keep(old, S)) = Cardinality(S)
        /\ \A k \in DOMAIN Keep(old, S) : Nth(S, k) \in S /\ Keep(old, S)[k] = old[Nth(S, k)]
    BY <2>2, KeepType
  <2> QED
    BY <1>2, <2>1, <2>2, <2>3
<1>7. t \in Seq(Request) /\ DOMAIN t = DOMAIN s
  <2>1. ASSUME NEW f \in Request
        PROVE  [f EXCEPT !.waiting = FALSE] \in Request
    BY DEF Request, Fits
  <2>2. PICK n : n \in Nat /\ n = Len(s)
    BY <1>6
  <2>3. t = [i \in 1 .. n |-> [s[i] EXCEPT !.waiting = FALSE]]
    BY <1>3, <1>6, <2>2
  <2>4. \A i \in 1 .. n : [s[i] EXCEPT !.waiting = FALSE] \in Request
    BY <1>6, <2>1, <2>2
  <2> QED
    BY <1>6, <2>2, <2>3, <2>4
<1>8. new \in Seq(Request) /\ \A m \in DOMAIN new : Fresh(new[m])
  <2>1. page \in Page /\ None \in Name
    BY DEF TypeOK, Name
  <2> QED
    BY <1>4, <2>1, SentType
<1>9. /\ t \o new \in Seq(Request)
      /\ \A k \in DOMAIN (t \o new) :
           \/ k \in DOMAIN t /\ (t \o new)[k] = t[k]
           \/ k - Len(t) \in DOMAIN new /\ (t \o new)[k] = new[k - Len(t)]
  BY <1>7, <1>8, ConcatElements
<1>10. ASSUME NEW k \in DOMAIN fetches'
       PROVE  \/ Fresh(fetches'[k])
              \/ \E j \in DOMAIN fetches :
                   fetches'[k] \in {fetches[j], [fetches[j] EXCEPT !.waiting = FALSE]}
  <2>1. CASE k \in DOMAIN t /\ fetches'[k] = t[k]
    <3>1. PICK j \in DOMAIN fetches : s[k] = fetches[j]
      BY <1>6, <1>7, <2>1
    <3>2. t[k] = [s[k] EXCEPT !.waiting = FALSE]
      BY <1>3, <1>7, <2>1
    <3> QED
      BY <2>1, <3>1, <3>2
  <2>2. CASE k - Len(t) \in DOMAIN new /\ fetches'[k] = new[k - Len(t)]
    BY <1>8, <2>2
  <2> QED
    BY <1>5, <1>9, <2>1, <2>2
<1>11. PageStep
  <2>1. NewPage(page.version + 1) \in Page
    <3>1. page.version + 1 \in Nat
      BY DEF TypeOK, Page
    <3> QED
      BY <3>1 DEF NewPage, Page, Name
  <2>2. calm' \in BOOLEAN
    BY <1>5 DEF AtRest
  <2> QED
    BY <1>5, <1>9, <1>10, <2>1, <2>2 DEF PageStep
<1>12. fetches = <<>> => fetches' = new
  <2> SUFFICES ASSUME fetches = <<>>
               PROVE  fetches' = new
    OBVIOUS
  <2>1. S = {}
    BY <1>1
  <2>2. Len(s) = 0
    BY <1>6, <2>1, FS_EmptySet
  <2>3. t = <<>>
    BY <1>3, <1>6, <2>2
  <2> QED
    BY <1>5, <1>8, <2>3, ConcatEmptySeq
<1> QED
  BY <1>4, <1>5, <1>11, <1>12

\* A request that is left is one of the others.
Left(i, g) == \E j \in DOMAIN fetches : j # i /\ g = fetches[j]

LEMMA LoadedDatabasesStep ==
    ASSUME TypeOK, NEW i \in DOMAIN fetches, LoadedDatabases(i)
    PROVE  /\ PageStep
           /\ page'.db = fetches[i].ran /\ page'.listed = fetches[i].list /\ calm' = calm
           /\ fetches[i].kind = "databases" /\ fetches[i].at = "answered"
           /\ \A k \in DOMAIN fetches' :
                \/ Left(i, fetches'[k])
                \/ fetches'[k].kind = "tables" /\ fetches'[k].at = "schema" /\ fetches'[k].waiting
<1>1. PICK f : f = fetches[i]
  OBVIOUS
<1>2. PICK active : active = {f.ran} \cap f.list
  OBVIOUS
<1>3. PICK next : next = [page EXCEPT !.db = f.ran, !.tree = "shown", !.listed = f.list, !.open = active,
                                      !.loaded = {}, !.version = @ + 1]
  OBVIOUS
<1>4. PICK more : more = IF active = {} THEN <<>>
                         ELSE <<[expandDb(f.ran)[1] EXCEPT !.version = next.version]>>
  OBVIOUS
<1>5. f.kind = "databases" /\ Continue(i, next, more)
  BY <1>1, <1>2, <1>3, <1>4 DEF LoadedDatabases
<1>6. page \in Page /\ f \in Request
  BY <1>1 DEF TypeOK
<1>7. f.ran \in Name /\ f.list \subseteq Database /\ active \subseteq Name
  BY <1>2, <1>6 DEF Request, Name
<1>8. next \in Page /\ next.db = f.ran /\ next.listed = f.list /\ next.version \in Nat
  <2>1. page.version + 1 \in Nat /\ page.results \in {"none", "running", "shown"}
    BY <1>6 DEF Page
  <2>2. next = [db |-> f.ran, tree |-> "shown", listed |-> f.list, open |-> active, loaded |-> {},
                results |-> page.results, version |-> page.version + 1]
    BY <1>3, <1>6 DEF Page
  <2> QED
    BY <1>7, <2>1, <2>2 DEF Page
<1>9. /\ more \in Seq(Request)
      /\ \A m \in DOMAIN more : /\ Fresh(more[m])
                                /\ more[m].kind = "tables" /\ more[m].at = "schema" /\ more[m].waiting
  <2>1. CASE active = {}
    BY <1>4, <2>1
  <2>2. CASE active # {}
    <3>1. PICK g : g = Fetch("tables", "GET", f.ran, None)
      OBVIOUS
    <3>2. None \in Name
      BY DEF Name
    <3>3. g \in Request /\ Fresh(g) /\ g.kind = "tables" /\ g.at = "schema"
      BY <1>6, <1>7, <3>1, <3>2, FetchType DEF Op
    <3>4. PICK h : h = [g EXCEPT !.version = next.version]
      OBVIOUS
    <3>5. h \in Request
      BY <1>8, <3>3, <3>4 DEF Request, Fits
    <3>6. more = <<h>> /\ \A m \in DOMAIN more : more[m] = h
      BY <1>4, <2>2, <3>1, <3>4 DEF expandDb
    <3>7. Fresh(h) /\ h.kind = "tables" /\ h.at = "schema" /\ h.waiting
      BY <3>3, <3>4 DEF Fresh, Request
    <3> QED
      BY <3>5, <3>6, <3>7
  <2> QED
    BY <2>1, <2>2
<1>10. /\ PageStep
       /\ page' = next /\ calm' = calm /\ fetches[i].at = "answered"
       /\ \A k \in DOMAIN fetches' :
            IF k < Len(fetches) THEN LET j == IF k < i THEN k ELSE k + 1
                                     IN  j \in DOMAIN fetches /\ j # i /\ fetches'[k] = fetches[j]
            ELSE k - (Len(fetches) - 1) \in DOMAIN more /\ fetches'[k] = more[k - (Len(fetches) - 1)]
  BY <1>5, <1>8, <1>9, ContinueType
<1>11. ASSUME NEW k \in DOMAIN fetches'
       PROVE  \/ Left(i, fetches'[k])
              \/ fetches'[k].kind = "tables" /\ fetches'[k].at = "schema" /\ fetches'[k].waiting
  <2>1. CASE k < Len(fetches)
    BY <1>10, <2>1 DEF Left
  <2>2. CASE ~ (k < Len(fetches))
    BY <1>9, <1>10, <2>2
  <2> QED
    BY <2>1, <2>2
<1> QED
  BY <1>1, <1>5, <1>8, <1>10, <1>11

LEMMA LoadedTablesStep ==
    ASSUME TypeOK, NEW i \in DOMAIN fetches, LoadedTables(i)
    PROVE  /\ PageStep
           /\ page'.db = page.db /\ page'.listed = page.listed /\ calm' = calm
           /\ fetches[i].kind = "tables"
           /\ \A k \in DOMAIN fetches' :
                LET j == IF k < i THEN k ELSE k + 1
                IN  j \in DOMAIN fetches /\ j # i /\ fetches'[k] = fetches[j]
           /\ DOMAIN fetches' = 1 .. Len(fetches) - 1
<1>1. PICK f : f = fetches[i]
  OBVIOUS
<1>2. PICK next : next = IF f.version # page.version THEN page
                         ELSE [page EXCEPT !.loaded = IF f.status = "ok" THEN @ \cup {f.name} ELSE @ \ {f.name}]
  OBVIOUS
<1>3. f.kind = "tables" /\ Continue(i, next, <<>>)
  BY <1>1, <1>2 DEF LoadedTables
<1>4. page \in Page /\ f \in Request
  BY <1>1 DEF TypeOK
<1>5. f.name \in Name
  BY <1>4 DEF Request
<1>6. next \in Page /\ next.db = page.db /\ next.listed = page.listed
  BY <1>2, <1>4, <1>5 DEF Page
<1>7. <<>> \in Seq(Request) /\ \A m \in DOMAIN <<>> : Fresh(<<>>[m])
  OBVIOUS
<1>8. /\ PageStep
      /\ page' = next /\ calm' = calm
      /\ \A k \in DOMAIN fetches' :
           IF k < Len(fetches) THEN LET j == IF k < i THEN k ELSE k + 1
                                    IN  j \in DOMAIN fetches /\ j # i /\ fetches'[k] = fetches[j]
           ELSE k - (Len(fetches) - 1) \in DOMAIN <<>> /\ fetches'[k] = <<>>[k - (Len(fetches) - 1)]
  BY <1>3, <1>6, <1>7, ContinueType
<1>9. DOMAIN fetches' = 1 .. Len(fetches) - 1
  <2>1. PICK s : s = fetches
    OBVIOUS
  <2>2. s \in Seq(Request) /\ i \in DOMAIN s
    BY <2>1 DEF TypeOK
  <2>3. fetches' = RemoveAt(s, i) \o <<>>
    BY <1>3, <2>1 DEF Continue
  <2>4. RemoveAt(s, i) \in Seq(Request) /\ Len(RemoveAt(s, i)) = Len(s) - 1
    BY <2>2, RemoveAtKeeps
  <2>5. fetches' = RemoveAt(s, i)
    BY <2>3, <2>4, ConcatEmptySeq
  <2> QED
    BY <2>1, <2>4, <2>5
<1>10. \A k \in DOMAIN fetches' : k < Len(fetches)
  BY <1>8
<1> QED
  BY <1>1, <1>3, <1>6, <1>8, <1>9, <1>10

LEMMA SelectedDbStep ==
    ASSUME TypeOK, NEW i \in DOMAIN fetches, SelectedDb(i)
    PROVE  /\ PageStep
           /\ page'.db = fetches[i].name /\ page'.listed = page.listed /\ calm' = calm
           /\ fetches[i].kind = "use" /\ fetches[i].at = "answered"
           /\ \A k \in DOMAIN fetches' : Left(i, fetches'[k])
<1>1. PICK f : f = fetches[i]
  OBVIOUS
<1>2. PICK next : next = [page EXCEPT !.db = f.name]
  OBVIOUS
<1>3. f.kind = "use" /\ Continue(i, next, <<>>)
  BY <1>1, <1>2 DEF SelectedDb
<1>4. page \in Page /\ f \in Request
  BY <1>1 DEF TypeOK
<1>5. f.name \in Name
  BY <1>4 DEF Request
<1>6. next \in Page /\ next.db = f.name /\ next.listed = page.listed
  BY <1>2, <1>4, <1>5 DEF Page
<1>7. <<>> \in Seq(Request) /\ \A m \in DOMAIN <<>> : Fresh(<<>>[m])
  OBVIOUS
<1>8. /\ PageStep
      /\ page' = next /\ calm' = calm /\ fetches[i].at = "answered"
      /\ \A k \in DOMAIN fetches' :
           IF k < Len(fetches) THEN LET j == IF k < i THEN k ELSE k + 1
                                    IN  j \in DOMAIN fetches /\ j # i /\ fetches'[k] = fetches[j]
           ELSE k - (Len(fetches) - 1) \in DOMAIN <<>> /\ fetches'[k] = <<>>[k - (Len(fetches) - 1)]
  BY <1>3, <1>6, <1>7, ContinueType
<1> QED
  BY <1>1, <1>3, <1>6, <1>8 DEF Left

LEMMA ShowResultStep ==
    ASSUME TypeOK, NEW i \in DOMAIN fetches, ShowResult(i)
    PROVE  /\ PageStep
           /\ page'.db = page.db /\ page'.listed = page.listed /\ calm' = calm
           /\ fetches[i].kind = "execute" /\ fetches[i].at = "answered"
           /\ IF fetches[i].status = "ok" /\ Reloads(fetches[i].op)
              THEN \A k \in DOMAIN fetches' :
                     \/ k # Len(fetches) /\ Left(i, fetches'[k])
                     \/ /\ k = Len(fetches) /\ fetches'[k].kind = "databases"
                        /\ fetches'[k].at = "list" /\ fetches'[k].waiting
              ELSE \A k \in DOMAIN fetches' : Left(i, fetches'[k])
           /\ fetches[i].status = "ok" /\ Reloads(fetches[i].op) => Len(fetches) \in DOMAIN fetches'
<1>1. PICK f : f = fetches[i]
  OBVIOUS
<1>2. PICK next : next = [page EXCEPT !.results = "shown"]
  OBVIOUS
<1>3. PICK more : more = IF f.status = "ok" /\ Reloads(f.op) THEN loadDatabases ELSE <<>>
  OBVIOUS
<1>4. f.kind = "execute" /\ Continue(i, next, more)
  BY <1>1, <1>2, <1>3 DEF ShowResult
<1>5. page \in Page /\ f \in Request /\ None \in Name
  BY <1>1 DEF TypeOK, Name
<1>6. next \in Page /\ next.db = page.db /\ next.listed = page.listed
  BY <1>2, <1>5 DEF Page
<1>7. /\ more \in Seq(Request)
      /\ \A m \in DOMAIN more : Fresh(more[m])
  <2>1. <<>> \in Seq(Request) /\ DOMAIN <<>> = {}
    OBVIOUS
  <2> QED
    BY <1>3, <1>5, <2>1, SentType
<1>8. PICK g : g = Fetch("databases", "GET", None, None)
  OBVIOUS
<1>9. g.kind = "databases" /\ g.at = "list" /\ g.waiting
  BY <1>5, <1>8, FetchType DEF Op, Fresh
<1>10. f.status = "ok" /\ Reloads(f.op) => more = <<g>>
  BY <1>3, <1>8 DEF loadDatabases
<1>11. ~ (f.status = "ok" /\ Reloads(f.op)) => more = <<>>
  BY <1>3
<1>12. /\ PageStep
       /\ page' = next /\ calm' = calm /\ fetches[i].at = "answered"
       /\ \A k \in DOMAIN fetches' :
            IF k < Len(fetches) THEN LET j == IF k < i THEN k ELSE k + 1
                                     IN  j \in DOMAIN fetches /\ j # i /\ fetches'[k] = fetches[j]
            ELSE k - (Len(fetches) - 1) \in DOMAIN more /\ fetches'[k] = more[k - (Len(fetches) - 1)]
  BY <1>4, <1>6, <1>7, ContinueType
<1>13. PICK n : n = Len(fetches)
  OBVIOUS
<1>14. n \in Nat /\ DOMAIN fetches' \subseteq Nat
  <2>1. fetches' \in Seq(Request)
    BY <1>12 DEF PageStep
  <2> QED
    BY <1>13, <2>1 DEF TypeOK
<1>15. ASSUME NEW k \in DOMAIN fetches', k < n
       PROVE  k # n /\ Left(i, fetches'[k])
  BY <1>12, <1>13, <1>14, <1>15 DEF Left
<1>16. ASSUME f.status = "ok", Reloads(f.op)
       PROVE  /\ \A k \in DOMAIN fetches' : ~ (k < n) =>
                   /\ k = n /\ fetches'[k].kind = "databases"
                   /\ fetches'[k].at = "list" /\ fetches'[k].waiting
              /\ n \in DOMAIN fetches'
  <2>1. more = <<g>> /\ DOMAIN more = {1} /\ more[1] = g
    BY <1>10, <1>16
  <2>2. ASSUME NEW k \in DOMAIN fetches', ~ (k < n)
        PROVE  k = n /\ fetches'[k] = g
    <3>1. k - (n - 1) = 1 /\ fetches'[k] = more[k - (n - 1)]
      BY <1>12, <1>13, <2>1, <2>2
    <3>2. k = n
      BY <1>14, <3>1
    <3> QED
      BY <2>1, <3>1, <3>2
  <2>3. n \in DOMAIN fetches'
    <3>1. PICK s : s = fetches
      OBVIOUS
    <3>2. s \in Seq(Request) /\ i \in DOMAIN s
      BY <3>1 DEF TypeOK
    <3>3. RemoveAt(s, i) \in Seq(Request) /\ Len(RemoveAt(s, i)) = n - 1
      BY <1>13, <3>1, <3>2, RemoveAtKeeps
    <3>4. fetches' = RemoveAt(s, i) \o more
      BY <1>4, <3>1 DEF Continue
    <3>5. fetches' \in Seq(Request) /\ Len(fetches') = Len(RemoveAt(s, i)) + Len(more)
      BY <1>7, <3>3, <3>4, ConcatProperties
    <3>6. Len(more) = 1
      BY <2>1
    <3>7. Len(fetches') = n
      BY <1>14, <3>3, <3>5, <3>6
    <3>8. n \in 1 .. n
      BY <1>13, <1>14, <3>1, <3>2
    <3> QED
      BY <3>5, <3>7, <3>8
  <2> QED
    BY <1>9, <2>2, <2>3
<1>17. ASSUME ~ (f.status = "ok" /\ Reloads(f.op))
       PROVE  \A k \in DOMAIN fetches' : Left(i, fetches'[k])
  <2> TAKE k \in DOMAIN fetches'
  <2>1. k < n
    BY <1>11, <1>12, <1>13, <1>17
  <2> QED
    BY <1>15, <2>1
<1>18. ASSUME f.status = "ok", Reloads(f.op)
       PROVE  \A k \in DOMAIN fetches' :
                \/ k # n /\ Left(i, fetches'[k])
                \/ /\ k = n /\ fetches'[k].kind = "databases"
                   /\ fetches'[k].at = "list" /\ fetches'[k].waiting
  BY <1>15, <1>16, <1>18
<1> QED
  BY <1>1, <1>4, <1>6, <1>12, <1>13, <1>16, <1>17, <1>18

\* What the page makes of a broken connection.
LEMMA BrokenStep ==
    ASSUME TypeOK, NEW i \in DOMAIN fetches, Broken(i)
    PROVE  /\ page' \in Page /\ calm' = FALSE /\ UNCHANGED <<databases, current>>
           /\ fetches[i].whole
<1>1. page \in Page /\ None \in Name /\ page.version + 1 \in Nat
  BY DEF TypeOK, Name, Page
<1>2. NoTree \in Page
  BY <1>1 DEF NoTree, Page
<1>3. [page EXCEPT !.results = "shown"] \in Page
  BY <1>1 DEF Page
<1>4. Caught(fetches[i].kind) \in Page
  BY <1>1, <1>2, <1>3 DEF Caught
<1> QED
  BY <1>1, <1>4 DEF Broken

\* One request is changed, the others stay.
LEMMA OneChanges ==
    ASSUME TypeOK, NEW i \in DOMAIN fetches, NEW g \in Request, fetches' = [fetches EXCEPT ![i] = g]
    PROVE  /\ fetches' \in Seq(Request) /\ DOMAIN fetches' = DOMAIN fetches
           /\ \A k \in DOMAIN fetches : fetches'[k] = IF k = i THEN g ELSE fetches[k]
<1>1. PICK s : s = fetches
  OBVIOUS
<1>2. s \in Seq(Request) /\ i \in DOMAIN s /\ fetches' = [s EXCEPT ![i] = g]
  BY <1>1 DEF TypeOK
<1> QED
  BY <1>1, <1>2

LEMMA FetchFailsStep ==
    ASSUME TypeOK, NEW i \in DOMAIN fetches, FetchFails(i)
    PROVE  PageStep /\ ~ calm'
<1>1. PICK s : s = fetches
  OBVIOUS
<1>2. s \in Seq(Request) /\ i \in DOMAIN s
  BY <1>1 DEF TypeOK
<1>3. page' \in Page /\ calm' = FALSE /\ UNCHANGED <<databases, current>>
  BY BrokenStep DEF FetchFails
<1>4. CASE fetches' = RemoveAt(s, i)
  <2>1. /\ fetches' \in Seq(Request)
        /\ \A k \in DOMAIN fetches' :
             /\ k \in DOMAIN s /\ k + 1 \in DOMAIN s
             /\ fetches'[k] = IF k < i THEN s[k] ELSE s[k + 1]
    BY <1>2, <1>4, RemoveAtKeeps
  <2>2. \A k \in DOMAIN fetches' : \E j \in DOMAIN fetches : fetches'[k] = fetches[j]
    BY <1>1, <2>1
  <2> QED
    BY <1>3, <2>1, <2>2 DEF PageStep
<1>5. CASE fetches' = [fetches EXCEPT ![i].waiting = FALSE]
  <2>1. PICK g : g = [fetches[i] EXCEPT !.waiting = FALSE]
    OBVIOUS
  <2>2. fetches' = [fetches EXCEPT ![i] = g]
    BY <1>5, <2>1
  <2>3. g \in Request
    <3>1. PICK f \in Request : f = s[i]
      BY <1>2
    <3> QED
      BY <1>1, <2>1, <3>1 DEF Request, Fits
  <2>4. /\ fetches' \in Seq(Request) /\ DOMAIN fetches' = DOMAIN fetches
        /\ \A k \in DOMAIN fetches : fetches'[k] = IF k = i THEN g ELSE fetches[k]
    BY <2>2, <2>3, OneChanges
  <2>5. \A k \in DOMAIN fetches' : \E j \in DOMAIN fetches :
          fetches'[k] \in {fetches[j], [fetches[j] EXCEPT !.waiting = FALSE]}
    BY <2>1, <2>4
  <2> QED
    BY <1>3, <2>4, <2>5 DEF PageStep
<1> QED
  BY <1>1, <1>3, <1>4, <1>5 DEF FetchFails

LEMMA CutShortStep ==
    ASSUME TypeOK, NEW i \in DOMAIN fetches, CutShort(i)
    PROVE  PageStep /\ ~ calm'
<1>1. page' \in Page /\ calm' = FALSE /\ UNCHANGED <<databases, current>>
  BY BrokenStep DEF CutShort
<1>2. PICK g : g = Cut(fetches[i])
  OBVIOUS
<1>3. fetches[i].at = "check" /\ fetches' = [fetches EXCEPT ![i] = g]
  BY <1>2 DEF CutShort, Cut
<1>4. g \in Request
  <2>1. PICK f \in Request : f = fetches[i]
    BY DEF TypeOK
  <2> QED
    BY <1>2, <2>1 DEF Request, Fits, Cut
<1>5. /\ fetches' \in Seq(Request) /\ DOMAIN fetches' = DOMAIN fetches
      /\ \A k \in DOMAIN fetches : fetches'[k] = IF k = i THEN g ELSE fetches[k]
  BY <1>3, <1>4, OneChanges
<1>6. ASSUME NEW k \in DOMAIN fetches'
      PROVE  \E j \in DOMAIN fetches :
               \/ fetches'[k] \in {fetches[j], [fetches[j] EXCEPT !.waiting = FALSE]}
               \/ fetches[j].at = "check" /\ fetches'[k] = Cut(fetches[j])
  <2>1. CASE k = i
    BY <1>2, <1>3, <1>5, <2>1
  <2>2. CASE k # i
    BY <1>5, <2>2
  <2> QED
    BY <2>1, <2>2
<1> QED
  BY <1>1, <1>5, <1>6 DEF PageStep

\* The user of the page clicks or types: what there is on the page of the
\* server stays.
LEMMA UserStep ==
    ASSUME TypeOK,
           \/ \E d \in Database : toggleDb(d) \/ selectTable(d)
           \/ \E op \in {"CREATE", "DROP", "USE"}, d \in Database : TypeQuery(op, d)
           \/ TypeQuery("SELECT", None)
           \/ Refresh
    PROVE  \E more \in Seq(Request) :
             /\ PageStep
             /\ page'.db = page.db /\ page'.listed = page.listed
             /\ calm' => calm /\ AtRest
             /\ fetches = <<>> => fetches' = more
             /\ calm' => \/ more = loadDatabases
                         \/ \E d \in page.listed : more \in {<<>>, setActiveDb(d) \o expandDb(d)}
                         \/ \E op \in {"SELECT", "CREATE", "DROP"}, d \in Name :
                              /\ op = "CREATE" => d \in Database
                              /\ more = executeQuery(op, d)
<1>1. page \in Page /\ None \in Name /\ Database \subseteq Name /\ page.listed \subseteq Database
  BY DEF TypeOK, Page, Name
<1> DEFINE Shown(p) == p \in Page /\ p.db = page.db /\ p.listed = page.listed
<1>2. Shown([page EXCEPT !.results = "running"])
  BY <1>1 DEF Page
<1>3. ASSUME NEW d \in Database, toggleDb(d)
      PROVE  \E more \in Seq(Request) :
               /\ PageStep
               /\ page'.db = page.db /\ page'.listed = page.listed
               /\ calm' => calm /\ AtRest
               /\ fetches = <<>> => fetches' = more
               /\ d \in page.listed
               /\ more \in {<<>>, setActiveDb(d) \o expandDb(d)}
  <2>1. d \in page.listed
    BY <1>3 DEF toggleDb
  <2>2. CASE d \in page.open
    <3>1. PICK next : next = [page EXCEPT !.open = @ \ {d}]
      OBVIOUS
    <3>2. Acts(next, <<>>, TRUE)
      BY <1>3, <2>2, <3>1 DEF toggleDb
    <3>3. next \in Page /\ next.db = page.db /\ next.listed = page.listed
      BY <1>1, <3>1 DEF Page
    <3>4. <<>> \in Seq(Request) /\ \A m \in DOMAIN <<>> : Fresh(<<>>[m])
      OBVIOUS
    <3>5. /\ PageStep /\ page' = next /\ calm' = (calm /\ AtRest /\ TRUE)
          /\ fetches = <<>> => fetches' = <<>>
      BY <3>2, <3>3, <3>4, ActsType
    <3> QED
      BY <2>1, <3>3, <3>4, <3>5
  <2>3. CASE d \notin page.open
    <3>1. PICK next : next = [page EXCEPT !.open = @ \cup {d}]
      OBVIOUS
    <3>2. PICK more : more = setActiveDb(d) \o expandDb(d)
      OBVIOUS
    <3>3. Acts(next, more, TRUE)
      BY <1>3, <2>3, <3>1, <3>2 DEF toggleDb
    <3>4. next \in Page /\ next.db = page.db /\ next.listed = page.listed
      BY <1>1, <3>1 DEF Page
    <3>5. more \in Seq(Request) /\ \A m \in DOMAIN more : Fresh(more[m])
      BY <1>1, <3>2, SentType
    <3>6. /\ PageStep /\ page' = next /\ calm' = (calm /\ AtRest /\ TRUE)
          /\ fetches = <<>> => fetches' = more
      BY <3>3, <3>4, <3>5, ActsType
    <3> QED
      BY <2>1, <3>2, <3>4, <3>5, <3>6
  <2> QED
    BY <2>2, <2>3
<1>4. ASSUME NEW d \in Database, selectTable(d)
      PROVE  \E more \in Seq(Request) :
               /\ PageStep
               /\ page'.db = page.db /\ page'.listed = page.listed
               /\ calm' => calm /\ AtRest
               /\ fetches = <<>> => fetches' = more
               /\ calm' => more = executeQuery("SELECT", None)
  <2>1. PICK next : next = [page EXCEPT !.results = "running"]
    OBVIOUS
  <2>2. PICK more : more = setActiveDb(d) \o executeQuery("SELECT", None)
    OBVIOUS
  <2>3. Acts(next, more, d = page.db)
    BY <1>4, <2>1, <2>2 DEF selectTable
  <2>4. more \in Seq(Request) /\ \A m \in DOMAIN more : Fresh(more[m])
    BY <1>1, <2>2, SentType
  <2>5. /\ PageStep /\ page' = next /\ calm' = (calm /\ AtRest /\ d = page.db)
        /\ fetches = <<>> => fetches' = more
    BY <1>2, <2>1, <2>3, <2>4, ActsType
  <2>6. executeQuery("SELECT", None) \in Seq(Request)
    BY <1>1, SentType DEF Op
  <2>7. d = page.db => more = executeQuery("SELECT", None)
    BY <2>2, <2>6, ConcatEmptySeq DEF setActiveDb
  <2> QED
    BY <1>2, <2>1, <2>4, <2>5, <2>7
<1>5. ASSUME NEW op \in Op, NEW d \in Name, op = "CREATE" => d \in Database, TypeQuery(op, d)
      PROVE  \E more \in Seq(Request) :
               /\ PageStep
               /\ page'.db = page.db /\ page'.listed = page.listed
               /\ calm' => calm /\ AtRest
               /\ fetches = <<>> => fetches' = more
               /\ calm' => op # "USE" /\ more = executeQuery(op, d)
  <2>1. PICK next : next = [page EXCEPT !.results = "running"]
    OBVIOUS
  <2>2. PICK more : more = executeQuery(op, d)
    OBVIOUS
  <2>3. Acts(next, more, op # "USE")
    BY <1>5, <2>1, <2>2 DEF TypeQuery
  <2>4. more \in Seq(Request) /\ \A m \in DOMAIN more : Fresh(more[m])
    BY <1>1, <1>5, <2>2, SentType
  <2>5. /\ PageStep /\ page' = next /\ calm' = (calm /\ AtRest /\ op # "USE")
        /\ fetches = <<>> => fetches' = more
    BY <1>2, <2>1, <2>3, <2>4, ActsType
  <2> QED
    BY <1>2, <2>1, <2>2, <2>4, <2>5
<1>6. CASE \E d \in Database : toggleDb(d)
  BY <1>3, <1>6
<1>7. CASE \E d \in Database : selectTable(d)
  BY <1>1, <1>4, <1>7
<1>8. CASE \E op \in {"CREATE", "DROP", "USE"}, d \in Database : TypeQuery(op, d)
  <2>1. PICK op \in {"CREATE", "DROP", "USE"}, d \in Database : TypeQuery(op, d)
    BY <1>8
  <2>2. op \in Op /\ d \in Name /\ (op # "USE" => op \in {"SELECT", "CREATE", "DROP"})
    BY <1>1, <2>1 DEF Op
  <2> QED
    BY <1>5, <2>1, <2>2
<1>9. CASE TypeQuery("SELECT", None)
  <2>1. "SELECT" \in Op
    BY DEF Op
  <2> QED
    BY <1>1, <1>5, <1>9, <2>1
<1>10. CASE Refresh
  <2>1. PICK p : p = page
    OBVIOUS
  <2>2. PICK more : more = loadDatabases
    OBVIOUS
  <2>3. Acts(p, more, TRUE) /\ p \in Page
    BY <1>1, <1>10, <2>1, <2>2 DEF Refresh
  <2>4. more \in Seq(Request) /\ \A m \in DOMAIN more : Fresh(more[m])
    BY <1>1, <2>2, SentType
  <2>5. /\ PageStep /\ page' = p /\ calm' = (calm /\ AtRest /\ TRUE)
        /\ fetches = <<>> => fetches' = more
    BY <2>3, <2>4, ActsType
  <2> QED
    BY <2>1, <2>2, <2>4, <2>5
<1> QED
  BY <1>6, <1>7, <1>8, <1>9, <1>10

LEMMA PageSteps ==
    ASSUME TypeOK, User \/ \E i \in DOMAIN fetches : Proceed(i) \/ FetchFails(i) \/ CutShort(i)
    PROVE  PageStep
<1>1. CASE User
  BY <1>1, UserStep, ReloadType DEF User
<1>2. ASSUME NEW i \in DOMAIN fetches, Proceed(i)
      PROVE  PageStep
  BY <1>2, LoadedDatabasesStep, LoadedTablesStep, SelectedDbStep, ShowResultStep DEF Proceed
<1>3. ASSUME NEW i \in DOMAIN fetches, FetchFails(i) \/ CutShort(i)
      PROVE  PageStep
  BY <1>3, FetchFailsStep, CutShortStep
<1> QED
  BY <1>1, <1>2, <1>3

-----------------------------------------------------------------------------
(* What the handlers do.                                                   *)

\* One step of the handler of g makes f of it.
Progress(g, f) ==
    /\ f.kind = g.kind /\ f.op = g.op /\ f.name = g.name /\ f.db = g.db
    /\ f.waiting = g.waiting /\ f.whole = g.whole
    /\ \/ /\ g.at = "check" /\ f.status = g.status /\ f.ran = g.ran /\ UNCHANGED <<databases, current>>
          /\ f.at = IF Named(g) \notin {None, current} THEN "use" ELSE "run"
       \/ /\ g.at = "use" /\ f.at = "run" /\ f.status = g.status /\ f.ran = g.ran
          /\ current' = g.db /\ databases' = databases
       \/ /\ g.at = "use" /\ f.at = "answered" /\ f.status = "refused"
          /\ UNCHANGED <<databases, current>>
       \/ /\ g.at = "run" /\ f.at = "answered" /\ f.ran = current
          /\ Statement(g.op, g.name) /\ f.switched = g.switched
          /\ f.status = IF Succeeds(g.op, g.name) THEN "ok" ELSE "error"
       \/ /\ g.at = "list" /\ f.at = "current" /\ f.status = g.status /\ f.list = databases
          /\ UNCHANGED <<databases, current>>
       \/ /\ g.at = "current" /\ f.at = "answered" /\ f.list = g.list /\ f.ran = current
          /\ UNCHANGED <<databases, current>>
       \/ /\ g.at = "schema" /\ f.at = "answered"
          /\ UNCHANGED <<databases, current>>

LEMMA HandlerStep ==
    ASSUME TypeOK, NEW i \in DOMAIN fetches, Handle(i)
    PROVE  ServerType' /\ \E f \in Request : Handled(i, f) /\ Progress(fetches[i], f)
<1>1. PICK g : g = fetches[i]
  OBVIOUS
<1>2. g \in Request /\ current \in Name /\ databases \subseteq Database
  BY <1>1 DEF TypeOK, ServerType, Name
<1>3. CASE Check(i)
  <2>1. PICK f : f = [g EXCEPT !.at = IF Named(g) \notin {None, current} THEN "use" ELSE "run",
                               !.switched = {}]
    OBVIOUS
  <2>2. g.at = "check" /\ Handled(i, f) /\ UNCHANGED <<databases, current>>
    BY <1>1, <1>3, <2>1 DEF Check
  <2>3. f \in Request
    BY <1>2, <2>1, <2>2 DEF Request, Fits
  <2>4. Progress(g, f)
    BY <1>2, <2>1, <2>2 DEF Progress, Request
  <2> QED
    BY <1>1, <2>2, <2>3, <2>4 DEF TypeOK, ServerType
<1>4. CASE UseDb(i)
  <2>1. g.at = "use" /\ Statement("USE", g.db)
    BY <1>1, <1>4 DEF UseDb
  <2>2. ServerType'
    <3>1. g.db \in Name /\ "USE" \in Op /\ ServerType
      BY <1>2 DEF Request, TypeOK, Op
    <3> QED
      BY <2>1, <3>1, StatementType
  <2>3. CASE g.db \in databases
    <3>1. PICK f : f = [g EXCEPT !.at = "run", !.switched = {}]
      OBVIOUS
    <3>2. Handled(i, f) /\ current' = g.db /\ databases' = databases
      BY <1>1, <1>4, <2>3, <3>1 DEF UseDb, Statement, Succeeds, Changes
    <3>3. f \in Request /\ Progress(g, f)
      BY <1>2, <2>1, <3>1, <3>2 DEF Request, Fits, Progress
    <3> QED
      BY <1>1, <2>2, <3>2, <3>3
  <2>4. CASE g.db \notin databases
    <3>1. PICK f : f = [g EXCEPT !.at = "answered", !.status = "refused"]
      OBVIOUS
    <3>2. Handled(i, f) /\ UNCHANGED <<databases, current>>
      BY <1>1, <1>4, <2>4, <3>1 DEF UseDb, Statement, Succeeds
    <3>3. f \in Request /\ Progress(g, f)
      BY <1>2, <2>1, <3>1, <3>2 DEF Request, Fits, Progress
    <3> QED
      BY <1>1, <2>2, <3>2, <3>3
  <2> QED
    BY <2>3, <2>4
<1>5. CASE RunQuery(i)
  <2>1. PICK st : st = IF Succeeds(g.op, g.name) THEN "ok" ELSE "error"
    OBVIOUS
  <2>2. PICK f : f = [g EXCEPT !.at = "answered", !.ran = current, !.status = st]
    OBVIOUS
  <2>3. g.at = "run" /\ Statement(g.op, g.name) /\ Handled(i, f)
    BY <1>1, <1>5, <2>1, <2>2 DEF RunQuery
  <2>4. ServerType'
    <3>1. g.name \in Name /\ g.op \in Op /\ (g.op = "CREATE" => g.name \in Database) /\ ServerType
      BY <1>2, <2>3 DEF Request, Fits, TypeOK
    <3> QED
      BY <2>3, <3>1, StatementType
  <2>5. st \in {"ok", "error"}
    BY <2>1
  <2>6. f \in Request
    BY <1>2, <2>2, <2>3, <2>5 DEF Request, Fits
  <2>7. Progress(g, f)
    BY <1>2, <2>1, <2>2, <2>3 DEF Request, Progress
  <2> QED
    BY <1>1, <2>3, <2>4, <2>6, <2>7
<1>6. CASE ListDatabases(i)
  <2>1. PICK f : f = [g EXCEPT !.at = "current", !.list = databases]
    OBVIOUS
  <2>2. g.at = "list" /\ Handled(i, f) /\ UNCHANGED <<databases, current>>
    BY <1>1, <1>6, <2>1 DEF ListDatabases
  <2>3. f \in Request /\ Progress(g, f)
    BY <1>2, <2>1, <2>2 DEF Request, Fits, Progress
  <2> QED
    BY <1>1, <2>2, <2>3 DEF TypeOK, ServerType
<1>7. CASE CurrentDatabase(i)
  <2>1. PICK f : f = [g EXCEPT !.at = "answered", !.ran = current, !.status = "ok"]
    OBVIOUS
  <2>2. g.at = "current" /\ Handled(i, f) /\ UNCHANGED <<databases, current>>
    BY <1>1, <1>7, <2>1 DEF CurrentDatabase
  <2>3. f \in Request /\ Progress(g, f)
    BY <1>2, <2>1, <2>2 DEF Request, Fits, Progress
  <2> QED
    BY <1>1, <2>2, <2>3 DEF TypeOK, ServerType
<1>8. CASE LoadSchema(i)
  <2>1. PICK st : st = IF g.name \in databases THEN "ok" ELSE "error"
    OBVIOUS
  <2>2. PICK f : f = [g EXCEPT !.at = "answered", !.status = st]
    OBVIOUS
  <2>3. g.at = "schema" /\ Handled(i, f) /\ UNCHANGED <<databases, current>>
    BY <1>1, <1>8, <2>1, <2>2 DEF LoadSchema
  <2>4. st \in {"ok", "error"}
    BY <2>1
  <2>5. f \in Request /\ Progress(g, f)
    BY <1>2, <2>2, <2>3, <2>4 DEF Request, Fits, Progress
  <2> QED
    BY <1>1, <2>3, <2>5 DEF TypeOK, ServerType
<1> QED
  BY <1>3, <1>4, <1>5, <1>6, <1>7, <1>8 DEF Handle

\* The other connection.
LEMMA OtherStep ==
    ASSUME TypeOK, NEW op \in {"CREATE", "DROP", "USE"}, NEW d \in Database, OtherConnection(op, d)
    PROVE  ServerType' /\ fetches' = Noticed /\ page' = page /\ calm' = FALSE
<1>1. op \in Op /\ d \in Name /\ ServerType
  BY DEF Op, Name, TypeOK
<1>2. Statement(op, d) /\ fetches' = Noticed /\ page' = page /\ calm' = FALSE
  BY DEF OtherConnection
<1> QED
  BY <1>1, <1>2, StatementType

LEMMA InitType == Init => TypeOK
<1> SUFFICES ASSUME Init
             PROVE  TypeOK
  OBVIOUS
<1>1. page = NewPage(0) /\ page \in Page
  BY DEF Init, NewPage, Page, Name
<1>2. fetches \in Seq(Request)
  BY <1>1, SentType DEF Init, Name
<1> QED
  BY <1>1, <1>2 DEF Init, TypeOK, ServerType

LEMMA NextType == TypeOK /\ [Next]_vars => TypeOK'
<1> SUFFICES ASSUME TypeOK, [Next]_vars
             PROVE  TypeOK'
  OBVIOUS
<1>1. ASSUME PageStep
      PROVE  TypeOK'
  BY <1>1 DEF PageStep, TypeOK, ServerType
<1>2. ASSUME NEW op \in {"CREATE", "DROP", "USE"}, NEW d \in Database, OtherConnection(op, d)
      PROVE  TypeOK'
  <2>1. ServerType' /\ fetches' = Noticed /\ page' = page /\ calm' = FALSE
    BY <1>2, OtherStep
  <2>2. Noticed \in Seq(Request)
    BY <2>1, NoticedType
  <2> QED
    BY <2>1, <2>2 DEF TypeOK
<1>3. ASSUME NEW i \in DOMAIN fetches, Handle(i)
      PROVE  TypeOK'
  <2>1. ServerType' /\ \E f \in Request : Handled(i, f)
    BY <1>3, HandlerStep
  <2>2. fetches' \in Seq(Request) /\ UNCHANGED <<page, calm>>
    BY <2>1, HandledType
  <2> QED
    BY <2>1, <2>2 DEF TypeOK
<1>4. CASE UNCHANGED vars
  BY <1>4 DEF vars, TypeOK, ServerType
<1> QED
  BY <1>1, <1>2, <1>3, <1>4, PageSteps DEF Next

\* The page, its requests and the server keep their types: in particular a
\* request is in a handler of its kind, and the current database exists.
THEOREM WebTypeCorrect == Spec => []TypeOK
BY InitType, NextType, PTL DEF Spec

-----------------------------------------------------------------------------
(* A query runs where it was sent.                                         *)

\* A handler that has seen all of its request knows every database that was
\* selected since its own was; the page waits only for such a request.
Sent(f) ==
    /\ f.status # "none" => f.at = "answered"
    /\ f.waiting => f.whole
    /\ f.kind = "execute" /\ f.db # None /\ f.whole =>
         /\ f.at = "run" => current \in {f.db} \cup f.switched
         /\ f.status \in {"ok", "error"} => f.ran \in {f.db} \cup f.switched

AllSent == \A i \in DOMAIN fetches : Sent(fetches[i])

\* It still does when it looks on.
LEMMA NoticedSent ==
    ASSUME TypeOK, ServerType', NEW j \in DOMAIN fetches, Sent(fetches[j]),
           NEW h, h = Noticed[j]
    PROVE  Sent(h)'
<1>1. PICK g : g = fetches[j]
  OBVIOUS
<1>2. g \in Request
  BY <1>1 DEF TypeOK
<1>3. h = IF current' = current THEN g ELSE [g EXCEPT !.switched = @ \cup {current'}]
  BY <1>1, NoticedType
<1>4. CASE current' = current
  BY <1>1, <1>3, <1>4 DEF Sent
<1>5. CASE current' # current
  <2>1. PICK c : c = current'
    OBVIOUS
  <2>2. h = [g EXCEPT !.switched = g.switched \cup {c}]
    BY <1>3, <1>5, <2>1
  <2>3. /\ h.status = g.status /\ h.at = g.at /\ h.kind = g.kind /\ h.db = g.db /\ h.ran = g.ran
        /\ h.switched = g.switched \cup {c} /\ h.whole = g.whole /\ h.waiting = g.waiting
    BY <1>2, <2>2 DEF Request
  <2> QED
    BY <1>1, <2>1, <2>3 DEF Sent
<1> QED
  BY <1>4, <1>5

LEMMA HandledSent ==
    ASSUME TypeOK, NEW g \in Request, NEW f \in Request, Sent(g), Progress(g, f)
    PROVE  Sent(f)'
<1>1. CASE g.at = "check"
  BY <1>1 DEF Progress, Sent, Named
<1>2. CASE g.at = "use"
  BY <1>2 DEF Progress, Sent
<1>3. CASE g.at = "run"
  BY <1>3 DEF Progress, Sent
<1>4. CASE g.at \in {"list", "current", "schema"}
  <2>1. g.kind \in {"databases", "tables"}
    BY <1>4 DEF Request, Fits
  <2> QED
    BY <1>4, <2>1 DEF Progress, Sent
<1> QED
  BY <1>1, <1>2, <1>3, <1>4 DEF Progress

LEMMA InitSent == Init => AllSent
<1> SUFFICES ASSUME Init, NEW i \in DOMAIN fetches
             PROVE  Sent(fetches[i])
  BY DEF AllSent
<1>1. page = NewPage(0) /\ page \in Page
  BY DEF Init, NewPage, Page, Name
<1>2. \A m \in DOMAIN loadDatabases : Fresh(loadDatabases[m])
  BY <1>1, SentType DEF Name
<1> QED
  BY <1>2 DEF Init, Fresh, Sent

LEMMA NextSent == TypeOK /\ AllSent /\ [Next]_vars => AllSent'
<1> SUFFICES ASSUME TypeOK, AllSent, [Next]_vars
             PROVE  AllSent'
  OBVIOUS
<1>1. ASSUME PageStep
      PROVE  AllSent'
  <2> SUFFICES ASSUME NEW k \in DOMAIN fetches', NEW h, h = fetches'[k]
               PROVE  Sent(h)'
    BY DEF AllSent
  <2>1. current' = current
    BY <1>1 DEF PageStep
  <2>2. CASE Fresh(h)
    BY <2>2 DEF Fresh, Sent
  <2>3. ASSUME NEW j \in DOMAIN fetches,
               h \in {fetches[j], [fetches[j] EXCEPT !.waiting = FALSE]}
        PROVE  Sent(h)'
    <3>1. PICK g : g = fetches[j]
      OBVIOUS
    <3>2. g \in Request /\ Sent(g)
      BY <3>1 DEF TypeOK, AllSent
    <3>3. /\ h.status = g.status /\ h.at = g.at /\ h.kind = g.kind /\ h.db = g.db /\ h.ran = g.ran
          /\ h.switched = g.switched /\ h.whole = g.whole /\ (h.waiting => g.waiting)
      BY <2>3, <3>1, <3>2 DEF Request
    <3> QED
      BY <2>1, <3>2, <3>3 DEF Sent
  <2>4. ASSUME NEW j \in DOMAIN fetches, fetches[j].at = "check", h = Cut(fetches[j])
        PROVE  Sent(h)'
    <3>1. PICK g : g = fetches[j]
      OBVIOUS
    <3>2. g \in Request /\ Sent(g)
      BY <3>1 DEF TypeOK, AllSent
    <3>3. h.status = g.status /\ h.at = g.at /\ ~ h.whole /\ ~ h.waiting
      BY <2>4, <3>1, <3>2 DEF Request, Cut
    <3> QED
      BY <2>4, <3>1, <3>2, <3>3 DEF Sent
  <2> QED
    BY <1>1, <2>2, <2>3, <2>4 DEF PageStep
<1>2. ASSUME NEW op \in {"CREATE", "DROP", "USE"}, NEW d \in Database, OtherConnection(op, d)
      PROVE  AllSent'
  <2>1. ServerType' /\ fetches' = Noticed
    BY <1>2, OtherStep
  <2>2. DOMAIN Noticed = DOMAIN fetches
    BY <2>1, NoticedType
  <2>3. ASSUME NEW k \in DOMAIN fetches, NEW h, h = Noticed[k]
        PROVE  Sent(h)'
    BY <2>1, <2>3, NoticedSent DEF AllSent
  <2> QED
    BY <2>1, <2>2, <2>3 DEF AllSent
<1>3. ASSUME NEW i \in DOMAIN fetches, Handle(i)
      PROVE  AllSent'
  <2>1. PICK f \in Request : ServerType' /\ Handled(i, f) /\ Progress(fetches[i], f)
    BY <1>3, HandlerStep
  <2>2. \A k \in DOMAIN fetches' :
          \/ fetches'[k] = f
          \/ \E j \in DOMAIN fetches : j # i /\ fetches'[k] = Noticed[j]
    BY <2>1, HandledType
  <2>3. Sent(f)'
    <3>1. PICK g : g = fetches[i]
      OBVIOUS
    <3>2. g \in Request /\ Sent(g)
      BY <3>1 DEF TypeOK, AllSent
    <3> QED
      BY <2>1, <3>1, <3>2, HandledSent
  <2>4. ASSUME NEW k \in DOMAIN fetches', NEW h, h = fetches'[k]
        PROVE  Sent(h)'
    <3>1. CASE h = f
      BY <2>3, <3>1
    <3>2. ASSUME NEW j \in DOMAIN fetches, h = Noticed[j]
          PROVE  Sent(h)'
      BY <2>1, <3>2, NoticedSent DEF AllSent
    <3> QED
      BY <2>2, <2>4, <3>1, <3>2
  <2> QED
    BY <2>4 DEF AllSent
<1>4. CASE UNCHANGED vars
  BY <1>4 DEF vars, AllSent, Sent
<1> QED
  BY <1>1, <1>2, <1>3, <1>4, PageSteps DEF Next

\* A statement of the page whose request has arrived whole, and every one that
\* the page still waits for, runs, or is about to, on the database that the
\* page showed when it was sent, or on one that somebody else has selected
\* (none, by dropping it) between the steps of its own handler, whatever else
\* is on its way.
THEOREM QueriesStay == Spec => []QueriesRunWhereSent
<1>1. AllSent => QueriesRunWhereSent
  BY DEF AllSent, Sent, QueriesRunWhereSent
<1> QED
  BY <1>1, InitType, NextType, InitSent, NextSent, PTL DEF Spec

-----------------------------------------------------------------------------
(* A page whose user waits for it tells the truth.                         *)

Truth == page.db = current /\ page.listed = databases

\* What the answer of a request will do, when nobody gets in the way: if it
\* changes the page, it makes the page tell the truth.
Expected(f) ==
    /\ f.waiting
    /\ f.kind = "databases" =>
         /\ f.at \in {"list", "current", "answered"}
         /\ f.at # "list" => f.list = databases
         /\ f.at = "answered" => f.ran = current
    /\ f.kind = "use" =>
         /\ f.op = "USE" /\ f.db = None /\ f.at \in {"check", "run", "answered"}
         /\ f.at # "answered" => Truth /\ f.name \in databases
         /\ f.at = "answered" => current = f.name /\ page.listed = databases
    /\ f.kind = "execute" =>
         /\ f.op \in {"SELECT", "CREATE", "DROP"} /\ f.at \in {"check", "run", "answered"}
         /\ f.at # "answered" => Truth /\ f.db \in {None, current}
         /\ f.at = "answered" => Truth \/ (f.status = "ok" /\ Reloads(f.op))

\* At most one of the requests on their way changes the server or what the
\* page shows of it; when there is none, the page tells the truth.
OneAtATime ==
    /\ \A i \in DOMAIN fetches : Expected(fetches[i])
    /\ \A i, j \in DOMAIN fetches :
         fetches[i].kind # "tables" /\ fetches[j].kind # "tables" => i = j
    /\ (\A i \in DOMAIN fetches : fetches[i].kind = "tables") => Truth

CalmInv == calm => OneAtATime

\* A request for tables is expected wherever it is.
LEMMA TablesExpected ==
    ASSUME NEW f, f.kind = "tables", f.waiting
    PROVE  Expected(f) /\ Expected(f)'
BY DEF Expected

\* Nothing is on its way when the page is at rest.
LEMMA RestIsEmpty ==
    ASSUME TypeOK, OneAtATime, AtRest
    PROVE  fetches = <<>> /\ Truth
<1>1. DOMAIN fetches = {}
  BY DEF OneAtATime, Expected, AtRest
<1>2. PICK s : s = fetches
  OBVIOUS
<1>3. s \in Seq(Request) /\ DOMAIN s = {}
  BY <1>1, <1>2 DEF TypeOK
<1>4. Len(s) \in Nat /\ DOMAIN s = 1 .. Len(s)
  BY <1>3
<1>5. Len(s) = 0
  BY <1>3, <1>4
<1>6. s = <<>>
  BY <1>3, <1>5, EmptySeq
<1> QED
  BY <1>1, <1>2, <1>6 DEF OneAtATime

\* One request that changes what the page shows, or more for tables.
LEMMA OneIsExpected ==
    ASSUME NEW f, fetches' = <<f>>, Expected(f)', f.kind # "tables"
    PROVE  OneAtATime'
<1>1. DOMAIN fetches' = {1} /\ fetches'[1] = f
  OBVIOUS
<1> QED
  BY <1>1 DEF OneAtATime

LEMMA TablesAreExpected ==
    ASSUME Truth', \A k \in DOMAIN fetches' : fetches'[k].kind = "tables" /\ fetches'[k].waiting
    PROVE  OneAtATime'
<1>1. ASSUME NEW k \in DOMAIN fetches', NEW h, h = fetches'[k]
      PROVE  Expected(h)'
  BY <1>1, TablesExpected
<1> QED
  BY <1>1 DEF OneAtATime

LEMMA ProgressExpected ==
    ASSUME TypeOK, NEW g \in Request, NEW f \in Request, Expected(g), Progress(g, f),
           g.kind # "tables", page' = page
    PROVE  Expected(f)'
<1>1. CASE g.kind = "databases"
  BY <1>1 DEF Expected, Progress, Request
<1>2. CASE g.kind = "use"
  <2>1. CASE g.at = "check"
    BY <1>2, <2>1 DEF Expected, Progress, Truth, Named
  <2>2. CASE g.at = "run"
    BY <1>2, <2>2 DEF Expected, Progress, Truth, Statement, Succeeds, Changes
  <2> QED
    BY <1>2, <2>1, <2>2 DEF Expected, Progress
<1>3. CASE g.kind = "execute"
  <2>1. CASE g.at = "check"
    BY <1>3, <2>1 DEF Expected, Progress, Truth, Named
  <2>2. CASE g.at = "run"
    <3>1. f.kind = "execute" /\ f.op = g.op /\ f.waiting /\ f.at = "answered" /\ Truth
          /\ g.op \in {"SELECT", "CREATE", "DROP"} /\ Statement(g.op, g.name)
          /\ f.status = IF Succeeds(g.op, g.name) THEN "ok" ELSE "error"
      BY <1>3, <2>2 DEF Expected, Progress
    <3>2. CASE ~ Succeeds(g.op, g.name)
      BY <3>1, <3>2 DEF Statement, Expected, Truth
    <3>3. CASE g.op = "SELECT" /\ Succeeds(g.op, g.name)
      BY <3>1, <3>3 DEF Statement, Changes, Expected, Truth
    <3>4. CASE g.op \in {"CREATE", "DROP"} /\ Succeeds(g.op, g.name)
      BY <3>1, <3>4 DEF Expected, Reloads
    <3> QED
      BY <3>1, <3>2, <3>3, <3>4
  <2> QED
    BY <1>3, <2>1, <2>2 DEF Expected, Progress
<1> QED
  BY <1>1, <1>2, <1>3 DEF Request

LEMMA HandleExpected ==
    ASSUME TypeOK, OneAtATime, NEW i \in DOMAIN fetches, Handle(i)
    PROVE  OneAtATime'
<1>1. PICK f \in Request : ServerType' /\ Handled(i, f) /\ Progress(fetches[i], f)
  BY HandlerStep
<1>2. PICK g : g = fetches[i]
  OBVIOUS
<1>3. g \in Request /\ Expected(g) /\ g.waiting
  BY <1>2 DEF TypeOK, OneAtATime, Expected
<1>4. f.waiting /\ f.kind = g.kind
  BY <1>1, <1>2, <1>3 DEF Progress
<1>5. page' = page /\ fetches' = [Noticed EXCEPT ![i] = f]
  BY <1>1, <1>4, HandledType
<1>6. /\ DOMAIN Noticed = DOMAIN fetches
      /\ \A j \in DOMAIN fetches :
           Noticed[j] = IF current' = current THEN fetches[j]
                        ELSE [fetches[j] EXCEPT !.switched = @ \cup {current'}]
  BY <1>1, NoticedType
<1>7. Noticed \in Seq(Request)
  BY <1>1, NoticedType
<1>8. /\ DOMAIN fetches' = DOMAIN fetches
      /\ \A j \in DOMAIN fetches : fetches'[j] = IF j = i THEN f ELSE Noticed[j]
  BY <1>5, <1>6, <1>7
<1>9. ASSUME NEW j \in DOMAIN fetches
      PROVE  Noticed[j].kind = fetches[j].kind /\ Noticed[j].waiting = fetches[j].waiting
  <2>1. PICK h : h = fetches[j]
    OBVIOUS
  <2>2. h \in Request
    BY <2>1 DEF TypeOK
  <2> QED
    BY <1>6, <2>1, <2>2 DEF Request
<1>10. \A j \in DOMAIN fetches : fetches'[j].kind = fetches[j].kind
  BY <1>2, <1>4, <1>8, <1>9
<1>11. \A j, k \in DOMAIN fetches' : fetches'[j].kind # "tables" /\ fetches'[k].kind # "tables" => j = k
  BY <1>8, <1>10 DEF OneAtATime
<1>12. CASE g.kind = "tables"
  <2>1. UNCHANGED <<databases, current>>
    BY <1>1, <1>2, <1>3, <1>12 DEF Progress, Request, Fits
  <2>2. ASSUME NEW j \in DOMAIN fetches, NEW h, h = fetches'[j]
        PROVE  Expected(h)'
    <3>1. CASE j = i
      BY <1>4, <1>8, <1>12, <2>2, <3>1, TablesExpected
    <3>2. CASE j # i
      <4>1. h = fetches[j]
        BY <1>6, <1>8, <2>1, <2>2, <3>2
      <4>2. Expected(h)
        BY <4>1 DEF OneAtATime
      <4> QED
        BY <1>5, <2>1, <4>2 DEF Expected, Truth
    <3> QED
      BY <3>1, <3>2
  <2>3. (\A j \in DOMAIN fetches' : fetches'[j].kind = "tables") => Truth'
    BY <1>5, <1>8, <1>10, <2>1 DEF OneAtATime, Truth
  <2> QED
    BY <1>8, <1>11, <2>2, <2>3 DEF OneAtATime
<1>13. CASE g.kind # "tables"
  <2>1. Expected(f)'
    BY <1>1, <1>2, <1>3, <1>5, <1>13, ProgressExpected
  <2>2. ASSUME NEW j \in DOMAIN fetches, NEW h, h = fetches'[j]
        PROVE  Expected(h)'
    <3>1. CASE j = i
      BY <1>8, <2>1, <2>2, <3>1
    <3>2. CASE j # i
      <4>1. fetches[j].kind = "tables" /\ fetches[j].waiting
        BY <1>2, <1>13, <3>2 DEF OneAtATime, Expected
      <4>2. h.kind = "tables" /\ h.waiting
        BY <1>8, <1>9, <2>2, <3>2, <4>1
      <4> QED
        BY <4>2, TablesExpected
    <3> QED
      BY <3>1, <3>2
  <2>3. ~ \A j \in DOMAIN fetches' : fetches'[j].kind = "tables"
    BY <1>2, <1>8, <1>10, <1>13
  <2> QED
    BY <1>8, <1>11, <2>2, <2>3 DEF OneAtATime
<1> QED
  BY <1>12, <1>13

\* What is left when the answer of a request that is not for tables was taken.
LEMMA OthersAreTables ==
    ASSUME OneAtATime, NEW i \in DOMAIN fetches, fetches[i].kind # "tables", NEW h, Left(i, h)
    PROVE  h.kind = "tables" /\ h.waiting
BY DEF OneAtATime, Expected, Left

LEMMA ProceedExpected ==
    ASSUME TypeOK, OneAtATime, NEW i \in DOMAIN fetches, Proceed(i)
    PROVE  OneAtATime'
<1>1. CASE LoadedDatabases(i)
  <2>1. /\ PageStep
        /\ page'.db = fetches[i].ran /\ page'.listed = fetches[i].list
        /\ fetches[i].kind = "databases" /\ fetches[i].at = "answered"
        /\ \A k \in DOMAIN fetches' :
             \/ Left(i, fetches'[k])
             \/ fetches'[k].kind = "tables" /\ fetches'[k].at = "schema" /\ fetches'[k].waiting
    BY <1>1, LoadedDatabasesStep
  <2>2. fetches[i].list = databases /\ fetches[i].ran = current
    BY <2>1 DEF OneAtATime, Expected
  <2>3. Truth'
    BY <2>1, <2>2 DEF PageStep, Truth
  <2>4. fetches[i].kind # "tables"
    BY <2>1
  <2>5. \A k \in DOMAIN fetches' : fetches'[k].kind = "tables" /\ fetches'[k].waiting
    BY <2>1, <2>4, OthersAreTables
  <2> QED
    BY <2>3, <2>5, TablesAreExpected
<1>2. CASE LoadedTables(i)
  <2>1. /\ PageStep
        /\ page'.db = page.db /\ page'.listed = page.listed
        /\ fetches[i].kind = "tables"
        /\ \A k \in DOMAIN fetches' :
             LET j == IF k < i THEN k ELSE k + 1
             IN  j \in DOMAIN fetches /\ j # i /\ fetches'[k] = fetches[j]
        /\ DOMAIN fetches' = 1 .. Len(fetches) - 1
    BY <1>2, LoadedTablesStep
  <2>2. UNCHANGED <<databases, current>> /\ (Truth' <=> Truth)
    BY <2>1 DEF PageStep, Truth
  <2>3. PICK n \in Nat : n = Len(fetches) /\ DOMAIN fetches = 1 .. n /\ i \in 1 .. n
    BY DEF TypeOK
  <2>4. ASSUME NEW k \in DOMAIN fetches', NEW h, h = fetches'[k]
        PROVE  Expected(h)'
    <3>1. Expected(h)
      BY <2>1, <2>4 DEF OneAtATime
    <3> QED
      BY <2>1, <2>2, <3>1 DEF Expected, Truth
  <2>5. ASSUME NEW k \in DOMAIN fetches', NEW m \in DOMAIN fetches',
               fetches'[k].kind # "tables", fetches'[m].kind # "tables"
        PROVE  k = m
    <3>1. PICK a : /\ a = IF k < i THEN k ELSE k + 1
                   /\ a \in DOMAIN fetches /\ a # i /\ fetches'[k] = fetches[a]
      BY <2>1
    <3>2. PICK b : /\ b = IF m < i THEN m ELSE m + 1
                   /\ b \in DOMAIN fetches /\ b # i /\ fetches'[m] = fetches[b]
      BY <2>1
    <3>3. a = b
      BY <2>5, <3>1, <3>2 DEF OneAtATime
    <3>4. k \in Nat /\ m \in Nat /\ i \in Nat
      BY <2>1, <2>3
    <3> QED
      BY <3>1, <3>2, <3>3, <3>4
  <2>6. ASSUME \A k \in DOMAIN fetches' : fetches'[k].kind = "tables"
        PROVE  Truth'
    <3>1. ASSUME NEW j \in DOMAIN fetches, j # i
          PROVE  fetches[j].kind = "tables"
      <4>1. PICK k : k = IF j < i THEN j ELSE j - 1
        OBVIOUS
      <4>2. k \in 1 .. n - 1 /\ (IF k < i THEN k ELSE k + 1) = j
        BY <2>3, <3>1, <4>1
      <4>3. k \in DOMAIN fetches'
        BY <2>1, <2>3, <4>2
      <4>4. fetches'[k] = fetches[j]
        BY <2>1, <4>2, <4>3
      <4> QED
        BY <2>6, <4>3, <4>4
    <3>2. \A j \in DOMAIN fetches : fetches[j].kind = "tables"
      BY <2>1, <3>1
    <3> QED
      BY <2>2, <3>2 DEF OneAtATime
  <2> QED
    BY <2>4, <2>5, <2>6 DEF OneAtATime
<1>3. CASE SelectedDb(i)
  <2>1. /\ PageStep
        /\ page'.db = fetches[i].name /\ page'.listed = page.listed
        /\ fetches[i].kind = "use" /\ fetches[i].at = "answered"
        /\ \A k \in DOMAIN fetches' : Left(i, fetches'[k])
    BY <1>3, SelectedDbStep
  <2>2. Truth'
    BY <2>1 DEF OneAtATime, Expected, PageStep, Truth
  <2>3. fetches[i].kind # "tables"
    BY <2>1
  <2>4. \A k \in DOMAIN fetches' : fetches'[k].kind = "tables" /\ fetches'[k].waiting
    BY <2>1, <2>3, OthersAreTables
  <2> QED
    BY <2>2, <2>4, TablesAreExpected
<1>4. CASE ShowResult(i)
  <2>1. /\ PageStep
        /\ page'.db = page.db /\ page'.listed = page.listed
        /\ fetches[i].kind = "execute" /\ fetches[i].at = "answered"
    BY <1>4, ShowResultStep
  <2>2. fetches[i].kind # "tables" /\ (Truth' <=> Truth)
    BY <2>1 DEF PageStep, Truth
  <2>3. CASE fetches[i].status = "ok" /\ Reloads(fetches[i].op)
    <3>1. PICK n : n = Len(fetches)
      OBVIOUS
    <3>2. /\ \A k \in DOMAIN fetches' :
               \/ k # n /\ Left(i, fetches'[k])
               \/ /\ k = n /\ fetches'[k].kind = "databases"
                  /\ fetches'[k].at = "list" /\ fetches'[k].waiting
          /\ n \in DOMAIN fetches'
      BY <1>4, <2>3, <3>1, ShowResultStep
    <3>3. \A k \in DOMAIN fetches' : k # n => fetches'[k].kind = "tables" /\ fetches'[k].waiting
      BY <2>2, <3>2, OthersAreTables
    <3>4. ASSUME NEW k \in DOMAIN fetches', NEW h, h = fetches'[k]
          PROVE  Expected(h)'
      <4>1. CASE k = n
        <5>1. h.kind = "databases" /\ h.at = "list" /\ h.waiting
          BY <3>2, <3>4, <4>1
        <5> QED
          BY <5>1 DEF Expected
      <4>2. CASE k # n
        BY <3>3, <3>4, <4>2, TablesExpected
      <4> QED
        BY <4>1, <4>2
    <3>5. fetches'[n].kind = "databases"
      BY <3>2
    <3>6. \A k, m \in DOMAIN fetches' : fetches'[k].kind # "tables" /\ fetches'[m].kind # "tables" => k = m
      BY <3>3
    <3>7. ~ \A k \in DOMAIN fetches' : fetches'[k].kind = "tables"
      BY <3>2, <3>5
    <3> QED
      BY <3>4, <3>6, <3>7 DEF OneAtATime
  <2>4. CASE ~ (fetches[i].status = "ok" /\ Reloads(fetches[i].op))
    <3>1. \A k \in DOMAIN fetches' : Left(i, fetches'[k])
      BY <1>4, <2>4, ShowResultStep
    <3>2. \A k \in DOMAIN fetches' : fetches'[k].kind = "tables" /\ fetches'[k].waiting
      BY <2>2, <3>1, OthersAreTables
    <3>3. Truth'
      BY <2>1, <2>2, <2>4 DEF OneAtATime, Expected
    <3> QED
      BY <3>2, <3>3, TablesAreExpected
  <2> QED
    BY <2>3, <2>4
<1> QED
  BY <1>1, <1>2, <1>3, <1>4 DEF Proceed

\* A user who waits for the page sends one request, or one and more for tables.
LEMMA UserExpected ==
    ASSUME TypeOK, CalmInv, calm', User
    PROVE  OneAtATime'
<1>1. page \in Page /\ None \in Name /\ page.db \in Name /\ page.listed \subseteq Name
  BY DEF TypeOK, Page, Name
<1>2. ASSUME fetches' = loadDatabases
      PROVE  OneAtATime'
  <2>1. PICK f : f = Fetch("databases", "GET", None, None)
    OBVIOUS
  <2>2. fetches' = <<f>>
    BY <1>2, <2>1 DEF loadDatabases
  <2>3. f.kind = "databases" /\ f.at = "list" /\ f.waiting
    BY <1>1, <2>1, FetchType DEF Op, Fresh
  <2>4. Expected(f)'
    BY <2>3 DEF Expected
  <2> QED
    BY <2>2, <2>3, <2>4, OneIsExpected
<1>3. CASE Reload
  <2>1. fetches = <<>> => fetches' = loadDatabases
    BY <1>3, ReloadType
  <2>2. calm /\ AtRest
    BY <1>3, ReloadType
  <2> QED
    BY <1>2, <2>1, <2>2, RestIsEmpty DEF CalmInv
<1>4. CASE ~ Reload
  <2>1. PICK more \in Seq(Request) :
          /\ PageStep
          /\ page'.db = page.db /\ page'.listed = page.listed
          /\ calm' => calm /\ AtRest
          /\ fetches = <<>> => fetches' = more
          /\ calm' => \/ more = loadDatabases
                      \/ \E d \in page.listed : more \in {<<>>, setActiveDb(d) \o expandDb(d)}
                      \/ \E op \in {"SELECT", "CREATE", "DROP"}, d \in Name :
                           /\ op = "CREATE" => d \in Database
                           /\ more = executeQuery(op, d)
    BY <1>4, UserStep DEF User
  <2>2. fetches = <<>> /\ Truth
    BY <2>1, RestIsEmpty DEF CalmInv
  <2>3. fetches' = more /\ Truth' /\ page.db = current' /\ page.listed = databases'
    BY <2>1, <2>2 DEF PageStep, Truth
  <2>4. CASE more = <<>>
    <3>1. DOMAIN fetches' = {}
      BY <2>3, <2>4
    <3> QED
      BY <2>3, <3>1, TablesAreExpected
  <2>5. ASSUME NEW d \in page.listed, more = setActiveDb(d) \o expandDb(d)
        PROVE  OneAtATime'
    <3>1. PICK t : t = Fetch("tables", "GET", d, None)
      OBVIOUS
    <3>2. t \in Request /\ t.kind = "tables" /\ t.waiting
      BY <1>1, <3>1, FetchType DEF Op, Fresh
    <3>3. expandDb(d) = <<t>>
      BY <3>1 DEF expandDb
    <3>4. CASE d = page.db
      <4>1. <<t>> \in Seq(Request)
        BY <3>2
      <4>2. fetches' = <<t>>
        BY <2>3, <2>5, <3>3, <3>4, <4>1, ConcatEmptySeq DEF setActiveDb
      <4>3. \A k \in DOMAIN fetches' : fetches'[k] = t
        BY <4>2
      <4> QED
        BY <2>3, <3>2, <4>3, TablesAreExpected
    <3>5. CASE d # page.db
      <4>1. PICK f : f = Fetch("use", "USE", d, None)
        OBVIOUS
      <4>2. /\ f \in Request /\ f.kind = "use" /\ f.op = "USE" /\ f.name = d /\ f.db = None
            /\ f.at = "check" /\ f.waiting
        BY <1>1, <4>1, FetchType DEF Op, Fresh
      <4>3. fetches' = <<f>> \o <<t>>
        BY <2>3, <2>5, <3>3, <3>5, <4>1 DEF setActiveDb
      <4>4. DOMAIN fetches' = 1 .. 2 /\ fetches'[1] = f /\ fetches'[2] = t
        BY <3>2, <4>2, <4>3
      <4>5. Expected(f)'
        BY <2>3, <4>2 DEF Expected
      <4>6. Expected(t)'
        BY <3>2, TablesExpected
      <4>7. ASSUME NEW k \in DOMAIN fetches'
            PROVE  \/ k = 1 /\ fetches'[k] = f
                   \/ k = 2 /\ fetches'[k] = t
        BY <4>4
      <4>8. ASSUME NEW k \in DOMAIN fetches', NEW h, h = fetches'[k]
            PROVE  Expected(h)'
        BY <4>5, <4>6, <4>7, <4>8
      <4>9. /\ \A k, m \in DOMAIN fetches' :
                 fetches'[k].kind # "tables" /\ fetches'[m].kind # "tables" => k = m
            /\ ~ \A k \in DOMAIN fetches' : fetches'[k].kind = "tables"
        BY <3>2, <4>2, <4>4, <4>7
      <4> QED
        BY <4>8, <4>9 DEF OneAtATime
    <3> QED
      BY <3>4, <3>5
  <2>6. ASSUME NEW op \in {"SELECT", "CREATE", "DROP"}, NEW d \in Name, op = "CREATE" => d \in Database,
               more = executeQuery(op, d)
        PROVE  OneAtATime'
    <3>1. PICK f : f = Fetch("execute", op, d, page.db)
      OBVIOUS
    <3>2. f.kind = "execute" /\ f.op = op /\ f.db = page.db /\ f.at = "check" /\ f.waiting
      BY <1>1, <2>6, <3>1, FetchType DEF Op, Fresh
    <3>3. fetches' = <<f>>
      BY <2>3, <2>6, <3>1 DEF executeQuery
    <3>4. Expected(f)'
      BY <2>3, <3>2 DEF Expected
    <3> QED
      BY <3>2, <3>3, <3>4, OneIsExpected
  <2> QED
    BY <1>2, <2>1, <2>3, <2>4, <2>5, <2>6
<1> QED
  BY <1>3, <1>4

LEMMA InitCalm == Init => CalmInv
<1> SUFFICES ASSUME Init
             PROVE  OneAtATime
  BY DEF CalmInv
<1>1. page \in Page /\ None \in Name
  BY DEF Init, NewPage, Page, Name
<1>2. PICK f : f = Fetch("databases", "GET", None, None)
  OBVIOUS
<1>3. f.kind = "databases" /\ f.at = "list" /\ f.waiting
  BY <1>1, <1>2, FetchType DEF Op, Fresh
<1>4. fetches = <<f>> /\ DOMAIN fetches = {1} /\ fetches[1] = f
  BY <1>2 DEF Init, loadDatabases
<1>5. Expected(f)
  BY <1>3 DEF Expected
<1> QED
  BY <1>3, <1>4, <1>5 DEF OneAtATime

LEMMA NextCalm == TypeOK /\ CalmInv /\ [Next]_vars => CalmInv'
<1> SUFFICES ASSUME TypeOK, CalmInv, [Next]_vars, calm'
             PROVE  OneAtATime'
  BY DEF CalmInv
<1>1. CASE User
  BY <1>1, UserExpected
<1>2. ASSUME NEW op \in {"CREATE", "DROP", "USE"}, NEW d \in Database, OtherConnection(op, d)
      PROVE  FALSE
  BY <1>2, OtherStep
<1>3. ASSUME NEW i \in DOMAIN fetches, Handle(i)
      PROVE  OneAtATime'
  <2>1. calm' = calm
    BY <1>3, HandlerStep, HandledType
  <2> QED
    BY <1>3, <2>1, HandleExpected DEF CalmInv
<1>4. ASSUME NEW i \in DOMAIN fetches, Proceed(i)
      PROVE  OneAtATime'
  <2>1. calm' = calm
    BY <1>4, LoadedDatabasesStep, LoadedTablesStep, SelectedDbStep, ShowResultStep DEF Proceed
  <2> QED
    BY <1>4, <2>1, ProceedExpected DEF CalmInv
<1>5. ASSUME NEW i \in DOMAIN fetches, FetchFails(i) \/ CutShort(i)
      PROVE  FALSE
  BY <1>5, FetchFailsStep, CutShortStep
<1>6. CASE UNCHANGED vars
  <2>1. calm /\ UNCHANGED <<databases, current, page, fetches>>
    BY <1>6 DEF vars
  <2>2. OneAtATime
    BY <2>1 DEF CalmInv
  <2> QED
    BY <2>1, <2>2 DEF OneAtATime, Expected, Truth
<1> QED
  BY <1>1, <1>2, <1>3, <1>4, <1>5, <1>6 DEF Next

\* A user who waits for the page before he goes on, alone on the server, sees
\* its databases and the one his statements run on, however many statements
\* he has sent and however their answers overtake those for the tables.
THEOREM PageIsTrue == Spec => []PageTellsTheTruth
<1>1. TypeOK /\ CalmInv => PageTellsTheTruth
  BY RestIsEmpty DEF CalmInv, Truth, PageTellsTheTruth
<1> QED
  BY <1>1, InitType, NextType, InitCalm, NextCalm, PTL DEF Spec
=============================================================================
