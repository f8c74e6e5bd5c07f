--------------------------- MODULE MCAcknowledged ---------------------------
(***************************************************************************)
(* Executor with a history of what clients were told: the number of rows   *)
(* whose INSERT was answered with success.                                 *)
(***************************************************************************)
EXTENDS MCExecutor

VARIABLE acknowledged

HistoryInit == Init /\ acknowledged = 0

HistoryNext ==
    /\ Next
    /\ acknowledged' = acknowledged +
         Cardinality({t \in Threads : At(t, "respond") /\ pc'[t] = "idle"
                                      /\ stmt[t].op = "insert" /\ result[t].ok})

HistorySpec == HistoryInit /\ [][HistoryNext]_<<vars, acknowledged>>

RowsOf(p) == recordsOf(p, p[2])

\* The tests of test_persistence.cpp:36-45 find every row whose INSERT was
\* answered, before and after a restart.  So should every client, whoever
\* else inserts (StorageEngine::appendRows takes no lock) and whenever the
\* server is stopped (main.cpp does not wait for its threads).
AcknowledgedRowsKept ==
    Quiet => Len(RowsOf(tablePath("a", "t"))) >= acknowledged
=============================================================================
