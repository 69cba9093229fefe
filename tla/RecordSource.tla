----------------------------- MODULE RecordSource -----------------------------
(***************************************************************************)
(* The records table: the queries recordSource.service.ts sends to it, and *)
(* the traffic of other clients, who insert and delete while exports run.  *)
(* Ids come from a sequence at insert time, rows become visible at commit. *)
(***************************************************************************)
EXTENDS ExportState

(* Faulty variant: the row at the cursor is fetched again.                  *)
EligibleInclusive(afterId) == {r \in records : afterId <= r /\ r <= snapshotMaxId}

(* Faulty variant: the cursor is the next id, and the query compares id > . *)
EligibleSkippingOne(afterId) == {r \in records : afterId + 1 < r /\ r <= snapshotMaxId}

(* Rows the keyset query may return.                                        *)
Eligible(afterId) == {r \in records : afterId < r /\ r <= snapshotMaxId}

UpTo(rows, lastId) == {r \in rows : r <= lastId}

(* lastId closes the page: ORDER BY id LIMIT limit ends with it.            *)
ClosesPage(lastId, rows, limit) ==
    \/ Cardinality(UpTo(rows, lastId)) = limit
    \/ /\ Cardinality(rows) < limit
       /\ \A r \in rows : r <= lastId

(* SELECT MAX(id), 0 when the table is empty.                               *)
IsMaxId(id) ==
    IF records = {} THEN id = 0 ELSE id \in records /\ \A r \in records : r <= id

(* SELECT COUNT( * ) WHERE id <= boundary.                                  *)
CountRecordsWithinSnapshot == Cardinality(UpTo(records, snapshotMaxId))

-----------------------------------------------------------------------------
InsertRecord ==
    /\ nextRecordId <= MaxRecordId
    /\ records' = records \cup {nextRecordId}
    /\ nextRecordId' = nextRecordId + 1
    /\ UNCHANGED <<jobVars, storageVars, openInserts, queue, worker, request, sweeping, faults>>

(* An insert inside a longer transaction: the id is taken now.              *)
BeginInsert ==
    /\ CanFail("openInsert")
    /\ nextRecordId <= MaxRecordId
    /\ openInserts' = openInserts \cup {nextRecordId}
    /\ nextRecordId' = nextRecordId + 1
    /\ Spend("openInsert")
    /\ UNCHANGED <<jobVars, storageVars, records, queue, worker, request, sweeping>>

CommitInsert ==
    \E r \in openInserts :
        /\ records' = records \cup {r}
        /\ openInserts' = openInserts \ {r}
        /\ UNCHANGED <<jobVars, storageVars, nextRecordId, queue, worker, request,
                       sweeping, faults>>

DeleteRecord ==
    /\ CanFail("delete")
    /\ \E r \in records : records' = records \ {r}
    /\ Spend("delete")
    /\ UNCHANGED <<jobVars, storageVars, openInserts, nextRecordId, queue, worker,
                   request, sweeping>>

RecordTraffic == InsertRecord \/ BeginInsert \/ CommitInsert \/ DeleteRecord
=============================================================================
