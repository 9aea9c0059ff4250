----------------------------- MODULE TableDml -----------------------------
(***************************************************************************)
(* INSERT, UPDATE and DELETE on one table (RequestHandler_DML.cpp, Table,  *)
(* TableDataSet).  A row is a record of the master column that holds the   *)
(* addresses of its values in the other columns; the main index leads from *)
(* the row ID to the newest record.  The values are written column by      *)
(* column, then the record, then the index; when a write fails, the        *)
(* columns are rolled back to the addresses of the values just written.    *)
(*                                                                         *)
(* Statements of a database are executed one at a time.  A statement is    *)
(* processed row by row; the writes of one row are one step, which may     *)
(* fail at any of them.  Columns are append-only stores: their division    *)
(* into blocks is the subject of ColumnStore.                              *)
(***************************************************************************)
EXTENDS Integers, Sequences, FiniteSets, FiniteSetsExt

CONSTANTS
  NumColumns,   \* columns beside the master column
  NotNull,      \* the columns that are NOT NULL
  TextColumns,  \* columns whose values may span several blocks
  Values, Null,
  Absent,       \* no row with this ID
  N,            \* records of a file of the index
  MaxTrid,      \* the greatest possible row ID
  MaxRows,      \* bound on the rows of an INSERT
  MaxFailures,  \* bound on the statements that fail
  MaxRecords    \* bound on the records of the master column and the failures
                \* with which another statement begins

ASSUME SizeAssumption == NumColumns \in Nat \ {0} /\ MaxTrid \in Nat /\ MaxRows \in Nat
ASSUME NAssumption == N \in Nat \ {0}
ASSUME ColumnAssumption == NotNull \subseteq 1..NumColumns /\ TextColumns \subseteq 1..NumColumns
ASSUME ValueAssumption ==
  Null \notin Values /\ Absent \notin [1..NumColumns -> Values \cup {Null}]

VARIABLES
  log,      \* contents of the columns; see Empty
  master,   \* records of the master column
  index,    \* position of the newest record of a row ID, or 0
  ends,     \* least and greatest key of the index
  lastTrid, \* m_lastUserTrid
  stmt,     \* the statement being executed
  alive,    \* the process runs
  want,     \* the rows as the successful operations define them
  torn,     \* row IDs of which a statement failed at the index
  stale,    \* row IDs that were updated from a record that was not the newest
  failures, \* number of statements that failed
  damaged,  \* a rollback has used addresses that were not its own
  reply     \* outcome of the last statement

vars == <<log, master, index, ends, lastTrid, stmt, alive, want, torn, stale, failures, damaged,
          reply>>

-----------------------------------------------------------------------------
Columns == 1..NumColumns
Trids == 1..MaxTrid
Cells == Values \cup {Null}
Rows == [Columns -> Cells]

(* A store: what has been written, and the length that counts.  A rollback *)
(* moves the length back and leaves the contents until the next write.     *)
Empty == [data |-> <<>>, len |-> 0]

Written(s, x) ==
  [data |-> IF s.len < Len(s.data) THEN [s.data EXCEPT ![s.len + 1] = x] ELSE Append(s.data, x),
   len |-> s.len + 1]

(* The record stays in its place but does not count yet.                   *)
Pending(s, x) == [Written(s, x) EXCEPT !.len = s.len]

RolledBack(s, address) == [s EXCEPT !.len = address - 1]

(* Column::readRecord; address 0 is that of NULL.                          *)
ValueAt(c, address) == IF address = 0 THEN Null ELSE log[c].data[address]

RecordOf(t) == master.data[index[t]]

NoStatement == [kind |-> "none"]
NoReply == [ok |-> FALSE, affected |-> 0, touched |-> {}, target |-> {}, crossed |-> {}]

(* The main index as LinearIndex describes it: the keys that its buffers   *)
(* show, in files of N, and the cached ends of their range.  A write that  *)
(* is refused leaves the ends as they were.                                *)
Present == {t \in Trids : index[t] # 0}

FileOf(k) == (k \div N) + 1

(* findKeyAfter: after the last record of a file the scan starts at the    *)
(* first record of the same file while the key is counted on.  0: none.    *)
KeyAfter(live, t) ==
  LET here == IF (t + 1) % N = 0
              THEN {k + N : k \in {j \in live : FileOf(j) = FileOf(t)}}
              ELSE {k \in live : FileOf(k) = FileOf(t) /\ k > t}
      later == {k \in live : FileOf(k) > FileOf(t)}
  IN IF t \in {ends.max, MaxTrid} THEN 0
     ELSE IF here # {} THEN Min(here)
     ELSE IF later # {} THEN Min(later) ELSE 0

KeyBefore(live, t) ==
  LET before == {k \in live : k < t}
  IN IF t = ends.min \/ before = {} THEN 0 ELSE Max(before)

NoKeys == [min |-> MaxTrid, max |-> 0]

EndsAfterInsert(t) == IF ends.max < ends.min THEN [min |-> t, max |-> t] ELSE [ends EXCEPT !.max = t]

(* updateMinAndMaxKeysAfterRemoval, which runs when the record is free.    *)
EndsAfterErase(t) ==
  IF t = ends.min /\ t = ends.max THEN NoKeys
  ELSE [min |-> IF t = ends.min THEN KeyAfter(Present \ {t}, t) ELSE ends.min,
        max |-> IF t = ends.max THEN KeyBefore(Present \ {t}, t) ELSE ends.max]

(* It throws when an end was removed and no other key is found, as when    *)
(* the record at the other end was freed by an erasure that was refused.   *)
NoNeighbour(t) ==
  /\ ends.min # ends.max
  /\ \/ t = ends.min /\ KeyAfter(Present \ {t}, t) = 0
     \/ t = ends.max /\ KeyBefore(Present \ {t}, t) = 0

(* update() and erase() do nothing when the key is absent.                 *)
IndexUpdated(t, p) == [index EXCEPT ![t] = IF @ = 0 THEN 0 ELSE p]

Init ==
  /\ log = [c \in Columns |-> Empty]
  /\ master = Empty
  /\ index = [t \in Trids |-> 0]
  /\ ends = NoKeys
  /\ lastTrid = 0
  /\ stmt = NoStatement /\ alive = TRUE
  /\ want = [t \in Trids |-> Absent]
  /\ torn = {} /\ stale = {} /\ failures = 0 /\ damaged = FALSE
  /\ reply = NoReply

-----------------------------------------------------------------------------
(* The values of a row are written in the order of a list of columns.      *)
(* WritesOf(list)[i] are the contents of the columns after i values, and   *)
(* AddressesOf(list, old)[i] the addresses of the row by then.             *)
WriteValue(l, c, x) == IF x = Null THEN l ELSE [l EXCEPT ![c] = Written(@, x)]

NewAddress(l, c, x) == IF x = Null THEN 0 ELSE l[c].len + 1

WritesOf(list) ==
  LET after[i \in 0..Len(list)] ==
        IF i = 0 THEN log ELSE WriteValue(after[i - 1], list[i].col, list[i].val)
  IN after

AddressesOf(list, old) ==
  LET w == WritesOf(list)
      after[i \in 0..Len(list)] ==
        IF i = 0 THEN old
        ELSE [after[i - 1] EXCEPT ![list[i].col] = NewAddress(w[i - 1], list[i].col, list[i].val)]
  IN after

(* writeRecord refuses NULL for a column that is NOT NULL; otherwise any   *)
(* write may fail.  0: all values are written.                             *)
FailurePoints(list) ==
  LET refused == {i \in 1..Len(list) : list[i].val = Null /\ list[i].col \in NotNull}
  IN IF refused = {} THEN 0..Len(list) ELSE 1..Min(refused)

(* Rolling back the columns that were written before the i-th write        *)
(* failed.  The rollback of a text that spans several blocks is refused    *)
(* (its first block is no longer an available one), and a text may have    *)
(* been written in part; such values stay as garbage.                      *)
RollbacksOf(list, i, old) ==
  LET w == WritesOf(list)
      a == AddressesOf(list, old)[i - 1]
      cols == {list[j].col : j \in 1..(i - 1)}
      back(kept) == [c \in Columns |->
                       IF c \in cols \ kept /\ a[c] # 0 THEN RolledBack(w[i - 1][c], a[c])
                       ELSE w[i - 1][c]]
      partial == WriteValue(w[i - 1], list[i].col, list[i].val)
  IN {back(kept) : kept \in SUBSET (cols \cap TextColumns)}
     \cup (IF list[i].col \in TextColumns /\ i = 1 THEN {partial} ELSE {})

-----------------------------------------------------------------------------
(* Table::doInsertRowUnlocked: a new row ID, the values, the record.       *)
RowAsList(row) == [c \in Columns |-> [col |-> c, val |-> row[c]]]
NoAddresses == [c \in Columns |-> 0]

(* A deletion keeps the version of the row.                                *)
NewRecordMutant(t, op, addr, version, prev) ==
  [trid |-> t, op |-> op, addr |-> addr, version |-> IF op = "delete" THEN version - 1 ELSE version,
   prev |-> prev]

NewRecord(t, op, addr, version, prev) ==
  [trid |-> t, op |-> op, addr |-> addr, version |-> version, prev |-> prev]

(* The row ID is not counted when the insertion fails.                     *)
TridAfterFailureMutant == lastTrid

TridAfterFailure == lastTrid + 1

InsertRow(row) ==
  LET list == RowAsList(row)
      t == lastTrid + 1
      addr == AddressesOf(list, NoAddresses)[NumColumns]
      record == NewRecord(t, "insert", addr, 0, 0)
  IN /\ 0 \in FailurePoints(list)
     /\ log' = WritesOf(list)[NumColumns]
     /\ master' = Written(master, record)
     /\ index' = [index EXCEPT ![t] = master.len + 1]
     /\ ends' = EndsAfterInsert(t)
     /\ want' = [want EXCEPT ![t] = row]
     /\ lastTrid' = t
     /\ UNCHANGED <<torn, stale>>

(* The insertion of the row fails: at a value, at the record, or at the    *)
(* index, whose buffer then may or may not show the new entry.             *)
InsertRowFails(row) ==
  LET list == RowAsList(row)
      t == lastTrid + 1
      addr == AddressesOf(list, NoAddresses)[NumColumns]
      record == NewRecord(t, "insert", addr, 0, 0)
      undone == [c \in Columns |-> IF addr[c] = 0 THEN log[c]
                                   ELSE RolledBack(WritesOf(list)[NumColumns][c], addr[c])]
  IN /\ lastTrid' = TridAfterFailure
     /\ UNCHANGED <<ends, want, stale>>
     /\ \/ /\ \E i \in FailurePoints(list) \ {0} : log' \in RollbacksOf(list, i, NoAddresses)
           /\ UNCHANGED <<master, index, torn>>
        \/ /\ 0 \in FailurePoints(list)
           /\ log' = undone
           /\ UNCHANGED <<master, index, torn>>
        \/ /\ 0 \in FailurePoints(list)
           /\ log' = undone
           /\ master' = Pending(master, record)
           /\ index' \in {index, [index EXCEPT ![t] = master.len + 1]}
           /\ torn' = torn \cup {t}

(* Table::updateRow on the row that the record r at address a describes.   *)
Applied(row, list) ==
  [c \in Columns |->
     IF \E i \in 1..Len(list) : list[i].col = c
     THEN list[Max({i \in 1..Len(list) : list[i].col = c})].val ELSE row[c]]

(* The values that are not set are lost.                                   *)
UpdatedAddressesMutant(list, r) == AddressesOf(list, NoAddresses)[Len(list)]

UpdatedAddresses(list, r) == AddressesOf(list, r.addr)[Len(list)]

UpdateRow(list, r, a) ==
  /\ 0 \in FailurePoints(list)
  /\ log' = WritesOf(list)[Len(list)]
  /\ master' = Written(master, NewRecord(r.trid, "update", UpdatedAddresses(list, r), r.version + 1, a))
  /\ index' = IndexUpdated(r.trid, master.len + 1)
  /\ want' = [want EXCEPT ![r.trid] = IF @ = Absent THEN @ ELSE Applied(@, list)]
  /\ stale' = IF index[r.trid] \in {0, a} THEN stale ELSE stale \cup {r.trid}
  /\ UNCHANGED ends

(* A value cannot be written.  After the first one there is nothing to     *)
(* roll back, but the loop reads block IDs from memory that was never      *)
(* initialised and rolls back to the addresses of the old values, if what  *)
(* it reads there happens to be the ID of an available block.              *)
UpdateRowFails(list, r) ==
  \E i \in FailurePoints(list) \ {0} :
    /\ IF i > 1
       THEN log' \in RollbacksOf(list, i, r.addr) /\ UNCHANGED damaged
       ELSE \E hit \in SUBSET {list[j].col : j \in 1..Len(list)} :
              /\ \A c \in hit : r.addr[c] # 0
              /\ \E l \in RollbacksOf(list, 1, r.addr) :
                   log' = [c \in Columns |-> IF c \in hit THEN RolledBack(l[c], r.addr[c]) ELSE l[c]]
              /\ damaged' = (damaged \/ hit # {})
    /\ UNCHANGED <<master, index, ends, torn, stale, want>>

(* Table::deleteRow                                                        *)
DeleteRow(r, a) ==
  /\ index[r.trid] # 0 => ~NoNeighbour(r.trid)
  /\ master' = Written(master, NewRecord(r.trid, "delete", NoAddresses, r.version + 1, a))
  /\ index' = [index EXCEPT ![r.trid] = 0]
  /\ ends' = IF index[r.trid] = 0 THEN ends ELSE EndsAfterErase(r.trid)
  /\ want' = [want EXCEPT ![r.trid] = Absent]

(* The record cannot be written; or the index refuses the erasure, which   *)
(* its buffer may show all the same; or the key is erased and the search   *)
(* for a new end throws (NoNeighbour), which leaves the same state as a    *)
(* refused erasure that the buffer shows: the row is gone, the record does *)
(* not count and the ends are the old ones.                                *)
DeleteRowFails(r, a) ==
  /\ UNCHANGED ends
  /\ \/ UNCHANGED <<master, index, torn>>
     \/ /\ master' = Pending(master, NewRecord(r.trid, "delete", NoAddresses, r.version + 1, a))
        /\ index' \in {index, [index EXCEPT ![r.trid] = 0]}
        /\ torn' = torn \cup {r.trid}

-----------------------------------------------------------------------------
(* Statements.  The cursor of a data set starts at the least key and goes  *)
(* to the next one in the index as it is then.                             *)
FirstKey == IF ends.max < ends.min THEN 0 ELSE ends.min

(* The next key is missed.                                                 *)
NextKeyMutant(t) == KeyAfter(Present \ {t + 1}, t)

NextKey(t) == KeyAfter(Present, t)

(* The search for the key after t starts again at the head of its file.    *)
Wraps(t) ==
  /\ (t + 1) % N = 0 /\ t # ends.max
  /\ \E k \in Present : FileOf(k) = FileOf(t)

(* WHERE compares the first column with a value, or there is no WHERE.     *)
Fits(where, t) == where = Null \/ ValueAt(1, RecordOf(t).addr[1]) = where

(* Bound on the statements: each writes records or fails.                  *)
Room == master.len + failures < MaxRecords /\ failures < MaxFailures

BeginInsert ==
  /\ alive /\ stmt = NoStatement /\ Room
  /\ \E n \in 1..MaxRows :
       stmt' = [kind |-> "insert", rows |-> n, done |-> 0, touched |-> {}, target |-> {},
               crossed |-> {}]
  /\ reply' = NoReply
  /\ UNCHANGED <<log, master, index, ends, lastTrid, alive, want, torn, stale, failures, damaged>>

(* SET may name a column twice: columnPresent is tested and never set.     *)
(* The values are computed from the current row.                           *)
SetColumns == UNION {[1..n -> Columns] : n \in 1..NumColumns}

SetLists == {[i \in 1..Len(stmt.cols) |-> [col |-> stmt.cols[i], val |-> vals[i]]] :
               vals \in [1..Len(stmt.cols) -> Cells]}

BeginScan(kind) ==
  /\ alive /\ stmt = NoStatement /\ Room
  /\ \E where \in Cells, cols \in IF kind = "update" THEN SetColumns ELSE {<<>>} :
       stmt' = [kind |-> kind, where |-> where, cols |-> cols, cur |-> FirstKey, done |-> 0,
                touched |-> {}, target |-> {t \in Present : Fits(where, t)}, crossed |-> {}]
  /\ reply' = NoReply
  /\ UNCHANGED <<log, master, index, ends, lastTrid, alive, want, torn, stale, failures, damaged>>

Finish(ok) ==
  /\ failures' = IF ok THEN failures ELSE failures + 1
  /\ stmt' = NoStatement
  /\ reply' = [ok |-> ok, affected |-> stmt.done, touched |-> stmt.touched, target |-> stmt.target,
               crossed |-> stmt.crossed]

(* executeInsertRequest: the rows are inserted one after the other; a      *)
(* failure ends the statement and leaves the rows before it.               *)
InsertStep ==
  /\ alive /\ stmt.kind = "insert" /\ stmt.done < stmt.rows /\ lastTrid < MaxTrid
  /\ \/ /\ \E row \in Rows : InsertRow(row)
        /\ stmt' = [stmt EXCEPT !.done = @ + 1, !.touched = @ \cup {lastTrid'},
                                !.target = @ \cup {lastTrid'}]
        /\ UNCHANGED <<reply, failures>>
     \/ (\E row \in Rows : InsertRowFails(row)) /\ Finish(FALSE)
  /\ UNCHANGED <<alive, damaged>>

(* generateNextUserTrid refuses when the IDs are exhausted.                *)
InsertExhausted ==
  /\ alive /\ stmt.kind = "insert" /\ stmt.done < stmt.rows /\ lastTrid = MaxTrid
  /\ Finish(FALSE)
  /\ UNCHANGED <<log, master, index, ends, lastTrid, alive, want, torn, stale, damaged>>

(* readMasterColumnRecord: the index has no record of the least key, or of *)
(* the key that a search found which started again (defects 2 and 3).      *)
CorruptIndex ==
  /\ alive /\ stmt.kind \in {"update", "delete"} /\ stmt.cur \notin Present \cup {0}
  /\ Finish(FALSE)
  /\ UNCHANGED <<log, master, index, ends, lastTrid, alive, want, torn, stale, damaged>>

(* executeUpdateRequest and executeDeleteRequest on the current row.       *)
OnRow(kinds) == alive /\ stmt.kind \in kinds /\ stmt.cur \in Present

(* crossed collects the keys at which the search started again.            *)
Skip ==
  /\ OnRow({"update", "delete"}) /\ ~Fits(stmt.where, stmt.cur)
  /\ stmt' = [stmt EXCEPT !.cur = NextKey(@),
                         !.crossed = @ \cup (IF Wraps(stmt.cur) THEN {stmt.cur} ELSE {})]
  /\ UNCHANGED <<log, master, index, ends, lastTrid, alive, want, torn, stale, failures, damaged, reply>>

(* The cursor goes on in the index as the row has left it.                 *)
Advance ==
  \E t \in {stmt.cur} :
    stmt' = [stmt EXCEPT !.cur = NextKey(t)', !.done = @ + 1, !.touched = @ \cup {t},
                         !.crossed = @ \cup (IF Wraps(t)' THEN {t} ELSE {})]

UpdateStep ==
  /\ OnRow({"update"}) /\ Fits(stmt.where, stmt.cur)
  /\ LET r == RecordOf(stmt.cur)
     IN \E list \in SetLists :
          \/ /\ UpdateRow(list, r, index[stmt.cur]) /\ Advance
             /\ UNCHANGED <<torn, failures, damaged, reply, alive>>
          \/ UpdateRowFails(list, r) /\ Finish(FALSE) /\ UNCHANGED alive
  /\ UNCHANGED lastTrid

(* The record of an update cannot be written: the list of addresses was    *)
(* moved into the record, the rollback reads it, and the process dies.     *)
UpdateKills ==
  /\ OnRow({"update"}) /\ Fits(stmt.where, stmt.cur)
  /\ \E list \in SetLists : 0 \in FailurePoints(list)
  /\ alive' = FALSE
  /\ UNCHANGED <<log, master, index, ends, lastTrid, stmt, want, torn, stale, failures, damaged, reply>>

DeleteStep ==
  /\ OnRow({"delete"}) /\ Fits(stmt.where, stmt.cur)
  /\ LET r == RecordOf(stmt.cur)
     IN \/ /\ DeleteRow(r, index[stmt.cur]) /\ Advance
           /\ UNCHANGED <<torn, failures, reply>>
        \/ DeleteRowFails(r, index[stmt.cur]) /\ Finish(FALSE) /\ UNCHANGED want
  /\ UNCHANGED <<log, lastTrid, alive, stale, damaged>>

EndStatement ==
  /\ alive
  /\ \/ stmt.kind = "insert" /\ stmt.done = stmt.rows
     \/ stmt.kind \in {"update", "delete"} /\ stmt.cur = 0
  /\ Finish(TRUE)
  /\ UNCHANGED <<log, master, index, ends, lastTrid, alive, want, torn, stale, damaged>>

Next ==
  \/ BeginInsert \/ BeginScan("update") \/ BeginScan("delete")
  \/ InsertStep \/ InsertExhausted
  \/ CorruptIndex \/ Skip \/ UpdateStep \/ UpdateKills \/ DeleteStep
  \/ EndStatement

Spec == Init /\ [][Next]_vars

-----------------------------------------------------------------------------
(* Properties.                                                             *)

(* Every row has the values of the last successful operation on it, and no *)
(* other row exists: values are written to several stores, rolled back and *)
(* overwritten, and the addresses in the record must survive that          *)
(* (doInsertRowUnlocked, updateRow, rollbackLastRow).  Named exceptions:   *)
(* rows of which a statement failed at the index, because a write was      *)
(* refused or because the erasure threw after it was made (the row of a    *)
(* DELETE that failed in this way is gone); rows that the entry of such a  *)
(* row also leads to, once they were updated through it from an old        *)
(* record; and all rows after the update that rolls back addresses that    *)
(* are not its own.                                                        *)
RowsIntact ==
  damaged \/ \A t \in Trids \ (torn \cup stale) :
    IF index[t] = 0 THEN want[t] = Absent
    ELSE [c \in Columns |-> ValueAt(c, RecordOf(t).addr[c])] = want[t]

(* The records of a row form its history: each one but the first follows   *)
(* the record of the same row with the version before it.                  *)
HistoryIsChained ==
  \A p \in 1..master.len :
    LET r == master.data[p]
    IN IF r.op = "insert" THEN r.version = 0
       ELSE r.trid \in torn
            \/ /\ r.prev < p
               /\ master.data[r.prev].trid = r.trid
               /\ master.data[r.prev].version + 1 = r.version

(* A statement that succeeds has changed only rows that its WHERE selected *)
(* when it began, once each, and reports their number, although it changes *)
(* the index that its cursor walks along; and it has missed none of them.  *)
(* Named exception (findKeyAfter): from the last record of an index file   *)
(* that still holds a row, the cursor may go too far into the next file    *)
(* and miss up to N rows there.  A DELETE without WHERE misses none, as it *)
(* leaves no row in the file that it has walked through.                   *)
StatementIsComplete ==
  reply.ok /\ torn = {} /\ ~damaged =>
    /\ reply.touched \subseteq reply.target
    /\ reply.affected = Cardinality(reply.touched)
    /\ \A t \in reply.target \ reply.touched : \E b \in reply.crossed : t \in (b + 1)..(b + N)

(* A row ID is never given to a second row, not even after the row was     *)
(* deleted or its insertion failed (generateNextUserTrid).                 *)
TridsNotReused ==
  [][\A t \in Trids : index[t] = 0 /\ index'[t] # 0 =>
       \A p \in 1..Len(master.data) : master.data[p].trid # t]_vars

=============================================================================
