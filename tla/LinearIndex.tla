---------------------------- MODULE LinearIndex ----------------------------
(***************************************************************************)
(* The unique linear index (UniqueLinearIndex), which maps the record IDs  *)
(* of a table to the addresses of their master column records.  A file     *)
(* holds a fixed number of records; a record is a state byte and two       *)
(* values, of which the state selects one.  An update writes the value     *)
(* that is not selected and then the state byte, so that a crash leaves    *)
(* the old or the new value.                                               *)
(*                                                                         *)
(* Every write goes to the buffer of the file in the cache (mem) and then  *)
(* to the file (disk).  Requests come one at a time: the master column     *)
(* calls the index under Column::m_mutex.                                  *)
(***************************************************************************)
EXTENDS Naturals, FiniteSets, FiniteSetsExt

CONSTANTS
  N,               \* m_numberOfRecordsPerFile
  MaxKey,          \* the greatest possible key; the least one is 0
  Values,          \* the values of requests
  Zero,            \* what a new file is filled with
  Torn,            \* a value of which only a part was written
  Absent, Unknown, \* contents of a key, see AtomicIndex
  NoKey,           \* "false" of the functions that look for a key
  NoRequest,
  CacheCapacity,   \* kFileCacheCapacity
  MaxRequests      \* bound on the number of requests

ASSUME NAssumption == N \in Nat \ {0}
ASSUME MaxKeyAssumption == MaxKey \in Nat
ASSUME ValuesAssumption ==
  /\ Values # {}
  /\ Zero \notin Values /\ Torn \notin Values
  /\ Absent \notin Values \cup {Zero, Torn}
  /\ Unknown \notin Values \cup {Zero, Torn, Absent}
ASSUME NoRequestAssumption ==
  NoRequest \notin [kind : {"insert", "update", "erase"}, key : 0..MaxKey, val : Values]
ASSUME NoKeyAssumption == NoKey \notin 0..MaxKey
ASSUME BoundAssumption == CacheCapacity \in Nat /\ MaxRequests \in Nat

VARIABLES
  up,       \* the process runs
  onDisk,   \* the index files in the directory
  disk,     \* their records
  files,    \* m_fileIds
  mem,      \* the buffers of the files (FileData::m_data)
  minKey, maxKey,   \* m_minKey, m_maxKey
  req,      \* the request being served
  pc,       \* its next step
  failed,   \* a write has been refused since the start
  requests  \* number of requests so far

vars == <<up, onDisk, disk, files, mem, minKey, maxKey, req, pc, failed, requests>>

-----------------------------------------------------------------------------
Keys == 0..MaxKey

(* getFileIdForKey, computeMaxPossibleFileId                               *)
FileOf(k) == (k \div N) + 1

MaxPossibleFileId == (MaxKey \div N) + (IF MaxKey % N > 0 THEN 1 ELSE 0)

FileIds == 1..FileOf(MaxKey)

Contents == Values \cup {Zero, Torn}

(* State 0 is kValueStateFree, 1 and 2 select the first or second value.   *)
Record == [st : 0..2, v1 : Contents, v2 : Contents]

Free == [st |-> 0, v1 |-> Zero, v2 |-> Zero]

Stored(r) == CASE r.st = 0 -> Absent [] r.st = 1 -> r.v1 [] OTHER -> r.v2

WithValue(r, s, v) == IF s = 1 THEN [r EXCEPT !.v1 = v] ELSE [r EXCEPT !.v2 = v]

WithState(r, s) == [r EXCEPT !.st = s]

(* The keys with a record that is not free, as the buffers show them.      *)
Live == {k \in Keys : FileOf(k) \in files /\ mem[k].st # 0}

(* An update writes the selected value in place.                           *)
TargetStateMutant(r) ==
  CASE r.kind = "insert" -> 1
    [] r.kind = "erase" -> 0
    [] OTHER -> mem[r.key].st

(* The state byte that the request writes last.                            *)
TargetState(r) ==
  CASE r.kind = "insert" -> 1
    [] r.kind = "erase" -> 0
    [] OTHER -> IF mem[r.key].st = 1 THEN 2 ELSE 1

-----------------------------------------------------------------------------
(* Looking for keys in the records that are not free.  The scan of the     *)
(* first file starts at the record after that of the key;                  *)
(* getRecordOffsetInMemory takes its number modulo N, so that after the    *)
(* last record of a file the scan starts at its first record while the key *)
(* is counted on.                                                          *)
ScanFile(live, f, record, key) ==
  {key + (i - record) : i \in {j \in record..(N - 1) : (f - 1) * N + j \in live}}

FindKeyAfter(live, key) ==
  LET f == FileOf(key)
      here == IF f \in files THEN ScanFile(live, f, (key + 1) % N, key + 1) ELSE {}
      later == {k \in live : FileOf(k) > f}
  IN IF key = maxKey \/ key = MaxKey \/ (\A g \in files : g < f) THEN NoKey
     ELSE IF here # {} THEN Min(here)
     ELSE IF later # {} THEN Min(later) ELSE NoKey

(* The scan includes the record of the key itself.                         *)
FindKeyBeforeMutant(live, key) ==
  LET before == {k \in live : k <= key}
  IN IF key = minKey \/ key = 0 \/ before = {} THEN NoKey ELSE Max(before)

FindKeyBefore(live, key) ==
  LET before == {k \in live : k < key}
  IN IF key = minKey \/ key = 0 \/ before = {} THEN NoKey ELSE Max(before)

(* findLeadingKey() and findTrailingKey() with their defaults.             *)
LeadingKey(live) == IF live = {} THEN MaxKey ELSE Min(live)
TrailingKey(live) == IF live = {} THEN 0 ELSE Max(live)

(* insert(): the first record of the index, or perhaps a wider range.      *)
MinAfterInsert(k) == IF maxKey < minKey \/ k < minKey THEN k ELSE minKey
MaxAfterInsert(k) == IF maxKey < minKey \/ k > maxKey THEN k ELSE maxKey

(* updateMinAndMaxKeysAfterRemoval(), which runs when the record is free.  *)
(* Where it finds no other key it throws and changes nothing.              *)
MinAfterRemoval(k) ==
  LET live == Live \ {k}
      after == FindKeyAfter(live, k)
  IN CASE k # minKey -> minKey
       [] k = minKey /\ k = maxKey -> MaxKey
       [] OTHER -> IF after # NoKey THEN after ELSE minKey

(* The greatest key is taken from what is above the erased one.            *)
MaxAfterRemovalMutant(k) ==
  LET after == FindKeyAfter(Live \ {k}, k)
  IN CASE k # maxKey -> maxKey
       [] k = minKey /\ k = maxKey -> 0
       [] OTHER -> IF after # NoKey THEN after ELSE maxKey

MaxAfterRemoval(k) ==
  LET before == FindKeyBefore(Live \ {k}, k)
  IN CASE k # maxKey -> maxKey
       [] k = minKey /\ k = maxKey -> 0
       [] OTHER -> IF before # NoKey THEN before ELSE maxKey

-----------------------------------------------------------------------------
Init ==
  /\ up = TRUE
  /\ onDisk = {} /\ files = {}
  /\ disk = [k \in Keys |-> Free] /\ mem = [k \in Keys |-> Free]
  /\ minKey = MaxKey /\ maxKey = 0
  /\ req = NoRequest /\ pc = "idle"
  /\ failed = FALSE /\ requests = 0

files_vars == <<onDisk, disk, files, mem, minKey, maxKey>>

(* erase() has no value.                                                   *)
SomeValue == CHOOSE v \in Values : TRUE

Finish == req' = NoRequest /\ pc' = "idle"

Request(kind, k, v) ==
  /\ up /\ pc = "idle" /\ requests < MaxRequests
  /\ req' = [kind |-> kind, key |-> k, val |-> v]
  /\ pc' = "find"
  /\ requests' = requests + 1
  /\ UNCHANGED <<up, failed, files_vars>>

(* findFile() and the look at the state of the record: there is something  *)
(* to write, or insert() makes the file.                                   *)
FindRecord ==
  /\ pc = "find"
  /\ FileOf(req.key) <= MaxPossibleFileId
  /\ IF FileOf(req.key) \in files
       THEN /\ (req.kind = "insert") <=> (mem[req.key].st = 0)
            /\ pc' = IF req.kind = "erase" THEN "state" ELSE "value"
       ELSE req.kind = "insert" /\ pc' = "create"
  /\ UNCHANGED <<up, req, failed, requests, files_vars>>

(* Nothing to do (the result is false or 0), a key that has no possible    *)
(* file (std::out_of_range), or a file that cannot be opened again.        *)
FindNothing ==
  /\ pc = "find"
  /\ Finish
  /\ UNCHANGED <<up, failed, requests, files_vars>>

(* createIndexFile(): the file gets its name when all of it is written.    *)
(* A file that is there already cannot be linked.                          *)
CreateIndexFile ==
  LET f == FileOf(req.key)
  IN /\ pc = "create" /\ f \notin onDisk
     /\ onDisk' = onDisk \cup {f}
     /\ disk' = [k \in Keys |-> IF FileOf(k) = f THEN Free ELSE disk[k]]
     /\ pc' = "register"
     /\ UNCHANGED <<up, files, mem, minKey, maxKey, req, failed, requests>>

CreateIndexFileFails ==
  /\ pc = "create"
  /\ Finish
  /\ UNCHANGED <<up, failed, requests, files_vars>>

(* makeFile(): the buffer is read from the new file.                       *)
RegisterFile ==
  LET f == FileOf(req.key)
  IN /\ pc = "register"
     /\ files' = files \cup {f}
     /\ mem' = [k \in Keys |-> IF FileOf(k) = f THEN disk[k] ELSE mem[k]]
     /\ pc' = "value"
     /\ UNCHANGED <<up, onDisk, disk, minKey, maxKey, req, failed, requests>>

RegisterFileFails ==
  /\ pc = "register"
  /\ Finish
  /\ UNCHANGED <<up, failed, requests, files_vars>>

WriteValue ==
  LET s == TargetState(req)
  IN /\ pc = "value"
     /\ mem' = [mem EXCEPT ![req.key] = WithValue(@, s, req.val)]
     /\ disk' = [disk EXCEPT ![req.key] = WithValue(@, s, req.val)]
     /\ pc' = "state"
     /\ UNCHANGED <<up, onDisk, files, minKey, maxKey, req, failed, requests>>

(* FileData::update() changes its buffer before it writes.                 *)
WriteValueFails ==
  LET s == TargetState(req)
  IN /\ pc = "value"
     /\ mem' = [mem EXCEPT ![req.key] = WithValue(@, s, req.val)]
     /\ \/ disk' = [disk EXCEPT ![req.key] = WithValue(@, s, Torn)]
        \/ UNCHANGED disk
     /\ failed' = TRUE
     /\ Finish
     /\ UNCHANGED <<up, onDisk, files, minKey, maxKey, requests>>

(* The state byte, and after it the keys at the ends.                      *)
WriteState ==
  LET k == req.key
      s == TargetState(req)
  IN /\ pc = "state"
     /\ mem' = [mem EXCEPT ![k] = WithState(@, s)]
     /\ disk' = [disk EXCEPT ![k] = WithState(@, s)]
     /\ CASE req.kind = "insert" -> /\ minKey' = MinAfterInsert(k)
                                    /\ maxKey' = MaxAfterInsert(k)
          [] req.kind = "erase" -> /\ minKey' = MinAfterRemoval(k)
                                   /\ maxKey' = MaxAfterRemoval(k)
          [] OTHER -> UNCHANGED <<minKey, maxKey>>
     /\ Finish
     /\ UNCHANGED <<up, onDisk, files, failed, requests>>

WriteStateFails ==
  /\ pc = "state"
  /\ mem' = [mem EXCEPT ![req.key] = WithState(@, TargetState(req))]
  /\ failed' = TRUE
  /\ Finish
  /\ UNCHANGED <<up, onDisk, disk, files, minKey, maxKey, requests>>

(* A file leaves the cache when another one is loaded, and is read again   *)
(* when it is needed.  Which one is least recently used is left open; the  *)
(* file of the request is not.                                             *)
Evict(f) ==
  /\ up /\ f \in files
  /\ Cardinality(files) > CacheCapacity
  /\ req # NoRequest => f # FileOf(req.key)
  /\ mem' = [k \in Keys |-> IF FileOf(k) = f THEN disk[k] ELSE mem[k]]
  /\ UNCHANGED <<up, onDisk, disk, files, minKey, maxKey, req, pc, failed, requests>>

(* The process dies; of a value being written a part may be in the file.   *)
Crash ==
  /\ up
  /\ up' = FALSE
  /\ \/ UNCHANGED disk
     \/ /\ pc = "value"
        /\ disk' = [disk EXCEPT ![req.key] = WithValue(@, TargetState(req), Torn)]
  /\ mem' = disk'
  /\ files' = {} /\ minKey' = MaxKey /\ maxKey' = 0
  /\ failed' = FALSE
  /\ Finish
  /\ UNCHANGED <<onDisk, requests>>

(* The constructor of an existing index: scanFiles() and the ends.         *)
Restart ==
  LET live == {k \in Keys : FileOf(k) \in onDisk /\ disk[k].st # 0}
  IN /\ ~up
     /\ up' = TRUE
     /\ files' = onDisk
     /\ minKey' = LeadingKey(live) /\ maxKey' = TrailingKey(live)
     /\ UNCHANGED <<onDisk, disk, mem, req, pc, failed, requests>>

Next ==
  \/ \E k \in Keys : \/ \E v \in Values, kind \in {"insert", "update"} : Request(kind, k, v)
                     \/ Request("erase", k, SomeValue)
  \/ FindRecord \/ FindNothing
  \/ CreateIndexFile \/ CreateIndexFileFails
  \/ RegisterFile \/ RegisterFileFails
  \/ WriteValue \/ WriteValueFails
  \/ WriteState \/ WriteStateFails
  \/ \E f \in FileIds : Evict(f)
  \/ Crash \/ Restart

Spec == Init /\ [][Next]_vars

-----------------------------------------------------------------------------
(* Properties                                                              *)

PcValues == {"idle", "find", "create", "register", "value", "state"}

Requests == [kind : {"insert", "update", "erase"}, key : Keys, val : Values]

(* The variables of the index have values of their types, and a request is *)
(* being served exactly while there is a next step for it.                 *)
TypeOK ==
  /\ up \in BOOLEAN /\ failed \in BOOLEAN
  /\ onDisk \subseteq FileIds /\ files \subseteq onDisk
  /\ disk \in [Keys -> Record] /\ mem \in [Keys -> Record]
  /\ minKey \in Nat /\ maxKey \in Nat
  /\ req \in Requests \cup {NoRequest} /\ pc \in PcValues
  /\ (req = NoRequest) <=> (pc = "idle")
  /\ requests \in Nat

(* The buffer and the file of a key disagree: a write has been refused.    *)
Spoiled(k) ==
  \/ mem[k].st # disk[k].st
  \/ Stored(mem[k]) # Stored(disk[k])

DurableMap == [k \in Keys |-> IF Spoiled(k) THEN Unknown ELSE Stored(disk[k])]

Atomic == INSTANCE AtomicIndex WITH map <- DurableMap

(* The contents of the files change as AtomicIndex says: by whole requests *)
(* (insert, update, erase of UniqueLinearIndex), whatever write the        *)
(* process dies at, and unpredictably only for a key with a refused write. *)
ImplementsAtomicIndex == Atomic!Spec

(* As long as no write is refused, m_minKey and m_maxKey, which are kept   *)
(* up to date by insert and erase, are the ends of what the files hold,    *)
(* after any erasure and also with files in the middle that are missing.   *)
EndsAreExact ==
  up /\ ~failed => /\ minKey = LeadingKey(Live)
                   /\ maxKey = TrailingKey(Live)

(* findNextKey() and findPreviousKey() find the neighbour of every key, of *)
(* one that was just erased as well as of one that is there, unless the    *)
(* key has the last record of its file.                                    *)
NeighboursFoundInFile ==
  up /\ ~failed =>
    \A k \in Keys :
      LET after == {j \in Live : j > k}
          before == {j \in Live : j < k}
      IN /\ (k + 1) % N # 0 =>
              FindKeyAfter(Live, k) = IF after = {} THEN NoKey ELSE Min(after)
         /\ Live # {} =>
              FindKeyBefore(Live, k) = IF before = {} THEN NoKey ELSE Max(before)

=============================================================================
