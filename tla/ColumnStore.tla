------------------------------ MODULE ColumnStore ------------------------------
(***************************************************************************)
(* One column of a Siodb table: its data block files, the block registry,  *)
(* the LRU cache of block objects and the list of available blocks         *)
(* (Column, ColumnDataBlock, BlockRegistry, ColumnDataBlockCache).         *)
(*                                                                         *)
(* The column is the master column or a column of a fixed size type, so    *)
(* that a record lies in one block.  Column::m_mutex is held from the      *)
(* first to the last step of a write; the steps are separate actions only  *)
(* because the process may die between any two of them.                    *)
(***************************************************************************)
EXTENDS Integers, Sequences, FiniteSets

CONSTANTS
    AreaSize,        \* m_dataBlockDataAreaSize: bytes of data in one block
    Lengths,         \* sizes of the records that are written
    CacheCapacity,   \* capacity of m_blockCache (iomgr.block_cache_capacity)
    MaxBlocks,       \* bound: number of block identifiers
    MaxWrites,       \* bound: number of records written
    MaxCrashes       \* bound: number of process deaths

ASSUME AreaSizeAssumption == AreaSize \in Nat \ {0}
ASSUME LengthsAssumption == Lengths \subseteq 1..AreaSize
ASSUME CacheCapacityAssumption == CacheCapacity \in Nat /\ CacheCapacity >= 2
ASSUME BoundsAssumption ==
    MaxBlocks \in Nat \ {0} /\ MaxWrites \in Nat /\ MaxCrashes \in Nat

Block == 1..MaxBlocks
Offset == 0..AreaSize - 1
NoBlock == 0                \* block ID 0: "no previous block"
NoFile == -1                \* the data file of the block does not exist
NotAvailable == -1          \* the block has no entry in m_availableDataBlocks
Blank == 0                  \* a byte nobody has written
Torn == -1                  \* a byte left by a write that failed

ColumnDataBlockState ==
    {"kNotPresent", "kCreating", "kClosing", "kClosed", "kCurrent", "kAvailable"}

VARIABLES
    header,      \* [Block -> NoFile or the m_nextDataOffset in the block file]
    data,        \* [Block -> [Offset -> the write that left this byte]]
    registry,    \* [Block -> state and prev]: the block list file
    links,       \* Seq(<<block, next block>>): the next block list file
    lastBlockId, \* Column::m_lastBlockId
    age,         \* [Block -> LRU rank in m_blockCache, 1 = latest, 0 = absent]
    obj,         \* [Block -> state and pos]: the cached ColumnDataBlock
    avail,       \* [Block -> free space or NotAvailable]: m_availableDataBlocks
    op,          \* the operation that holds the mutex and how far it is
    status,      \* of the Column object: "up", "down" (no process), "failed"
    writes,      \* number of records written so far
    crashes,     \* number of process deaths so far
    recs,        \* history: the records whose address the column has returned
    last         \* history: the record of the latest write, if still the latest

disk == <<header, data, registry, links>>
memory == <<lastBlockId, age, obj, avail>>
history == <<recs, last>>
vars == <<header, data, registry, links, lastBlockId, age, obj, avail, op,
          status, writes, crashes, recs, last>>

Object == [state: ColumnDataBlockState, pos: 0..AreaSize]
Unloaded == [state |-> "kNotPresent", pos |-> 0]
Unrecorded == [state |-> "kNotPresent", prev |-> NoBlock]
Record == [block: Block, pos: Offset, len: 1..AreaSize, tag: 1..MaxWrites]
NoRecord == [block |-> NoBlock, pos |-> 0, len |-> 0, tag |-> 0]
Idle == [pc |-> "idle", len |-> 0, old |-> NoBlock, new |-> NoBlock,
         todo |-> {}]

--------------------------------------------------------------------------------
(***************************************************************************)
(* The LRU cache (stdext::unordered_lru_cache).  A block is evicted only   *)
(* if nobody but the cache holds it; "held" are the blocks an operation    *)
(* keeps a pointer to.  on_evict does nothing, so that the object dies and *)
(* with it a position that was never written to the header.                *)
(***************************************************************************)
Cached(a) == {b \in Block : a[b] > 0}

Touch(a, b) ==
    [x \in Block |-> IF x = b THEN 1
                     ELSE IF a[x] > 0 /\ (a[b] = 0 \/ a[x] < a[b])
                          THEN a[x] + 1
                          ELSE a[x]]

Victim(a, held) ==
    CHOOSE v \in Cached(a) \ held : \A w \in Cached(a) \ held : a[w] <= a[v]

Drop(a, v) ==
    [x \in Block |-> IF x = v THEN 0
                     ELSE IF a[x] > a[v] THEN a[x] - 1 ELSE a[x]]

Evict(a, held) ==
    IF Cardinality(Cached(a)) >= CacheCapacity
    THEN Drop(a, Victim(a, held))
    ELSE a

Emplace(a, b, held) == Touch(Evict(a, held), b)

\* The objects left when the ranks change from a to a2 and b comes in as o.
Objects(a, a2, b, o) ==
    [x \in Block |-> IF a2[x] = 0 THEN Unloaded
                     ELSE IF x = b /\ a[x] = 0 THEN o ELSE obj[x]]

\* A block object built from the file: the state is not read from the registry.
FromFile(b) == [state |-> "kCreating", pos |-> header[b]]

LoadedAge(b, held) ==
    IF age[b] > 0 THEN Touch(age, b) ELSE Emplace(age, b, held)

\* Column::loadBlock
LoadBlock(b, held) ==
    /\ age' = LoadedAge(b, held)
    /\ obj' = Objects(age, LoadedAge(b, held), b, FromFile(b))

LoadedObject(b) == IF age[b] > 0 THEN obj[b] ELSE FromFile(b)

FreeDataSpace(o) == AreaSize - o.pos

Available == {b \in Block : avail[b] # NotAvailable}

\* BlockRegistry::findNextBlockIds, as positions in the next block list file.
\* File offset 0 stands for "no record", so the first record is never found.
NextBlockIds(b) == {i \in 2..Len(links) : links[i][1] = b}

--------------------------------------------------------------------------------
Init ==
    /\ header = [b \in Block |-> NoFile]
    /\ data = [b \in Block |-> [p \in Offset |-> Blank]]
    /\ registry = [b \in Block |-> Unrecorded]
    /\ links = << >>
    /\ lastBlockId = 0
    /\ age = [b \in Block |-> 0]
    /\ obj = [b \in Block |-> Unloaded]
    /\ avail = [b \in Block |-> NotAvailable]
    /\ op = Idle
    /\ status = "up"
    /\ writes = 0
    /\ crashes = 0
    /\ recs = {}
    /\ last = NoRecord

At(pc) == status = "up" /\ op.pc = pc

--------------------------------------------------------------------------------
(***************************************************************************)
(* writeRecord and writeMasterColumnRecord: selectAvailableBlockUnlocked,  *)
(* createOrGetNextBlock and createBlock, then the data.                    *)
(***************************************************************************)
\* Blocks are tried in the order of their identifiers.
FirstFit(len) ==
    CHOOSE b \in Available :
        /\ avail[b] >= len
        /\ \A c \in Available : avail[c] >= len => b <= c

\* The block that is closed when none fits: the code keeps the one with the
\* most free space, the first such in the order of identifiers.
BlockToClose ==
    CHOOSE b \in Available :
        \A c \in Available : avail[c] < avail[b] \/ (avail[c] = avail[b] /\ b <= c)

BeginWrite ==
    /\ At("idle")
    /\ writes < MaxWrites
    /\ writes' = writes + 1
    /\ last' = NoRecord

SelectNew(len) ==
    /\ BeginWrite
    /\ Available = {}
    /\ lastBlockId < MaxBlocks
    /\ op' = [Idle EXCEPT !.pc = "create", !.len = len]
    /\ UNCHANGED <<disk, memory, status, crashes, recs>>

SelectFit(len) ==
    /\ BeginWrite
    /\ \E b \in Available : avail[b] >= len
    /\ LoadBlock(FirstFit(len), {})
    /\ op' = [Idle EXCEPT !.pc = "store", !.len = len, !.new = FirstFit(len)]
    /\ UNCHANGED <<disk, lastBlockId, avail, status, crashes, recs>>

SelectNext(len) ==
    /\ BeginWrite
    /\ Available # {}
    /\ lastBlockId < MaxBlocks
    /\ \A b \in Available : avail[b] < len
    /\ LoadBlock(BlockToClose, {})
    /\ avail' = [avail EXCEPT ![BlockToClose] = NotAvailable]
    /\ op' = [Idle EXCEPT !.pc = "scan", !.len = len, !.old = BlockToClose,
                          !.todo = NextBlockIds(BlockToClose)]
    /\ UNCHANGED <<disk, lastBlockId, status, crashes, recs>>

\* createOrGetNextBlock: one iteration over the existing next blocks, backwards.
ScanNextBlock ==
    /\ At("scan")
    /\ op.todo # {}
    /\ LET i == CHOOSE j \in op.todo : \A k \in op.todo : k <= j
           b == links[i][2]
           o == LoadedObject(b)
       IN  /\ LoadBlock(b, {op.old})
           /\ op' = IF o.state \in {"kCurrent", "kAvailable"}
                       /\ FreeDataSpace(o) >= op.len
                    THEN [op EXCEPT !.pc = "digest", !.new = b, !.todo = {}]
                    ELSE [op EXCEPT !.todo = @ \ {i}]
    /\ UNCHANGED <<disk, lastBlockId, avail, status, writes, crashes, history>>

ScanEnds ==
    /\ At("scan")
    /\ op.todo = {}
    /\ op' = [op EXCEPT !.pc = "create"]
    /\ UNCHANGED <<disk, memory, status, writes, crashes, history>>

\* createBlock: the constructor of ColumnDataBlock makes and links the file.
CreateBlockFile ==
    /\ At("create")
    /\ LET n == lastBlockId + 1
           a2 == Emplace(age, n, {op.old})
           o == [state |-> IF op.old = NoBlock THEN "kCurrent" ELSE "kCreating",
                 pos |-> 0]
       IN  /\ header[n] = NoFile
           /\ lastBlockId' = n
           /\ header' = [header EXCEPT ![n] = 0]
           /\ age' = a2
           /\ obj' = Objects(age, a2, n, o)
           /\ op' = [op EXCEPT !.pc = "record", !.new = n]
    /\ UNCHANGED <<data, registry, links, avail, status, writes, crashes, history>>

\* linkat() fails with EEXIST: the file was left by a process that died before
\* it recorded the block.  The identifier is used up and the write throws.
CreateBlockFileFails ==
    /\ At("create")
    /\ header[lastBlockId + 1] # NoFile
    /\ lastBlockId' = lastBlockId + 1
    /\ op' = Idle
    /\ UNCHANGED <<disk, age, obj, avail, status, writes, crashes, history>>

\* Mutant: the new block is recorded as its own predecessor.
RecordBlockMutant ==
    /\ At("record")
    /\ registry' = [registry EXCEPT ![op.new] =
                        [state |-> "kCreating", prev |-> op.new]]
    /\ IF op.old = NoBlock
       THEN /\ avail' = [avail EXCEPT ![op.new] = FreeDataSpace(obj[op.new])]
            /\ op' = [op EXCEPT !.pc = "store"]
       ELSE /\ op' = [op EXCEPT !.pc = "link"]
            /\ UNCHANGED avail
    /\ UNCHANGED <<header, data, links, lastBlockId, age, obj, status, writes,
                   crashes, history>>

\* BlockRegistry::recordBlock.  A block with no parent is available at once.
RecordBlock ==
    /\ At("record")
    /\ registry' = [registry EXCEPT ![op.new] =
                        [state |-> "kCreating", prev |-> op.old]]
    /\ IF op.old = NoBlock
       THEN /\ avail' = [avail EXCEPT ![op.new] = FreeDataSpace(obj[op.new])]
            /\ op' = [op EXCEPT !.pc = "store"]
       ELSE /\ op' = [op EXCEPT !.pc = "link"]
            /\ UNCHANGED avail
    /\ UNCHANGED <<header, data, links, lastBlockId, age, obj, status, writes,
                   crashes, history>>

\* BlockRegistry::recordBlockAndNextBlock calls addNextBlock(blockId, parent):
\* the parent is recorded as a next block of the new one.
AddNextBlock ==
    /\ At("link")
    /\ links' = Append(links, <<op.new, op.old>>)
    /\ op' = [op EXCEPT !.pc = "digest"]
    /\ UNCHANGED <<header, data, registry, memory, status, writes, crashes, history>>

\* The digest of the block before the one that is closed, from the cache only.
HavePrevDigest == registry[op.old].prev \in {NoBlock} \cup Cached(age)

TakePrevDigest ==
    /\ LET prev == registry[op.old].prev
       IN  age' = IF prev = NoBlock THEN age ELSE Touch(age, prev)
    /\ op' = [op EXCEPT !.pc = "closing"]
    /\ UNCHANGED <<disk, lastBlockId, obj, avail, status, writes, crashes, history>>

\* kErrorColumnDataBlockNotAvailable: the write throws with the new block made
\* and the old one already taken off the list of available blocks.
PrevDigestMissing ==
    /\ op' = Idle
    /\ UNCHANGED <<disk, memory, status, writes, crashes, history>>

ObtainPrevDigest ==
    /\ At("digest")
    /\ IF HavePrevDigest THEN TakePrevDigest ELSE PrevDigestMissing

\* ColumnDataBlock::finalize, its three writes to disk.
FinalizeClosing ==
    /\ At("closing")
    /\ obj' = [obj EXCEPT ![op.old].state = "kClosing"]
    /\ registry' = [registry EXCEPT ![op.old].state = "kClosing"]
    /\ op' = [op EXCEPT !.pc = "header"]
    /\ UNCHANGED <<header, data, links, lastBlockId, age, avail, status, writes,
                   crashes, history>>

\* Mutant: the header is not written.
FinalizeHeaderMutant ==
    /\ At("header")
    /\ op' = [op EXCEPT !.pc = "closed"]
    /\ UNCHANGED <<disk, memory, status, writes, crashes, history>>

FinalizeHeader ==
    /\ At("header")
    /\ header' = [header EXCEPT ![op.old] = obj[op.old].pos]
    /\ op' = [op EXCEPT !.pc = "closed"]
    /\ UNCHANGED <<data, registry, links, memory, status, writes, crashes, history>>

\* Mutant: the closed block stays on the list of available blocks.
FinalizeClosedMutant ==
    /\ At("closed")
    /\ obj' = [obj EXCEPT ![op.old].state = "kClosed"]
    /\ registry' = [registry EXCEPT ![op.old].state = "kClosed"]
    /\ avail' = [avail EXCEPT ![op.old] = FreeDataSpace(obj[op.old]),
                              ![op.new] = FreeDataSpace(obj[op.new])]
    /\ op' = [op EXCEPT !.pc = "store"]
    /\ UNCHANGED <<header, data, links, lastBlockId, age, status, writes, crashes,
                   history>>

\* The last write of finalize, and the rest of createOrGetNextBlock.
FinalizeClosed ==
    /\ At("closed")
    /\ obj' = [obj EXCEPT ![op.old].state = "kClosed"]
    /\ registry' = [registry EXCEPT ![op.old].state = "kClosed"]
    /\ avail' = [avail EXCEPT ![op.old] = NotAvailable,
                              ![op.new] = FreeDataSpace(obj[op.new])]
    /\ op' = [op EXCEPT !.pc = "store"]
    /\ UNCHANGED <<header, data, links, lastBlockId, age, status, writes, crashes,
                   history>>

Fits(b, len) == obj[b].pos + len <= AreaSize

\* The bytes from p on, as many as len, are those of the write t.
Overwritten(b, p, len, t) ==
    [data EXCEPT ![b] = [q \in Offset |-> IF p <= q /\ q < p + len THEN t
                                          ELSE data[b][q]]]

StoreRecord ==
    /\ At("store")
    /\ Fits(op.new, op.len)
    /\ LET b == op.new
           p == obj[b].pos
           r == [block |-> b, pos |-> p, len |-> op.len, tag |-> writes]
       IN  /\ data' = Overwritten(b, p, op.len, writes)
           /\ obj' = [obj EXCEPT ![b].pos = p + op.len]
           /\ avail' = [avail EXCEPT ![b] = AreaSize - (p + op.len)]
           /\ recs' = recs \cup {r}
           /\ last' = r
    /\ op' = Idle
    /\ UNCHANGED <<header, registry, links, lastBlockId, age, status, writes, crashes>>

\* The write throws once some of the bytes are on disk: an I/O error, or (master
\* column) a duplicate TRID found after the data.  The position has not moved.
StoreRecordFails ==
    /\ At("store")
    /\ Fits(op.new, op.len)
    /\ data' = Overwritten(op.new, obj[op.new].pos, op.len, Torn)
    /\ op' = Idle
    /\ UNCHANGED <<header, registry, links, memory, status, writes, crashes, history>>

--------------------------------------------------------------------------------
(***************************************************************************)
(* The other operations.                                                   *)
(***************************************************************************)
\* Mutant: updateAvailableBlock is not called.
RollbackToAddressMutant ==
    /\ At("idle")
    /\ last # NoRecord
    /\ last.block \in Available
    /\ LET b == last.block
           a2 == LoadedAge(b, {})
           o == [LoadedObject(b) EXCEPT !.pos = last.pos]
       IN  /\ age' = a2
           /\ obj' = [Objects(age, a2, b, o) EXCEPT ![b] = o]
    /\ recs' = recs \ {last}
    /\ last' = NoRecord
    /\ UNCHANGED <<disk, lastBlockId, avail, op, status, writes, crashes>>

\* Column::rollbackToAddress for the record just written: Table rolls back the
\* row it has begun, and that record and the next position share a block.
RollbackToAddress ==
    /\ At("idle")
    /\ last # NoRecord
    /\ last.block \in Available
    /\ LET b == last.block
           a2 == LoadedAge(b, {})
           o == [LoadedObject(b) EXCEPT !.pos = last.pos]
       IN  /\ age' = a2
           /\ obj' = [Objects(age, a2, b, o) EXCEPT ![b] = o]
           /\ avail' = [avail EXCEPT ![b] = FreeDataSpace(o)]
    /\ recs' = recs \ {last}
    /\ last' = NoRecord
    /\ UNCHANGED <<disk, lastBlockId, op, status, writes, crashes>>

\* readRecord and readMasterColumnRecord bring the block into the cache.
ReadRecord(r) ==
    /\ At("idle")
    /\ r \in recs
    /\ LoadBlock(r.block, {})
    /\ UNCHANGED <<disk, lastBlockId, avail, op, status, writes, crashes, history>>

\* The process dies, or is stopped: destroying the block objects writes nothing,
\* because nothing leaves m_headerModified set.
Crash ==
    /\ status = "up"
    /\ crashes < MaxCrashes
    /\ crashes' = crashes + 1
    /\ status' = "down"
    /\ lastBlockId' = 0
    /\ age' = [b \in Block |-> 0]
    /\ obj' = [b \in Block |-> Unloaded]
    /\ avail' = [b \in Block |-> NotAvailable]
    /\ op' = Idle
    /\ last' = NoRecord
    /\ UNCHANGED <<disk, writes, recs>>

Recorded == {b \in Block : registry[b].state # "kNotPresent"}

\* BlockRegistry::openDataFiles: from the size of the block list file.
LastRecordedBlockId ==
    IF Recorded = {} THEN 0
    ELSE CHOOSE b \in Recorded : \A c \in Recorded : c <= b

\* Column::findFirstBlock, from the directory listing.
FirstBlock ==
    LET files == {b \in Block : header[b] # NoFile}
    IN  IF files = {} THEN NoBlock
        ELSE CHOOSE b \in files : \A c \in files : b <= c

\* Column::checkDataConsistency stops at the first block, because a block that
\* comes from the file is in the state kCreating: no block becomes available.
ConsistentOnLoad ==
    LET b == FirstBlock
    IN  b # NoBlock => b \in Recorded /\ registry[b].prev = NoBlock

\* Mutant: the first block becomes available with the position in its header.
RestartMutant ==
    /\ status = "down"
    /\ ConsistentOnLoad
    /\ status' = "up"
    /\ lastBlockId' = LastRecordedBlockId
    /\ IF FirstBlock = NoBlock THEN UNCHANGED <<age, obj, avail>>
       ELSE /\ LoadBlock(FirstBlock, {})
            /\ avail' = [avail EXCEPT ![FirstBlock] =
                                FreeDataSpace(FromFile(FirstBlock))]
    /\ UNCHANGED <<disk, op, writes, crashes, history>>

Restart ==
    /\ status = "down"
    /\ ConsistentOnLoad
    /\ status' = "up"
    /\ lastBlockId' = LastRecordedBlockId
    /\ IF FirstBlock = NoBlock THEN UNCHANGED <<age, obj>>
       ELSE LoadBlock(FirstBlock, {})
    /\ UNCHANGED <<disk, avail, op, writes, crashes, history>>

RestartFails ==
    /\ status = "down"
    /\ ~ConsistentOnLoad
    /\ status' = "failed"
    /\ UNCHANGED <<disk, memory, op, writes, crashes, history>>

--------------------------------------------------------------------------------
WriteStep ==
    \/ \E len \in Lengths : SelectNew(len) \/ SelectFit(len) \/ SelectNext(len)
    \/ ScanNextBlock \/ ScanEnds
    \/ CreateBlockFile \/ CreateBlockFileFails
    \/ RecordBlock \/ AddNextBlock
    \/ ObtainPrevDigest
    \/ FinalizeClosing \/ FinalizeHeader \/ FinalizeClosed
    \/ StoreRecord \/ StoreRecordFails

Next ==
    \/ WriteStep
    \/ RollbackToAddress
    \/ \E r \in recs : ReadRecord(r)
    \/ Crash \/ Restart \/ RestartFails

Spec == Init /\ [][Next]_vars

--------------------------------------------------------------------------------
(***************************************************************************)
(* Properties.                                                             *)
(***************************************************************************)
PC == {"idle", "scan", "create", "record", "link", "digest", "closing",
       "header", "closed", "store"}

\* The variables of the column have the types of their C++ counterparts.
TypeOK ==
    /\ header \in [Block -> {NoFile} \cup 0..AreaSize]
    /\ data \in [Block -> [Offset -> {Blank, Torn} \cup 1..MaxWrites]]
    /\ registry \in [Block -> [state: ColumnDataBlockState,
                               prev: Block \cup {NoBlock}]]
    /\ links \in Seq(Block \X Block)
    /\ lastBlockId \in 0..MaxBlocks
    /\ age \in [Block -> Nat]
    /\ obj \in [Block -> Object]
    /\ avail \in [Block -> {NotAvailable} \cup 0..AreaSize]
    /\ op \in [pc: PC, len: Lengths \cup {0}, old: Block \cup {NoBlock},
               new: Block \cup {NoBlock}, todo: SUBSET Nat]
    /\ status \in {"up", "down", "failed"}
    /\ writes \in 0..MaxWrites
    /\ crashes \in 0..MaxCrashes
    /\ recs \subseteq Record
    /\ last \in Record \cup {NoRecord}

\* Append only: every byte of every record whose address was returned, and that
\* was not rolled back, is the byte that record wrote.  No later write, failed
\* write, rollback, crash or restart damages it.
RecordsIntact ==
    \A r \in recs : \A p \in Offset :
        r.pos <= p /\ p < r.pos + r.len => data[r.block][p] = r.tag

\* The free space kept in m_availableDataBlocks, by which a block is selected,
\* is the free space of the block object that is then written.
FreeSpaceExact ==
    \A b \in Available : age[b] > 0 /\ avail[b] = FreeDataSpace(obj[b])

\* The block that a write has selected or made has room for the record, so that
\* writeData never refuses one: the write would throw after a block was closed.
RoomAsPromised ==
    At("store") => Fits(op.new, op.len)

\* A column has at most one block that takes new data, and a write that closes
\* it has none until the next block is in place.
SingleAppendPoint ==
    \A b, c \in Available : b = c

\* A record can be found again after any crash: its block is in the registry,
\* has a file, and a registry entry points back to an earlier recorded block.
RecordsReachable ==
    /\ \A r \in recs : r.block \in Recorded /\ header[r.block] # NoFile
    /\ \A b \in Recorded :
          LET p == registry[b].prev
          IN  p # NoBlock => p \in Recorded /\ p < b

\* A closed block says in its file where its data ends, so that a block object
\* made from that file has a position past all of its records.
ClosedHeaderCoversRecords ==
    \A r \in recs : registry[r.block].state = "kClosed"
                       => r.pos + r.len <= header[r.block]

\* A block whose digest is final never changes again, nor does the registry
\* ever call it anything but closed.
ClosedBlocksImmutable ==
    [][\A b \in Block : registry[b].state = "kClosed" =>
          /\ data'[b] = data[b]
          /\ header'[b] = header[b]
          /\ registry'[b] = registry[b]]_vars

================================================================================
