--------------------------- MODULE ColumnStoreProofs ---------------------------
(***************************************************************************)
(* For every block size, set of record sizes and number of blocks: as long *)
(* as the column has no more blocks than its cache has room for, a record  *)
(* whose address was returned stays as it was written, through crashes,    *)
(* restarts, failed writes and rollbacks.                                  *)
(***************************************************************************)
EXTENDS ColumnStore, FiniteSetTheorems, WellFoundedInduction, TLAPS

\* The column never has more blocks than block objects fit into its cache.
NoEviction == MaxBlocks <= CacheCapacity

Creating == {"record", "link", "digest", "closing", "header", "closed", "store"}
Closing == {"scan", "link", "digest", "closing", "header", "closed"}

\* The position of the block object is past every record of the block.
Covers(b) == \A r \in recs : r.block = b => r.pos + r.len <= obj[b].pos

\* Whatever the program knows a block from has a file behind it.
FilesExist ==
    /\ \A b \in Block : age[b] > 0 => header[b] # NoFile
    /\ \A r \in recs : header[r.block] # NoFile
    /\ \A i \in 1..Len(links) : header[links[i][2]] # NoFile

\* What an operation in progress has at hand.
OpOK ==
    /\ status # "up" => op = Idle
    /\ op.pc # "idle" => op.len \in Lengths /\ writes # 0
    /\ op.pc \in {"scan", "create"} => lastBlockId < MaxBlocks
    /\ op.pc = "scan" => op.todo \subseteq 1..Len(links)
    /\ op.pc \in Closing => op.old \in Block
    /\ op.old \in Block => age[op.old] > 0
    /\ op.pc \in Creating => /\ op.new \in Block
                             /\ age[op.new] > 0
                             /\ Covers(op.new)
                             /\ FreeDataSpace(obj[op.new]) >= op.len
    /\ op.pc = "store" => Available = {op.new}
    /\ op.pc \notin {"idle", "store"} => Available = {}

\* Blocks that may take new data, now or as a candidate of ScanNextBlock.
PositionsExact ==
    /\ \A b \in Available : Covers(b)
    /\ \A b \in Block : age[b] > 0 /\ obj[b].state \in {"kCurrent", "kAvailable"}
                          => Covers(b)

\* The record that may be rolled back is the last one in its block.
LastOK ==
    last # NoRecord =>
        /\ last \in recs
        /\ \A r \in recs : r # last /\ r.block = last.block
                             => r.pos + r.len <= last.pos

IInv ==
    /\ TypeOK
    /\ FilesExist
    /\ OpOK
    /\ SingleAppendPoint
    /\ FreeSpaceExact
    /\ PositionsExact
    /\ LastOK
    /\ RecordsIntact

--------------------------------------------------------------------------------
\* A non-empty set of natural numbers has a least element.
LEMMA NatMin ==
    ASSUME NEW T, T \subseteq Nat, T # {}
    PROVE  \E x \in T : \A y \in T : x <= y
<1> DEFINE R == {p \in Nat \X Nat : p[1] < p[2]}
<1>1. IsWellFoundedOn(R, Nat)
  BY NatLessThanWellFounded, Zenon DEF OpToRel
<1>2. \E x \in T : \A y \in T : ~(<<y, x>> \in R)
  <2> HIDE DEF R
  <2> QED
    BY <1>1, WFMin, Zenon
<1>3. \A x, y \in T : ~(<<y, x>> \in R) => x <= y
  <2> SUFFICES ASSUME NEW x \in T, NEW y \in T, ~(x <= y)
               PROVE  <<y, x>> \in R
    OBVIOUS
  <2>1. x \in Nat /\ y \in Nat /\ y < x
    OBVIOUS
  <2>2. <<y, x>> \in Nat \X Nat /\ <<y, x>>[1] < <<y, x>>[2]
    BY <2>1
  <2> QED
    BY <2>2, Zenon
<1> HIDE DEF R
<1> QED
  BY <1>2, <1>3, Zenon

\* A non-empty set of natural numbers with a bound has a greatest element.
LEMMA NatMax ==
    ASSUME NEW T, T # {}, NEW n \in Nat, T \subseteq 0..n
    PROVE  \E x \in T : \A y \in T : y <= x
<1> DEFINE U == {z \in 0..n : n - z \in T}
<1>1. U # {}
  <2>1. PICK t \in T : TRUE
    OBVIOUS
  <2>2. n - t \in 0..n /\ n - (n - t) = t
    BY <2>1
  <2> QED
    BY <2>1, <2>2
<1>2. PICK z \in U : \A y \in U : z <= y
  <2> HIDE DEF U
  <2>1. U \subseteq Nat
    BY DEF U
  <2> QED
    BY <1>1, <2>1, NatMin
<1>3. \A y \in T : y <= n - z
  <2> SUFFICES ASSUME NEW y \in T PROVE y <= n - z
    OBVIOUS
  <2>1. n - y \in 0..n /\ n - (n - y) = y
    OBVIOUS
  <2>2. z <= n - y
    BY <2>1, <1>2
  <2> QED
    BY <2>2, <1>2, y \in 0..n, z \in 0..n
<1> QED
  BY <1>2, <1>3

\* A block that is not in the cache finds room there without an eviction.
LEMMA NoVictim ==
    ASSUME NoEviction, NEW a \in [Block -> Nat], NEW b \in Block, a[b] = 0,
           NEW held
    PROVE  Evict(a, held) = a
<1>1. IsFiniteSet(Block) /\ Cardinality(Block) = MaxBlocks
  BY FS_Interval, BoundsAssumption DEF Block
<1>2. /\ IsFiniteSet(Block \ {b})
      /\ Cardinality(Block \ {b}) = MaxBlocks - 1
  BY <1>1, FS_RemoveElement
<1>3. Cached(a) \in SUBSET (Block \ {b})
  BY DEF Cached
<1>4. /\ Cardinality(Cached(a)) <= MaxBlocks - 1
      /\ Cardinality(Cached(a)) \in Nat
  <2>1. /\ IsFiniteSet(Cached(a))
        /\ Cardinality(Cached(a)) <= Cardinality(Block \ {b})
    BY <1>2, <1>3, FS_Subset, Zenon
  <2>2. Cardinality(Cached(a)) \in Nat
    BY <2>1, FS_CardinalityType, Zenon
  <2> QED
    BY <1>2, <2>1, <2>2, Zenon
<1>5. ~(Cardinality(Cached(a)) >= CacheCapacity)
  BY <1>4, BoundsAssumption, CacheCapacityAssumption DEF NoEviction
<1> QED
  BY <1>5 DEF Evict

\* Without evictions a block enters the cache and nothing leaves it.
LEMMA EmplaceKeeps ==
    ASSUME NoEviction, NEW a \in [Block -> Nat], NEW b \in Block, a[b] = 0,
           NEW held
    PROVE  LET a2 == Emplace(a, b, held)
           IN  /\ a2 \in [Block -> Nat]
               /\ a2[b] > 0
               /\ \A x \in Block : x # b => (a2[x] > 0 <=> a[x] > 0)
<1>1. Emplace(a, b, held) = Touch(a, b)
  BY NoVictim DEF Emplace
<1> QED
  BY <1>1 DEF Touch

\* The same for Column::loadBlock.
LEMMA LoadKeeps ==
    ASSUME NoEviction, age \in [Block -> Nat], NEW b \in Block, NEW held
    PROVE  LET a2 == LoadedAge(b, held)
           IN  /\ a2 \in [Block -> Nat]
               /\ a2[b] > 0
               /\ \A x \in Block : x # b => (a2[x] > 0 <=> age[x] > 0)
<1>1. CASE age[b] > 0
  BY <1>1 DEF LoadedAge, Touch
<1>2. CASE age[b] = 0
  BY <1>2, EmplaceKeeps DEF LoadedAge
<1> QED
  BY <1>1, <1>2

\* What Column::loadBlock does to the cache and its objects.
LEMMA LoadBlockStep ==
    ASSUME NoEviction, TypeOK, NEW b \in Block, header[b] # NoFile, NEW held,
           LoadBlock(b, held)
    PROVE  /\ age' \in [Block -> Nat]
           /\ obj' \in [Block -> Object]
           /\ age'[b] > 0
           /\ \A x \in Block : x # b => (age'[x] > 0 <=> age[x] > 0)
           /\ \A x \in Block : age[x] > 0 => obj'[x] = obj[x]
           /\ age[b] = 0 => obj'[b] = FromFile(b)
<1>1. /\ age' \in [Block -> Nat]
      /\ age'[b] > 0
      /\ \A x \in Block : x # b => (age'[x] > 0 <=> age[x] > 0)
  BY LoadKeeps DEF LoadBlock, TypeOK
<1>2. /\ \A x \in Block : obj'[x] = IF age'[x] = 0 THEN Unloaded
                                    ELSE IF x = b /\ age[x] = 0 THEN FromFile(b)
                                    ELSE obj[x]
      /\ obj' = [x \in Block |-> obj'[x]]
  BY DEF LoadBlock, Objects
<1>3. FromFile(b) \in Object /\ Unloaded \in Object
  <2>1. header[b] \in 0..AreaSize /\ 0 \in 0..AreaSize
    BY AreaSizeAssumption DEF TypeOK
  <2> QED
    BY <2>1 DEF FromFile, Unloaded, Object, ColumnDataBlockState
<1>4. obj' \in [Block -> Object]
  BY <1>2, <1>3 DEF TypeOK
<1>5. \A x \in Block : age[x] > 0 => obj'[x] = obj[x]
  <2>1. age \in [Block -> Nat]
    BY DEF TypeOK
  <2> QED
    BY <1>1, <1>2, <2>1
<1>6. age[b] = 0 => obj'[b] = FromFile(b)
  BY <1>1, <1>2
<1> QED
  BY <1>1, <1>4, <1>5, <1>6

\* An idle column reads a block into its cache: its only other change may be
\* the last block identifier and that the column has come up.
LEMMA ObjectLoaded ==
    ASSUME IInv, NEW c \in Block, header[c] # NoFile, op.pc = "idle",
           status' = "up", lastBlockId' \in 0..MaxBlocks,
           UNCHANGED <<header, data, registry, links, avail, op, writes, crashes,
                       recs, last>>,
           age' \in [Block -> Nat], obj' \in [Block -> Object], age'[c] > 0,
           \A x \in Block : x # c => (age'[x] > 0 <=> age[x] > 0),
           \A x \in Block : age[x] > 0 => obj'[x] = obj[x],
           age[c] = 0 => obj'[c] = FromFile(c)
    PROVE  IInv'
<1> USE DEF IInv
<1>1. age \in [Block -> Nat]
  BY DEF TypeOK
<1>2. TypeOK'
  BY DEF TypeOK
<1>3. FilesExist' /\ RecordsIntact' /\ LastOK'
  BY DEF FilesExist, RecordsIntact, LastOK
<1>4. OpOK'
  BY DEF OpOK, Closing, Creating
<1>5. Available' = Available
  BY DEF Available
<1>6. SingleAppendPoint' /\ FreeSpaceExact'
  BY <1>1, <1>5 DEF SingleAppendPoint, FreeSpaceExact, FreeDataSpace, Available
<1>7. PositionsExact'
  <2>1. ASSUME NEW x \in Block, age[x] > 0, Covers(x) PROVE Covers(x)'
    BY <2>1 DEF Covers
  <2>2. \A b \in Available' : Covers(b)'
    BY <1>5, <2>1 DEF PositionsExact, FreeSpaceExact, Available
  <2>3. ASSUME NEW x \in Block, age'[x] > 0,
               obj'[x].state \in {"kCurrent", "kAvailable"}
        PROVE  Covers(x)'
    <3>1. CASE age[x] > 0
      BY <3>1, <2>1, <2>3 DEF PositionsExact
    <3>2. CASE ~(age[x] > 0)
      BY <3>2, <1>1, <2>3 DEF FromFile
    <3> QED
      BY <3>1, <3>2
  <2> QED
    BY <2>2, <2>3 DEF PositionsExact
<1> QED
  BY <1>2, <1>3, <1>4, <1>6, <1>7

\* selectAvailableBlockUnlocked, no block available: nothing but the operation
\* in progress changes.
LEMMA SelectNewStep ==
    ASSUME NoEviction, IInv, NEW len \in Lengths, SelectNew(len)
    PROVE  IInv'
<1> USE DEF IInv, SelectNew, BeginWrite, At, Idle, disk, memory
<1>1. TypeOK'
  <2>1. op' = [pc |-> "create", len |-> len, old |-> NoBlock, new |-> NoBlock,
               todo |-> {}]
    OBVIOUS
  <2> QED
    BY <2>1, BoundsAssumption DEF TypeOK, PC
<1>2. FilesExist'
  BY DEF FilesExist
<1>3. OpOK'
  <2>1. writes' # 0
    BY DEF TypeOK
  <2> QED
    BY <2>1 DEF OpOK, Closing, Creating, Available, NoBlock, Block
<1>4. SingleAppendPoint' /\ FreeSpaceExact' /\ RecordsIntact'
  BY DEF SingleAppendPoint, FreeSpaceExact, RecordsIntact, Available
<1>5. PositionsExact'
  BY DEF PositionsExact, Covers, Available
<1>6. LastOK'
  BY DEF LastOK
<1> QED
  BY <1>1, <1>2, <1>3, <1>4, <1>5, <1>6

\* The only available block is the one that is selected.
LEMMA TheAvailableBlock ==
    ASSUME TypeOK, SingleAppendPoint, NEW b \in Available
    PROVE  /\ BlockToClose = b
           /\ \A len \in Nat : avail[b] >= len => FirstFit(len) = b
<1>1. Available = {b}
  BY DEF SingleAppendPoint
<1>2. b \in Block /\ avail[b] \in Int
  BY AreaSizeAssumption DEF Available, TypeOK, NotAvailable
<1>3. BlockToClose = b
  BY <1>1, <1>2 DEF BlockToClose, Block
<1>4. ASSUME NEW len \in Nat, avail[b] >= len
      PROVE  FirstFit(len) = b
  BY <1>1, <1>2, <1>4 DEF FirstFit, Block
<1> QED
  BY <1>3, <1>4

\* selectAvailableBlockUnlocked finds room: the block it returns is the one
\* available block, whose object is exact.
LEMMA SelectFitStep ==
    ASSUME NoEviction, IInv, NEW len \in Lengths, SelectFit(len)
    PROVE  IInv'
<1> USE DEF IInv, SelectFit, BeginWrite, At, Idle, disk
<1>1. PICK b \in Available : avail[b] >= len
  OBVIOUS
<1>2. FirstFit(len) = b
  BY <1>1, TheAvailableBlock, LengthsAssumption, AreaSizeAssumption
<1>3. b \in Block /\ age[b] > 0 /\ header[b] # NoFile
  BY <1>1 DEF Available, FreeSpaceExact, FilesExist
<1>4. LoadBlock(b, {})
  BY <1>2
<1>5. /\ age' \in [Block -> Nat]
      /\ obj' \in [Block -> Object]
      /\ \A x \in Block : (age'[x] > 0 <=> age[x] > 0)
      /\ \A x \in Block : age[x] > 0 => obj'[x] = obj[x]
  BY <1>3, <1>4, LoadBlockStep
<1> HIDE DEF SelectFit
<1>6. /\ op' = [pc |-> "store", len |-> len, old |-> NoBlock, new |-> b, todo |-> {}]
      /\ op.pc = "idle" /\ status = "up" /\ last' = NoRecord /\ writes' = writes + 1
      /\ writes < MaxWrites
      /\ UNCHANGED <<header, data, registry, links, lastBlockId, avail, status,
                     crashes, recs>>
  BY <1>2 DEF SelectFit
<1>7. TypeOK'
  BY <1>3, <1>5, <1>6, BoundsAssumption DEF TypeOK, PC
<1>8. FilesExist'
  BY <1>5, <1>6 DEF FilesExist
<1>9. OpOK'
  <2>1. writes' # 0
    BY <1>6 DEF TypeOK
  <2>2. FreeDataSpace(obj'[b]) >= len
    BY <1>1, <1>3, <1>5 DEF FreeSpaceExact
  <2> QED
    BY <1>1, <1>3, <1>5, <1>6, <2>1, <2>2 DEF OpOK, Closing, Creating, Available,
       NoBlock, Block, SingleAppendPoint, PositionsExact, Covers
<1>10. SingleAppendPoint' /\ FreeSpaceExact' /\ RecordsIntact'
  BY <1>5, <1>6 DEF SingleAppendPoint, FreeSpaceExact, RecordsIntact, Available
<1>11. PositionsExact'
  BY <1>5, <1>6 DEF PositionsExact, Covers, Available, FreeSpaceExact
<1>12. LastOK'
  BY <1>6 DEF LastOK
<1> QED
  BY <1>7, <1>8, <1>9, <1>10, <1>11, <1>12

\* selectAvailableBlockUnlocked finds no room: the column is left with no
\* available block until the next one is in place.
LEMMA SelectNextStep ==
    ASSUME NoEviction, IInv, NEW len \in Lengths, SelectNext(len)
    PROVE  IInv'
<1> USE DEF IInv, BeginWrite, At, Idle, disk
<1>1. PICK b \in Available : avail[b] < len
  BY DEF SelectNext
<1>2. BlockToClose = b /\ Available = {b}
  BY <1>1, TheAvailableBlock DEF SingleAppendPoint
<1>3. b \in Block /\ age[b] > 0 /\ header[b] # NoFile
  BY <1>1 DEF Available, FreeSpaceExact, FilesExist
<1>4. LoadBlock(b, {})
  BY <1>2 DEF SelectNext
<1>5. /\ age' \in [Block -> Nat]
      /\ obj' \in [Block -> Object]
      /\ \A x \in Block : (age'[x] > 0 <=> age[x] > 0)
      /\ \A x \in Block : age[x] > 0 => obj'[x] = obj[x]
  BY <1>3, <1>4, LoadBlockStep
<1>6. /\ op' = [pc |-> "scan", len |-> len, old |-> b, new |-> NoBlock,
                todo |-> NextBlockIds(b)]
      /\ op.pc = "idle" /\ status = "up" /\ last' = NoRecord /\ writes' = writes + 1
      /\ writes < MaxWrites /\ lastBlockId < MaxBlocks
      /\ avail' = [avail EXCEPT ![b] = NotAvailable]
      /\ UNCHANGED <<header, data, registry, links, lastBlockId, status,
                     crashes, recs>>
  BY <1>2 DEF SelectNext
<1>7. NextBlockIds(b) \subseteq 1..Len(links) /\ NextBlockIds(b) \subseteq Nat
  <2>1. Len(links) \in Nat
    BY DEF TypeOK
  <2> QED
    BY <2>1 DEF NextBlockIds
<1>8. Available' = {}
  BY <1>2, <1>6 DEF Available, TypeOK
<1>9. TypeOK'
  BY <1>3, <1>5, <1>6, <1>7, BoundsAssumption DEF TypeOK, PC
<1>10. FilesExist'
  BY <1>5, <1>6 DEF FilesExist
<1>11. OpOK'
  <2>1. writes' # 0
    BY <1>6 DEF TypeOK
  <2> QED
    BY <1>3, <1>5, <1>6, <1>7, <1>8, <2>1 DEF OpOK, Closing, Creating
<1>12. SingleAppendPoint' /\ FreeSpaceExact' /\ RecordsIntact'
  BY <1>6, <1>8 DEF SingleAppendPoint, FreeSpaceExact, RecordsIntact
<1>13. PositionsExact'
  BY <1>5, <1>6, <1>8 DEF PositionsExact, Covers
<1>14. LastOK'
  BY <1>6 DEF LastOK
<1> QED
  BY <1>9, <1>10, <1>11, <1>12, <1>13, <1>14

\* One candidate of createOrGetNextBlock: it is only taken in a state that a
\* block read from its file never has, so its position is exact.
LEMMA ScanNextBlockStep ==
    ASSUME NoEviction, IInv, ScanNextBlock
    PROVE  IInv'
<1> DEFINE i == CHOOSE j \in op.todo : \A k \in op.todo : k <= j
           b == links[i][2]
           o == LoadedObject(b)
<1> USE DEF IInv, At, disk, history
<1>1. /\ op.pc = "scan" /\ status = "up" /\ op.todo # {}
      /\ LoadBlock(b, {op.old})
      /\ op' = IF o.state \in {"kCurrent", "kAvailable"} /\ FreeDataSpace(o) >= op.len
               THEN [op EXCEPT !.pc = "digest", !.new = b, !.todo = {}]
               ELSE [op EXCEPT !.todo = @ \ {i}]
      /\ UNCHANGED <<header, data, registry, links, lastBlockId, avail, status,
                     writes, crashes, recs, last>>
  BY DEF ScanNextBlock
<1>2. i \in op.todo
  <2>0. Len(links) \in Nat
    BY DEF TypeOK
  <2>1. op.todo \subseteq 0..Len(links)
    BY <1>1, <2>0 DEF OpOK
  <2>2. \E j \in op.todo : \A k \in op.todo : k <= j
    BY <1>1, <2>0, <2>1, NatMax
  <2> QED
    BY <2>2
<1>3. i \in 1..Len(links)
  BY <1>1, <1>2 DEF OpOK
<1>4. PICK c \in Block : c = b /\ header[c] # NoFile
  <2>1. links[i] \in Block \X Block
    BY <1>3 DEF TypeOK
  <2>2. b \in Block
    BY <2>1
  <2>3. header[b] # NoFile
    BY <1>3 DEF FilesExist
  <2> QED
    BY <2>2, <2>3
<1> HIDE DEF i, b
<1>5. /\ age' \in [Block -> Nat]
      /\ obj' \in [Block -> Object]
      /\ age'[c] > 0
      /\ \A x \in Block : x # c => (age'[x] > 0 <=> age[x] > 0)
      /\ \A x \in Block : age[x] > 0 => obj'[x] = obj[x]
      /\ age[c] = 0 => obj'[c] = FromFile(c)
  BY <1>1, <1>4, LoadBlockStep
<1>6. age[c] \in Nat /\ age \in [Block -> Nat]
  BY <1>4 DEF TypeOK
<1>7. Available' = {} /\ Available = {}
  BY <1>1 DEF OpOK, Available
<1>8. obj'[c] = o
  BY <1>5, <1>6, <1>4 DEF LoadedObject
<1>9. /\ op'.pc \in {"scan", "digest"} /\ op'.old = op.old /\ op'.len = op.len
      /\ op' \in [pc: PC, len: Lengths \cup {0}, old: Block \cup {NoBlock},
                  new: Block \cup {NoBlock}, todo: SUBSET Nat]
      /\ op'.todo \subseteq op.todo
      /\ op'.pc = "digest" => /\ op'.new = c
                              /\ o.state \in {"kCurrent", "kAvailable"}
  <2> HIDE DEF o
  <2> QED
    BY <1>1, <1>4 DEF TypeOK, PC
<1>10. PositionsExact'
  <2> SUFFICES ASSUME NEW x \in Block, age'[x] > 0,
                      obj'[x].state \in {"kCurrent", "kAvailable"}
               PROVE  Covers(x)'
    BY <1>7 DEF PositionsExact
  <2>1. CASE age[x] > 0
    BY <2>1, <1>1, <1>5 DEF PositionsExact, Covers
  <2>2. CASE ~(age[x] > 0)
    <3>1. x = c /\ age[c] = 0
      BY <2>2, <1>5, <1>6
    <3>2. obj'[x].state = "kCreating"
      BY <3>1, <1>5 DEF FromFile
    <3> QED
      BY <3>2
  <2> QED
    BY <2>1, <2>2
<1>11. TypeOK'
  BY <1>1, <1>5, <1>9 DEF TypeOK
<1>12. FilesExist'
  BY <1>1, <1>4, <1>5 DEF FilesExist
<1>13. OpOK'
  <2>1. op'.pc = "digest" => op'.new = c /\ Covers(c)'
    <3>1. op'.pc = "digest" => obj'[c].state \in {"kCurrent", "kAvailable"}
      BY <1>8, <1>9
    <3> QED
      BY <1>4, <1>5, <1>9, <1>10, <3>1 DEF PositionsExact
  <2>2. op.old \in Block /\ age'[op.old] > 0
    BY <1>1, <1>5 DEF OpOK, Closing
  <2>3. op'.pc = "digest" => FreeDataSpace(obj'[c]) >= op.len
    <3> HIDE DEF o
    <3> QED
      BY <1>1, <1>8 DEF TypeOK
  <2> QED
    BY <1>1, <1>4, <1>5, <1>7, <1>9, <2>1, <2>2, <2>3 DEF OpOK, Closing, Creating,
       Covers
<1>14. SingleAppendPoint' /\ FreeSpaceExact' /\ RecordsIntact'
  BY <1>1, <1>7 DEF SingleAppendPoint, FreeSpaceExact, RecordsIntact
<1>15. LastOK'
  BY <1>1 DEF LastOK
<1> QED
  BY <1>10, <1>11, <1>12, <1>13, <1>14, <1>15

\* createOrGetNextBlock has run out of candidates.
LEMMA ScanEndsStep ==
    ASSUME IInv, ScanEnds
    PROVE  IInv'
<1> USE DEF IInv
<1>1. /\ op.pc = "scan" /\ status = "up" /\ op' = [op EXCEPT !.pc = "create"]
      /\ UNCHANGED <<header, data, registry, links, lastBlockId, age, obj, avail,
                     status, writes, crashes, recs, last>>
  BY DEF ScanEnds, At, disk, memory, history
<1>2. TypeOK'
  BY <1>1 DEF TypeOK, PC
<1>3. OpOK'
  BY <1>1 DEF OpOK, Closing, Creating, Available, TypeOK
<1>4. FilesExist' /\ SingleAppendPoint' /\ FreeSpaceExact' /\ RecordsIntact'
  BY <1>1 DEF FilesExist, SingleAppendPoint, FreeSpaceExact, RecordsIntact, Available
<1>5. PositionsExact' /\ LastOK'
  BY <1>1 DEF PositionsExact, Covers, Available, LastOK
<1> QED
  BY <1>2, <1>3, <1>4, <1>5

\* createBlock makes a new file: no record lies in it, so position 0 is exact.
LEMMA CreateBlockFileStep ==
    ASSUME NoEviction, IInv, CreateBlockFile
    PROVE  IInv'
<1> USE DEF IInv
<1>1. PICK n \in Block : n = lastBlockId + 1
  <2>1. lastBlockId < MaxBlocks
    BY DEF CreateBlockFile, At, OpOK
  <2>2. lastBlockId \in 0..MaxBlocks
    BY DEF TypeOK
  <2> QED
    BY <2>1, <2>2, BoundsAssumption DEF Block
<1> DEFINE o == [state |-> IF op.old = NoBlock THEN "kCurrent" ELSE "kCreating",
                 pos |-> 0]
<1>2. /\ op.pc = "create" /\ status = "up" /\ header[n] = NoFile
      /\ lastBlockId' = n
      /\ header' = [header EXCEPT ![n] = 0]
      /\ age' = Emplace(age, n, {op.old})
      /\ obj' = Objects(age, age', n, o)
      /\ op' = [op EXCEPT !.pc = "record", !.new = n]
      /\ UNCHANGED <<data, registry, links, avail, status, writes, crashes, recs, last>>
  BY <1>1 DEF CreateBlockFile, At, history
<1>3. age \in [Block -> Nat] /\ age[n] = 0
  BY <1>2 DEF TypeOK, FilesExist
<1>4. /\ age' \in [Block -> Nat] /\ age'[n] > 0
      /\ \A x \in Block : x # n => (age'[x] > 0 <=> age[x] > 0)
  BY <1>2, <1>3, EmplaceKeeps
<1>5. o \in Object /\ Unloaded \in Object
  BY AreaSizeAssumption DEF Object, ColumnDataBlockState, Unloaded
<1>6. \A x \in Block : obj'[x] = IF age'[x] = 0 THEN Unloaded
                               ELSE IF x = n /\ age[x] = 0 THEN o ELSE obj[x]
  BY <1>2 DEF Objects
<1>7. /\ obj' \in [Block -> Object]
      /\ obj'[n] = o
      /\ \A x \in Block : age[x] > 0 => obj'[x] = obj[x]
  <2>1. obj' \in [Block -> Object]
    BY <1>2, <1>5 DEF Objects, TypeOK
  <2> QED
    BY <1>3, <1>4, <1>6, <2>1
<1> HIDE DEF o
<1>8. \A r \in recs : r.block # n /\ r.block \in Block
  BY <1>2 DEF FilesExist, TypeOK, Record
<1>9. TypeOK'
  <2>1. n \in 0..MaxBlocks
    BY BoundsAssumption DEF Block
  <2>2. header' \in [Block -> {NoFile} \cup 0..AreaSize]
    BY <1>2, AreaSizeAssumption DEF TypeOK
  <2> QED
    BY <1>1, <1>2, <1>4, <1>7, <2>1, <2>2 DEF TypeOK, PC
<1>10. FilesExist'
  <2>1. \A x \in Block : header[x] # NoFile => header'[x] # NoFile
    BY <1>2 DEF TypeOK, NoFile
  <2>2. header'[n] # NoFile
    BY <1>2 DEF TypeOK, NoFile
  <2>3. \A i \in 1..Len(links) : links[i][2] \in Block
    BY DEF TypeOK
  <2> QED
    BY <1>2, <1>4, <1>8, <2>1, <2>2, <2>3 DEF FilesExist
<1>11. Available' = {} /\ Available = {}
  BY <1>2 DEF OpOK, Available
<1>12. OpOK'
  <2>1. Covers(n)'
    BY <1>2, <1>8 DEF Covers
  <2>2. op.old \in Block => age'[op.old] > 0
    BY <1>4 DEF OpOK
  <2>3. /\ op'.pc = "record" /\ op'.new = n /\ op'.old = op.old /\ op'.len = op.len
        /\ op.len \in Lengths
    BY <1>2 DEF TypeOK, OpOK
  <2>4. FreeDataSpace(obj'[n]) >= op.len
    <3>1. obj'[n].pos = 0
      BY <1>7 DEF o
    <3>2. op.len \in 1..AreaSize
      BY <2>3, LengthsAssumption
    <3> QED
      BY <3>1, <3>2, AreaSizeAssumption DEF FreeDataSpace
  <2> QED
    BY <1>2, <1>4, <1>11, <2>1, <2>2, <2>3, <2>4 DEF OpOK, Closing, Creating, Covers
<1>13. SingleAppendPoint' /\ FreeSpaceExact' /\ RecordsIntact'
  BY <1>2, <1>11 DEF SingleAppendPoint, FreeSpaceExact, RecordsIntact
<1>14. PositionsExact'
  <2> SUFFICES ASSUME NEW x \in Block, age'[x] > 0,
                      obj'[x].state \in {"kCurrent", "kAvailable"}
               PROVE  Covers(x)'
    BY <1>11 DEF PositionsExact
  <2>1. CASE x = n
    BY <2>1, <1>2, <1>8 DEF Covers
  <2>2. CASE x # n
    <3>1. age[x] > 0 /\ obj'[x] = obj[x]
      BY <2>2, <1>4, <1>7
    <3> QED
      BY <3>1, <1>2 DEF PositionsExact, Covers
  <2> QED
    BY <2>1, <2>2
<1>15. LastOK'
  BY <1>2 DEF LastOK
<1> QED
  BY <1>9, <1>10, <1>12, <1>13, <1>14, <1>15

\* Steps that only give up the operation, whatever else they use up.
LEMMA GiveUp ==
    ASSUME IInv, op' = Idle, lastBlockId' \in 0..MaxBlocks,
           data' = data \/ RecordsIntact',
           data' \in [Block -> [Offset -> {Blank, Torn} \cup 1..MaxWrites]],
           UNCHANGED <<header, registry, links, age, obj, avail, status, writes,
                       crashes, recs, last>>
    PROVE  IInv'
<1> USE DEF IInv
<1>1. op' = [pc |-> "idle", len |-> 0, old |-> NoBlock, new |-> NoBlock, todo |-> {}]
  BY DEF Idle
<1>2. TypeOK'
  BY <1>1 DEF TypeOK, PC
<1>3. OpOK'
  BY <1>1 DEF OpOK, Closing, Creating, NoBlock, Block
<1>4. FilesExist' /\ SingleAppendPoint' /\ FreeSpaceExact' /\ RecordsIntact'
  BY DEF FilesExist, SingleAppendPoint, FreeSpaceExact, RecordsIntact, Available
<1>5. PositionsExact' /\ LastOK'
  BY DEF PositionsExact, Covers, Available, LastOK
<1> QED
  BY <1>2, <1>3, <1>4, <1>5

\* createBlock meets a file that an earlier process left: the write throws.
LEMMA CreateBlockFileFailsStep ==
    ASSUME IInv, CreateBlockFileFails
    PROVE  IInv'
<1>1. lastBlockId + 1 \in 0..MaxBlocks
  BY BoundsAssumption DEF CreateBlockFileFails, At, IInv, OpOK, TypeOK
<1> QED
  BY <1>1, GiveUp DEF CreateBlockFileFails, disk, history, IInv, TypeOK

\* createOrGetNextBlock without the previous block in the cache: the write throws.
LEMMA PrevDigestMissingStep ==
    ASSUME IInv, At("digest"), PrevDigestMissing
    PROVE  IInv'
BY GiveUp DEF PrevDigestMissing, disk, memory, history, IInv, TypeOK

\* Bytes written from a position on that covers the records leave them alone.
LEMMA OverwrittenKeeps ==
    ASSUME TypeOK, RecordsIntact, NEW b \in Block, Covers(b),
           NEW len, NEW t \in {Blank, Torn} \cup 1..MaxWrites,
           data' = Overwritten(b, obj[b].pos, len, t)
    PROVE  /\ data' \in [Block -> [Offset -> {Blank, Torn} \cup 1..MaxWrites]]
           /\ \A r \in recs : \A p \in Offset :
                 r.pos <= p /\ p < r.pos + r.len => data'[r.block][p] = r.tag
<1>1. \A q \in Offset : data[b][q] \in {Blank, Torn} \cup 1..MaxWrites
  BY DEF TypeOK
<1> DEFINE f == [q \in Offset |-> IF obj[b].pos <= q /\ q < obj[b].pos + len THEN t
                                 ELSE data[b][q]]
<1>2. data' = [data EXCEPT ![b] = f]
  BY DEF Overwritten
<1>3. f \in [Offset -> {Blank, Torn} \cup 1..MaxWrites]
  BY <1>1
<1>4. data' \in [Block -> [Offset -> {Blank, Torn} \cup 1..MaxWrites]]
  <2> HIDE DEF f
  <2> QED
    BY <1>2, <1>3 DEF TypeOK
<1>5. ASSUME NEW r \in recs, NEW p \in Offset, r.pos <= p, p < r.pos + r.len
      PROVE  data'[r.block][p] = r.tag
  <2>1. r.block \in Block /\ data[r.block][p] = r.tag
    BY <1>5 DEF RecordsIntact, TypeOK, Record
  <2>2. CASE r.block # b
    BY <1>2, <2>1, <2>2 DEF TypeOK
  <2>3. CASE r.block = b
    <3>1. r.pos + r.len <= obj[b].pos
      BY <2>3 DEF Covers
    <3>2. r.pos \in Int /\ r.len \in Int /\ obj[b].pos \in Int /\ p \in Int
      <4>1. r \in Record /\ obj[b] \in Object
        BY DEF TypeOK
      <4> QED
        BY <4>1 DEF Record, Object, Offset
    <3>3. ~(obj[b].pos <= p)
      BY <3>1, <3>2, <1>5
    <3>4. data'[b] = f
      BY <1>2 DEF TypeOK
    <3> QED
      BY <2>1, <2>3, <3>3, <3>4
  <2> QED
    BY <2>2, <2>3
<1> QED
  BY <1>4, <1>5

\* A write that fails halfway damages only bytes past every record.
LEMMA StoreRecordFailsStep ==
    ASSUME IInv, StoreRecordFails
    PROVE  IInv'
<1> USE DEF IInv
<1>1. PICK b \in Block : b = op.new /\ Covers(b)
  BY DEF StoreRecordFails, At, OpOK, Creating
<1>2. /\ data' = Overwritten(b, obj[b].pos, op.len, Torn) /\ op' = Idle
      /\ UNCHANGED <<header, registry, links, lastBlockId, age, obj, avail, status,
                     writes, crashes, recs, last>>
  BY <1>1 DEF StoreRecordFails, memory, history
<1>3. /\ data' \in [Block -> [Offset -> {Blank, Torn} \cup 1..MaxWrites]]
      /\ \A r \in recs : \A p \in Offset :
            r.pos <= p /\ p < r.pos + r.len => data'[r.block][p] = r.tag
  BY <1>1, <1>2, OverwrittenKeeps
<1>4. RecordsIntact'
  BY <1>2, <1>3 DEF RecordsIntact
<1>5. lastBlockId' \in 0..MaxBlocks
  BY <1>2 DEF TypeOK
<1> QED
  BY <1>2, <1>3, <1>4, <1>5, GiveUp

\* The new block is recorded; as a first block it becomes available at once.
LEMMA RecordBlockStep ==
    ASSUME IInv, RecordBlock
    PROVE  IInv'
<1> USE DEF IInv
<1>1. PICK n \in Block : n = op.new /\ age[n] > 0 /\ Covers(n)
  BY DEF RecordBlock, At, OpOK, Creating
<1>2. /\ op.pc = "record" /\ status = "up"
      /\ registry' = [registry EXCEPT ![n] = [state |-> "kCreating", prev |-> op.old]]
      /\ UNCHANGED <<header, data, links, lastBlockId, age, obj, status, writes,
                     crashes, recs, last>>
  BY <1>1 DEF RecordBlock, At, history
<1>3. \/ /\ op.old = NoBlock
         /\ avail' = [avail EXCEPT ![n] = FreeDataSpace(obj[n])]
         /\ op' = [op EXCEPT !.pc = "store"]
      \/ /\ op.old # NoBlock
         /\ op' = [op EXCEPT !.pc = "link"]
         /\ avail' = avail
  BY <1>1 DEF RecordBlock
<1>4. Available = {} /\ op.old \in Block \cup {NoBlock}
  BY <1>2 DEF OpOK, TypeOK
<1>5. FreeDataSpace(obj[n]) \in 0..AreaSize
  <2>1. obj[n] \in Object
    BY DEF TypeOK
  <2> QED
    BY <2>1, AreaSizeAssumption DEF FreeDataSpace, Object
<1>6. /\ op'.new = n /\ op'.old = op.old /\ op'.len = op.len
      /\ op'.pc = IF op.old = NoBlock THEN "store" ELSE "link"
      /\ op' \in [pc: PC, len: Lengths \cup {0}, old: Block \cup {NoBlock},
                  new: Block \cup {NoBlock}, todo: SUBSET Nat]
  BY <1>1, <1>3 DEF TypeOK, PC
<1>7. /\ avail' \in [Block -> {NotAvailable} \cup 0..AreaSize]
      /\ Available' = IF op.old = NoBlock THEN {n} ELSE {}
      /\ op.old = NoBlock => avail'[n] = FreeDataSpace(obj[n])
  <2>1. avail \in [Block -> {NotAvailable} \cup 0..AreaSize]
    BY DEF TypeOK
  <2>2. \A x \in Block : avail[x] = NotAvailable
    BY <1>4 DEF Available
  <2>3. FreeDataSpace(obj[n]) # NotAvailable
    BY <1>5, AreaSizeAssumption DEF NotAvailable
  <2> QED
    BY <1>3, <1>5, <2>1, <2>2, <2>3 DEF Available
<1>8. TypeOK'
  <2>1. registry' \in [Block -> [state: ColumnDataBlockState, prev: Block \cup {NoBlock}]]
    BY <1>2, <1>4 DEF TypeOK, ColumnDataBlockState
  <2> QED
    BY <1>2, <1>6, <1>7, <2>1 DEF TypeOK
<1>9. OpOK'
  <2>1. op.len \in Lengths /\ op.old \in Block => age[op.old] > 0
    BY <1>2 DEF OpOK
  <2>2. op.len \in Lengths
    BY <1>2 DEF OpOK
  <2> QED
    BY <1>1, <1>2, <1>4, <1>6, <1>7, <2>1, <2>2 DEF OpOK, Closing, Creating, Covers
<1>10. FilesExist' /\ RecordsIntact' /\ LastOK'
  BY <1>2 DEF FilesExist, RecordsIntact, LastOK
<1>11. SingleAppendPoint' /\ FreeSpaceExact'
  BY <1>1, <1>2, <1>7 DEF SingleAppendPoint, FreeSpaceExact
<1>12. PositionsExact'
  BY <1>1, <1>2, <1>7 DEF PositionsExact, Covers
<1> QED
  BY <1>8, <1>9, <1>10, <1>11, <1>12

\* addNextBlock: both blocks of the link have a file.
LEMMA AddNextBlockStep ==
    ASSUME IInv, AddNextBlock
    PROVE  IInv'
<1> USE DEF IInv
<1>1. /\ op.pc = "link" /\ status = "up" /\ op' = [op EXCEPT !.pc = "digest"]
      /\ links' = Append(links, <<op.new, op.old>>)
      /\ UNCHANGED <<header, data, registry, lastBlockId, age, obj, avail,
                     status, writes, crashes, recs, last>>
  BY DEF AddNextBlock, At, memory, history
<1>2. op.new \in Block /\ op.old \in Block /\ header[op.old] # NoFile
  BY <1>1 DEF OpOK, Closing, Creating, FilesExist
<1>3. /\ links' \in Seq(Block \X Block)
      /\ Len(links') = Len(links) + 1 /\ Len(links) \in Nat
      /\ \A i \in 1..Len(links) : links'[i] = links[i]
      /\ links'[Len(links) + 1] = <<op.new, op.old>>
  BY <1>1, <1>2 DEF TypeOK
<1>4. TypeOK'
  BY <1>1, <1>3 DEF TypeOK, PC
<1>5. OpOK'
  BY <1>1 DEF OpOK, Closing, Creating, Available, Covers, TypeOK
<1>6. FilesExist'
  <2>1. ASSUME NEW i \in 1..Len(links')
        PROVE  header[links'[i][2]] # NoFile
    <3>1. CASE i \in 1..Len(links)
      BY <3>1, <1>3 DEF FilesExist
    <3>2. CASE i = Len(links) + 1
      BY <3>2, <1>2, <1>3
    <3> QED
      BY <3>1, <3>2, <1>3
  <2> QED
    BY <1>1, <2>1 DEF FilesExist
<1>7. SingleAppendPoint' /\ FreeSpaceExact' /\ RecordsIntact'
  BY <1>1 DEF SingleAppendPoint, FreeSpaceExact, RecordsIntact, Available
<1>8. PositionsExact' /\ LastOK'
  BY <1>1 DEF PositionsExact, Covers, Available, LastOK
<1> QED
  BY <1>4, <1>5, <1>6, <1>7, <1>8

\* The digest of the previous block: only the order of the cache changes.
LEMMA TakePrevDigestStep ==
    ASSUME IInv, At("digest"), HavePrevDigest, TakePrevDigest
    PROVE  IInv'
<1> USE DEF IInv
<1>1. /\ op.pc = "digest" /\ status = "up" /\ op' = [op EXCEPT !.pc = "closing"]
      /\ age' = age \/ \E b \in Block : age' = Touch(age, b) /\ age[b] > 0
      /\ UNCHANGED <<header, data, registry, links, lastBlockId, obj, avail,
                     status, writes, crashes, recs, last>>
  BY DEF TakePrevDigest, HavePrevDigest, At, disk, history, Cached
<1>2. /\ age' \in [Block -> Nat]
      /\ \A x \in Block : age'[x] > 0 <=> age[x] > 0
  <2>1. age \in [Block -> Nat]
    BY DEF TypeOK
  <2>2. ASSUME NEW b \in Block, age[b] > 0
        PROVE  /\ Touch(age, b) \in [Block -> Nat]
               /\ \A x \in Block : Touch(age, b)[x] > 0 <=> age[x] > 0
    BY <2>1, <2>2 DEF Touch
  <2> QED
    BY <1>1, <2>1, <2>2
<1>3. TypeOK'
  BY <1>1, <1>2 DEF TypeOK, PC
<1>4. OpOK'
  BY <1>1, <1>2 DEF OpOK, Closing, Creating, Available, Covers, TypeOK
<1>5. FilesExist' /\ SingleAppendPoint' /\ RecordsIntact' /\ LastOK'
  BY <1>1, <1>2 DEF FilesExist, SingleAppendPoint, RecordsIntact, Available, LastOK
<1>6. FreeSpaceExact' /\ PositionsExact'
  BY <1>1, <1>2 DEF FreeSpaceExact, PositionsExact, Covers, Available
<1> QED
  BY <1>3, <1>4, <1>5, <1>6

\* finalize marks the block as closing.
LEMMA FinalizeClosingStep ==
    ASSUME IInv, FinalizeClosing
    PROVE  IInv'
<1> USE DEF IInv
<1>1. PICK b \in Block : b = op.old
  BY DEF FinalizeClosing, At, OpOK, Closing
<1>2. /\ op.pc = "closing" /\ status = "up" /\ op' = [op EXCEPT !.pc = "header"]
      /\ obj' = [obj EXCEPT ![b].state = "kClosing"]
      /\ registry' = [registry EXCEPT ![b].state = "kClosing"]
      /\ UNCHANGED <<header, data, links, lastBlockId, age, avail,
                     status, writes, crashes, recs, last>>
  BY <1>1 DEF FinalizeClosing, At, history
<1>3. /\ obj' \in [Block -> Object]
      /\ \A x \in Block : obj'[x].pos = obj[x].pos
      /\ \A x \in Block : x # b => obj'[x] = obj[x]
      /\ obj'[b].state = "kClosing"
  BY <1>2 DEF TypeOK, Object, ColumnDataBlockState
<1>4. registry' \in [Block -> [state: ColumnDataBlockState, prev: Block \cup {NoBlock}]]
  <2>1. registry \in [Block -> [state: ColumnDataBlockState, prev: Block \cup {NoBlock}]]
    BY DEF TypeOK
  <2>2. "kClosing" \in ColumnDataBlockState
    BY DEF ColumnDataBlockState
  <2>3. [registry[b] EXCEPT !.state = "kClosing"]
          \in [state: ColumnDataBlockState, prev: Block \cup {NoBlock}]
    BY <2>1, <2>2
  <2> QED
    BY <1>2, <2>1, <2>3
<1>5. TypeOK'
  BY <1>2, <1>3, <1>4 DEF TypeOK, PC
<1>6. OpOK'
  BY <1>2, <1>3 DEF OpOK, Closing, Creating, Available, Covers, TypeOK, FreeDataSpace
<1>7. FilesExist' /\ SingleAppendPoint' /\ RecordsIntact' /\ LastOK'
  BY <1>2 DEF FilesExist, SingleAppendPoint, RecordsIntact, Available, LastOK
<1>8. FreeSpaceExact' /\ PositionsExact'
  BY <1>2, <1>3 DEF FreeSpaceExact, FreeDataSpace, PositionsExact, Covers, Available
<1> QED
  BY <1>5, <1>6, <1>7, <1>8

\* finalize writes the header.
LEMMA FinalizeHeaderStep ==
    ASSUME IInv, FinalizeHeader
    PROVE  IInv'
<1> USE DEF IInv
<1>1. PICK b \in Block : b = op.old
  BY DEF FinalizeHeader, At, OpOK, Closing
<1>2. /\ op.pc = "header" /\ status = "up" /\ op' = [op EXCEPT !.pc = "closed"]
      /\ header' = [header EXCEPT ![b] = obj[b].pos]
      /\ UNCHANGED <<data, registry, links, lastBlockId, age, obj, avail,
                     status, writes, crashes, recs, last>>
  BY <1>1 DEF FinalizeHeader, At, memory, history
<1>3. obj[b].pos \in 0..AreaSize /\ obj[b].pos # NoFile
  <2>1. obj[b] \in Object
    BY DEF TypeOK
  <2> QED
    BY <2>1, AreaSizeAssumption DEF Object, NoFile
<1>4. \A x \in Block : header[x] # NoFile => header'[x] # NoFile
  BY <1>2, <1>3 DEF TypeOK
<1>5. TypeOK'
  BY <1>2, <1>3 DEF TypeOK, PC
<1>6. OpOK'
  BY <1>2 DEF OpOK, Closing, Creating, Available, Covers, TypeOK
<1>7. FilesExist'
  <2>1. \A r \in recs : r.block \in Block
    BY DEF TypeOK, Record
  <2>2. \A i \in 1..Len(links) : links[i][2] \in Block
    BY DEF TypeOK
  <2> QED
    BY <1>2, <1>4, <2>1, <2>2 DEF FilesExist
<1>8. SingleAppendPoint' /\ FreeSpaceExact' /\ RecordsIntact'
  BY <1>2 DEF SingleAppendPoint, FreeSpaceExact, RecordsIntact, Available
<1>9. PositionsExact' /\ LastOK'
  BY <1>2 DEF PositionsExact, Covers, Available, LastOK
<1> QED
  BY <1>5, <1>6, <1>7, <1>8, <1>9

\* finalize is done, and the next block becomes the one available block.
LEMMA FinalizeClosedStep ==
    ASSUME IInv, FinalizeClosed
    PROVE  IInv'
<1> USE DEF IInv
<1>1. PICK b \in Block : b = op.old
  BY DEF FinalizeClosed, At, OpOK, Closing
<1>2. PICK n \in Block : n = op.new /\ age[n] > 0 /\ Covers(n)
  BY DEF FinalizeClosed, At, OpOK, Creating
<1>3. /\ op.pc = "closed" /\ status = "up" /\ op' = [op EXCEPT !.pc = "store"]
      /\ obj' = [obj EXCEPT ![b].state = "kClosed"]
      /\ registry' = [registry EXCEPT ![b].state = "kClosed"]
      /\ avail' = [avail EXCEPT ![b] = NotAvailable, ![n] = FreeDataSpace(obj[n])]
      /\ UNCHANGED <<header, data, links, lastBlockId, age,
                     status, writes, crashes, recs, last>>
  BY <1>1, <1>2 DEF FinalizeClosed, At, history
<1>4. /\ obj' \in [Block -> Object]
      /\ \A x \in Block : obj'[x].pos = obj[x].pos
      /\ \A x \in Block : x # b => obj'[x] = obj[x]
      /\ obj'[b].state = "kClosed"
  BY <1>3 DEF TypeOK, Object, ColumnDataBlockState
<1>5. registry' \in [Block -> [state: ColumnDataBlockState, prev: Block \cup {NoBlock}]]
  <2>1. registry \in [Block -> [state: ColumnDataBlockState, prev: Block \cup {NoBlock}]]
    BY DEF TypeOK
  <2>2. "kClosed" \in ColumnDataBlockState
    BY DEF ColumnDataBlockState
  <2>3. [registry[b] EXCEPT !.state = "kClosed"]
          \in [state: ColumnDataBlockState, prev: Block \cup {NoBlock}]
    BY <2>1, <2>2
  <2> QED
    BY <1>3, <2>1, <2>3
<1>6. FreeDataSpace(obj[n]) \in 0..AreaSize /\ FreeDataSpace(obj[n]) # NotAvailable
  <2>1. obj[n] \in Object
    BY DEF TypeOK
  <2> QED
    BY <2>1, AreaSizeAssumption DEF FreeDataSpace, Object, NotAvailable
<1>7. /\ avail' \in [Block -> {NotAvailable} \cup 0..AreaSize]
      /\ Available' = {n}
      /\ avail'[n] = FreeDataSpace(obj[n])
  <2>1. avail \in [Block -> {NotAvailable} \cup 0..AreaSize]
    BY DEF TypeOK
  <2>2. \A x \in Block : avail[x] = NotAvailable
    BY <1>3 DEF Available, OpOK
  <2> QED
    BY <1>3, <1>6, <2>1, <2>2 DEF Available
<1>8. TypeOK'
  BY <1>3, <1>4, <1>5, <1>7 DEF TypeOK, PC
<1>9. Covers(n)'
  BY <1>2, <1>3, <1>4 DEF Covers
<1>10. OpOK'
  <2>1. op'.new = n /\ op'.pc = "store" /\ op'.old = op.old /\ op'.len = op.len
    BY <1>2, <1>3 DEF TypeOK
  <2>2. op.len \in Lengths /\ (op.old \in Block => age[op.old] > 0)
    BY <1>3 DEF OpOK
  <2>3. FreeDataSpace(obj'[n]) >= op.len
    BY <1>2, <1>3, <1>4 DEF OpOK, Creating, FreeDataSpace
  <2> QED
    BY <1>2, <1>3, <1>7, <1>9, <2>1, <2>2, <2>3 DEF OpOK, Closing, Creating, Covers
<1>11. FilesExist' /\ RecordsIntact' /\ LastOK'
  BY <1>3 DEF FilesExist, RecordsIntact, LastOK
<1>12. SingleAppendPoint' /\ FreeSpaceExact'
  BY <1>2, <1>3, <1>4, <1>7 DEF SingleAppendPoint, FreeSpaceExact, FreeDataSpace
<1>13. PositionsExact'
  BY <1>2, <1>3, <1>4, <1>7, <1>9 DEF PositionsExact, Covers
<1> QED
  BY <1>8, <1>10, <1>11, <1>12, <1>13

\* The record is stored past every other record of its block, and the position
\* and the free space move past it.
LEMMA StoreRecordStep ==
    ASSUME IInv, StoreRecord
    PROVE  IInv'
<1> USE DEF IInv
<1>1. PICK b \in Block : b = op.new /\ age[b] > 0 /\ Covers(b) /\ Available = {b}
  BY DEF StoreRecord, At, OpOK, Creating
<1> DEFINE p == obj[b].pos
           r == [block |-> b, pos |-> p, len |-> op.len, tag |-> writes]
<1>2. /\ op.pc = "store" /\ status = "up" /\ op' = Idle
      /\ p + op.len <= AreaSize
      /\ data' = Overwritten(b, p, op.len, writes)
      /\ obj' = [obj EXCEPT ![b].pos = p + op.len]
      /\ avail' = [avail EXCEPT ![b] = AreaSize - (p + op.len)]
      /\ recs' = recs \cup {r}
      /\ last' = r
      /\ UNCHANGED <<header, registry, links, lastBlockId, age, status, writes, crashes>>
  BY <1>1 DEF StoreRecord, At, Fits
<1>3. PICK q \in 0..AreaSize : q = p
  BY DEF TypeOK, Object
<1>4. PICK len \in 1..AreaSize : len = op.len
  BY <1>2, LengthsAssumption DEF OpOK
<1>5. writes \in 1..MaxWrites
  BY <1>2 DEF OpOK, TypeOK
<1> HIDE DEF p, r
<1>6. PICK n \in Record : n = r
  <2>1. q \in Offset
    BY <1>2, <1>3, <1>4, AreaSizeAssumption DEF Offset
  <2> QED
    BY <1>3, <1>4, <1>5, <2>1 DEF r, Record
<1>7. n.block = b /\ n.pos = q /\ n.len = len /\ n.tag = writes /\ q + len <= AreaSize
  BY <1>2, <1>3, <1>4, <1>6 DEF r
<1>8. /\ data' = Overwritten(b, q, len, writes)
      /\ obj' = [obj EXCEPT ![b].pos = q + len]
      /\ avail' = [avail EXCEPT ![b] = AreaSize - (q + len)]
      /\ recs' = recs \cup {n}
      /\ last' = n
      /\ op' = [pc |-> "idle", len |-> 0, old |-> NoBlock, new |-> NoBlock, todo |-> {}]
  BY <1>2, <1>3, <1>4, <1>6 DEF Idle
<1>9. /\ q + len \in 0..AreaSize /\ AreaSize - (q + len) \in 0..AreaSize
      /\ AreaSize - (q + len) # NotAvailable
  BY <1>7, AreaSizeAssumption DEF NotAvailable
<1>10. /\ obj' \in [Block -> Object]
       /\ obj'[b].pos = q + len /\ obj'[b].state = obj[b].state
       /\ \A x \in Block : x # b => obj'[x] = obj[x]
  <2>1. obj \in [Block -> Object]
    BY DEF TypeOK
  <2> QED
    BY <1>8, <1>9, <2>1 DEF Object
<1>11. /\ avail' \in [Block -> {NotAvailable} \cup 0..AreaSize]
       /\ Available' = {b}
       /\ avail'[b] = AreaSize - (q + len)
  <2>1. avail \in [Block -> {NotAvailable} \cup 0..AreaSize]
    BY DEF TypeOK
  <2>2. \A x \in Block : x # b => avail[x] = NotAvailable
    BY <1>1 DEF Available
  <2> QED
    BY <1>8, <1>9, <2>1, <2>2 DEF Available
<1>12. /\ data' \in [Block -> [Offset -> {Blank, Torn} \cup 1..MaxWrites]]
       /\ \A x \in recs : \A y \in Offset :
             x.pos <= y /\ y < x.pos + x.len => data'[x.block][y] = x.tag
  BY <1>1, <1>3, <1>5, <1>8, OverwrittenKeeps DEF p
<1>13. TypeOK'
  BY <1>2, <1>6, <1>8, <1>10, <1>11, <1>12 DEF TypeOK, PC
<1>14. \A x \in recs : /\ x.pos \in Int /\ x.len \in Int
                       /\ x.block = b => x.pos + x.len <= q
  <2>1. \A x \in recs : x.pos \in Int /\ x.len \in Int
    BY DEF TypeOK, Record, Offset
  <2> QED
    BY <1>1, <1>3, <2>1 DEF Covers, p
<1>15. Covers(b)'
  BY <1>7, <1>8, <1>10, <1>14, <1>3, <1>4 DEF Covers
<1>16. FilesExist'
  BY <1>1, <1>2, <1>7, <1>8 DEF FilesExist
<1>17. OpOK'
  BY <1>2, <1>8 DEF OpOK, Closing, Creating, NoBlock, Block
<1>18. SingleAppendPoint' /\ FreeSpaceExact'
  BY <1>1, <1>2, <1>10, <1>11 DEF SingleAppendPoint, FreeSpaceExact, FreeDataSpace
<1>19. PositionsExact'
  <2>1. ASSUME NEW x \in Block, x # b, Covers(x) PROVE Covers(x)'
    BY <2>1, <1>7, <1>8, <1>10 DEF Covers
  <2> QED
    BY <1>2, <1>10, <1>11, <1>15, <2>1 DEF PositionsExact
<1>20. LastOK'
  BY <1>7, <1>8, <1>14 DEF LastOK
<1>21. RecordsIntact'
  <2>1. ASSUME NEW y \in Offset, n.pos <= y, y < n.pos + n.len
        PROVE  data'[n.block][y] = n.tag
    BY <2>1, <1>7, <1>8 DEF Overwritten, TypeOK
  <2> QED
    BY <1>8, <1>12, <2>1 DEF RecordsIntact
<1> QED
  BY <1>13, <1>16, <1>17, <1>18, <1>19, <1>20, <1>21

\* rollbackToAddress takes the position back to the last record of the block,
\* which no other record reaches past.
LEMMA RollbackToAddressStep ==
    ASSUME NoEviction, IInv, RollbackToAddress
    PROVE  IInv'
<1> USE DEF IInv
<1>1. PICK n \in Record : n = last /\ n \in recs
  BY DEF RollbackToAddress, TypeOK, LastOK
<1>2. PICK b \in Block : b = n.block /\ b \in Available
  BY <1>1 DEF RollbackToAddress, Available
<1>3. age[b] > 0 /\ header[b] # NoFile /\ Available = {b}
  BY <1>2 DEF FreeSpaceExact, FilesExist, SingleAppendPoint
<1> DEFINE a2 == LoadedAge(b, {})
           o == [LoadedObject(b) EXCEPT !.pos = n.pos]
<1>4. /\ op.pc = "idle" /\ status = "up"
      /\ age' = a2
      /\ obj' = [Objects(age, a2, b, o) EXCEPT ![b] = o]
      /\ avail' = [avail EXCEPT ![b] = FreeDataSpace(o)]
      /\ recs' = recs \ {n}
      /\ last' = NoRecord
      /\ UNCHANGED <<header, data, registry, links, lastBlockId, op, status,
                     writes, crashes>>
  BY <1>1, <1>2 DEF RollbackToAddress, At, disk
<1>5. age \in [Block -> Nat] /\ obj \in [Block -> Object]
  BY DEF TypeOK
<1>6. /\ age' \in [Block -> Nat]
      /\ \A x \in Block : age'[x] > 0 <=> age[x] > 0
  BY <1>3, <1>4, <1>5, LoadKeeps
<1>7. n.pos \in 0..AreaSize /\ o \in Object /\ o.pos = n.pos
  <2>1. n.pos \in 0..AreaSize
    BY AreaSizeAssumption DEF Record, Offset
  <2> QED
    BY <2>1, <1>3, <1>5 DEF LoadedObject, Object
<1>8. o.state = obj[b].state
  BY <1>3, <1>5 DEF LoadedObject, Object
<1> HIDE DEF a2, o
<1>9. /\ obj' \in [Block -> Object]
      /\ obj'[b] = o
      /\ \A x \in Block : x # b /\ age[x] > 0 => obj'[x] = obj[x]
  <2>1. Unloaded \in Object
    BY AreaSizeAssumption DEF Unloaded, Object, ColumnDataBlockState
  <2>2. \A x \in Block : Objects(age, a2, b, o)[x] =
            IF a2[x] = 0 THEN Unloaded
            ELSE IF x = b /\ age[x] = 0 THEN o ELSE obj[x]
    BY DEF Objects
  <2>3. Objects(age, a2, b, o) \in [Block -> Object]
    BY <2>1, <1>5, <1>7 DEF Objects
  <2>4. \A x \in Block : age[x] > 0 => a2[x] # 0
    BY <1>4, <1>5, <1>6
  <2> QED
    BY <1>4, <1>5, <1>7, <2>2, <2>3, <2>4
<1>10. FreeDataSpace(o) \in 0..AreaSize /\ FreeDataSpace(o) # NotAvailable
  BY <1>7, AreaSizeAssumption DEF FreeDataSpace, NotAvailable
<1>11. /\ avail' \in [Block -> {NotAvailable} \cup 0..AreaSize]
       /\ Available' = {b}
       /\ avail'[b] = FreeDataSpace(o)
  <2>1. avail \in [Block -> {NotAvailable} \cup 0..AreaSize]
    BY DEF TypeOK
  <2>2. \A x \in Block : x # b => avail[x] = NotAvailable
    BY <1>3 DEF Available
  <2> QED
    BY <1>4, <1>10, <2>1, <2>2 DEF Available
<1>12. TypeOK'
  BY <1>4, <1>6, <1>9, <1>11 DEF TypeOK
<1>13. FilesExist'
  BY <1>4, <1>6 DEF FilesExist
<1>14. OpOK'
  BY <1>4, <1>6 DEF OpOK, Closing, Creating
<1>15. SingleAppendPoint' /\ FreeSpaceExact'
  BY <1>3, <1>4, <1>6, <1>9, <1>11 DEF SingleAppendPoint, FreeSpaceExact, FreeDataSpace
<1>16. Covers(b)'
  BY <1>1, <1>2, <1>4, <1>7, <1>9 DEF Covers, LastOK, NoRecord, Record
<1>17. PositionsExact'
  <2>1. ASSUME NEW x \in Block, x # b, age[x] > 0, Covers(x) PROVE Covers(x)'
    BY <2>1, <1>4, <1>9 DEF Covers
  <2> QED
    BY <1>6, <1>9, <1>11, <1>16, <2>1 DEF PositionsExact
<1>18. LastOK' /\ RecordsIntact'
  BY <1>4 DEF LastOK, RecordsIntact
<1> QED
  BY <1>12, <1>13, <1>14, <1>15, <1>17, <1>18

\* readRecord brings a block into the cache.
LEMMA ReadRecordStep ==
    ASSUME NoEviction, IInv, NEW r \in recs, ReadRecord(r)
    PROVE  IInv'
<1> USE DEF IInv
<1>1. PICK c \in Block : c = r.block /\ header[c] # NoFile
  BY DEF TypeOK, Record, FilesExist
<1>2. /\ LoadBlock(c, {}) /\ status = "up" /\ op.pc = "idle"
      /\ UNCHANGED <<header, data, registry, links, lastBlockId, avail, op,
                     status, writes, crashes, recs, last>>
  BY <1>1 DEF ReadRecord, At, disk, history
<1>3. /\ age' \in [Block -> Nat]
      /\ obj' \in [Block -> Object]
      /\ age'[c] > 0
      /\ \A x \in Block : x # c => (age'[x] > 0 <=> age[x] > 0)
      /\ \A x \in Block : age[x] > 0 => obj'[x] = obj[x]
      /\ age[c] = 0 => obj'[c] = FromFile(c)
  BY <1>1, <1>2, LoadBlockStep
<1>4. lastBlockId' \in 0..MaxBlocks
  BY <1>2 DEF TypeOK
<1> QED
  BY <1>1, <1>2, <1>3, <1>4, ObjectLoaded

\* A process death leaves the files as they are.
LEMMA CrashStep ==
    ASSUME IInv, Crash
    PROVE  IInv'
<1> USE DEF IInv
<1>1. /\ status' = "down" /\ crashes' = crashes + 1 /\ crashes < MaxCrashes
      /\ lastBlockId' = 0 /\ last' = NoRecord
      /\ age' = [b \in Block |-> 0]
      /\ obj' = [b \in Block |-> Unloaded]
      /\ avail' = [b \in Block |-> NotAvailable]
      /\ op' = Idle
      /\ UNCHANGED <<header, data, registry, links, writes, recs>>
  BY DEF Crash, disk
<1>2. op' = [pc |-> "idle", len |-> 0, old |-> NoBlock, new |-> NoBlock, todo |-> {}]
  BY <1>1 DEF Idle
<1>3. Available' = {} /\ \A x \in Block : ~(age'[x] > 0)
  BY <1>1 DEF Available
<1>4. TypeOK'
  <2>1. obj' \in [Block -> Object]
    BY <1>1, AreaSizeAssumption DEF Unloaded, Object, ColumnDataBlockState
  <2>2. crashes' \in 0..MaxCrashes
    BY <1>1, BoundsAssumption DEF TypeOK
  <2> QED
    BY <1>1, <1>2, <2>1, <2>2, BoundsAssumption DEF TypeOK, PC
<1>5. FilesExist' /\ RecordsIntact' /\ LastOK'
  BY <1>1, <1>3 DEF FilesExist, RecordsIntact, LastOK
<1>6. OpOK'
  BY <1>1, <1>2 DEF OpOK, Closing, Creating, NoBlock, Block
<1>7. SingleAppendPoint' /\ FreeSpaceExact' /\ PositionsExact'
  BY <1>3 DEF SingleAppendPoint, FreeSpaceExact, PositionsExact
<1> QED
  BY <1>4, <1>5, <1>6, <1>7

\* A restart makes no block available: blocks of the earlier process are read
\* and never written again.
LEMMA RestartStep ==
    ASSUME NoEviction, IInv, Restart
    PROVE  IInv'
<1> USE DEF IInv
<1>1. /\ status = "down" /\ status' = "up" /\ lastBlockId' = LastRecordedBlockId
      /\ UNCHANGED <<header, data, registry, links, avail, op, writes, crashes,
                     recs, last>>
  BY DEF Restart, disk, history
<1>2. op = Idle /\ op.pc = "idle" /\ op.old = NoBlock
  BY <1>1 DEF OpOK, Idle
<1>3. lastBlockId' \in 0..MaxBlocks
  <2>1. CASE Recorded = {}
    BY <1>1, <2>1, BoundsAssumption DEF LastRecordedBlockId
  <2>2. CASE Recorded # {}
    <3>1. Recorded \subseteq 0..MaxBlocks
      BY DEF Recorded, Block
    <3>2. \E x \in Recorded : \A y \in Recorded : y <= x
      BY <2>2, <3>1, NatMax, BoundsAssumption
    <3>3. LastRecordedBlockId \in Recorded
      BY <2>2, <3>2 DEF LastRecordedBlockId
    <3> QED
      BY <1>1, <3>1, <3>3
  <2> QED
    BY <2>1, <2>2
<1>4. CASE FirstBlock = NoBlock
  <2>1. UNCHANGED <<age, obj>>
    BY <1>4 DEF Restart
  <2>2. TypeOK'
    BY <1>1, <1>3, <2>1 DEF TypeOK
  <2>3. FilesExist' /\ RecordsIntact' /\ LastOK'
    BY <1>1, <2>1 DEF FilesExist, RecordsIntact, LastOK
  <2>4. OpOK'
    BY <1>1, <1>2, <2>1 DEF OpOK, Closing, Creating, NoBlock, Block
  <2>5. SingleAppendPoint' /\ FreeSpaceExact' /\ PositionsExact'
    BY <1>1, <2>1 DEF SingleAppendPoint, FreeSpaceExact, PositionsExact, Covers, Available
  <2> QED
    BY <2>2, <2>3, <2>4, <2>5
<1>5. CASE FirstBlock # NoBlock
  <2> DEFINE files == {b \in Block : header[b] # NoFile}
  <2>1. files # {} /\ FirstBlock = CHOOSE b \in files : \A c \in files : b <= c
    BY <1>5 DEF FirstBlock
  <2>2. files \subseteq Nat
    BY DEF Block
  <2>3. FirstBlock \in files
    <3> HIDE DEF files
    <3> QED
      BY <2>1, <2>2, NatMin
  <2>4. PICK c \in Block : c = FirstBlock /\ header[c] # NoFile
    BY <2>3
  <2>5. LoadBlock(c, {})
    BY <1>5, <2>4 DEF Restart
  <2>6. /\ age' \in [Block -> Nat]
        /\ obj' \in [Block -> Object]
        /\ age'[c] > 0
        /\ \A x \in Block : x # c => (age'[x] > 0 <=> age[x] > 0)
        /\ \A x \in Block : age[x] > 0 => obj'[x] = obj[x]
        /\ age[c] = 0 => obj'[c] = FromFile(c)
    BY <2>4, <2>5, LoadBlockStep
  <2> QED
    BY <1>1, <1>2, <1>3, <2>4, <2>6, ObjectLoaded
<1> QED
  BY <1>4, <1>5

\* A column that fails to load changes nothing.
LEMMA RestartFailsStep ==
    ASSUME IInv, RestartFails
    PROVE  IInv'
<1> USE DEF IInv
<1>1. /\ status = "down" /\ status' = "failed"
      /\ UNCHANGED <<header, data, registry, links, lastBlockId, age, obj, avail,
                     op, writes, crashes, recs, last>>
  BY DEF RestartFails, disk, memory, history
<1>2. TypeOK'
  BY <1>1 DEF TypeOK
<1>3. OpOK'
  BY <1>1 DEF OpOK, Covers, Available
<1>4. FilesExist' /\ SingleAppendPoint' /\ FreeSpaceExact' /\ RecordsIntact'
  BY <1>1 DEF FilesExist, SingleAppendPoint, FreeSpaceExact, RecordsIntact, Available
<1>5. PositionsExact' /\ LastOK'
  BY <1>1 DEF PositionsExact, Covers, Available, LastOK
<1> QED
  BY <1>2, <1>3, <1>4, <1>5

--------------------------------------------------------------------------------
\* A column that has just been created satisfies the invariant.
LEMMA InitIInv ==
    ASSUME Init
    PROVE  IInv
<1> USE DEF Init
<1>1. TypeOK
  <2>1. Unloaded \in Object /\ Unrecorded \in [state: ColumnDataBlockState,
                                               prev: Block \cup {NoBlock}]
    BY AreaSizeAssumption DEF Unloaded, Unrecorded, Object, ColumnDataBlockState
  <2>2. Idle \in [pc: PC, len: Lengths \cup {0}, old: Block \cup {NoBlock},
                  new: Block \cup {NoBlock}, todo: SUBSET Nat]
    BY DEF Idle, PC
  <2>3. /\ data \in [Block -> [Offset -> {Blank, Torn} \cup 1..MaxWrites]]
        /\ links \in Seq(Block \X Block)
    OBVIOUS
  <2> QED
    BY <2>1, <2>2, <2>3, BoundsAssumption DEF TypeOK
<1>2. Available = {} /\ op.pc = "idle" /\ op.old = NoBlock
  BY DEF Available, Idle
<1>3. FilesExist /\ OpOK
  BY <1>2 DEF FilesExist, OpOK, Closing, Creating, NoBlock, Block
<1>4. SingleAppendPoint /\ FreeSpaceExact /\ PositionsExact
  BY <1>2 DEF SingleAppendPoint, FreeSpaceExact, PositionsExact
<1>5. LastOK /\ RecordsIntact
  BY DEF LastOK, RecordsIntact
<1> QED
  BY <1>1, <1>3, <1>4, <1>5 DEF IInv

\* Every step of the column preserves the invariant.
LEMMA NextIInv ==
    ASSUME NoEviction, IInv, [Next]_vars
    PROVE  IInv'
<1>1. CASE \E len \in Lengths : SelectNew(len) \/ SelectFit(len) \/ SelectNext(len)
  BY <1>1, SelectNewStep, SelectFitStep, SelectNextStep
<1>2. CASE ScanNextBlock \/ ScanEnds
  BY <1>2, ScanNextBlockStep, ScanEndsStep
<1>3. CASE CreateBlockFile \/ CreateBlockFileFails \/ RecordBlock \/ AddNextBlock
  BY <1>3, CreateBlockFileStep, CreateBlockFileFailsStep, RecordBlockStep,
     AddNextBlockStep
<1>4. CASE ObtainPrevDigest
  BY <1>4, TakePrevDigestStep, PrevDigestMissingStep DEF ObtainPrevDigest
<1>5. CASE FinalizeClosing \/ FinalizeHeader \/ FinalizeClosed
  BY <1>5, FinalizeClosingStep, FinalizeHeaderStep, FinalizeClosedStep
<1>6. CASE StoreRecord \/ StoreRecordFails
  BY <1>6, StoreRecordStep, StoreRecordFailsStep
<1>7. CASE RollbackToAddress \/ \E r \in recs : ReadRecord(r)
  BY <1>7, RollbackToAddressStep, ReadRecordStep
<1>8. CASE Crash \/ Restart \/ RestartFails
  BY <1>8, CrashStep, RestartStep, RestartFailsStep
<1>9. CASE UNCHANGED vars
  BY <1>9 DEF vars, IInv, TypeOK, FilesExist, OpOK, SingleAppendPoint, FreeSpaceExact,
     PositionsExact, LastOK, RecordsIntact, Covers, Available
<1> QED
  BY <1>1, <1>2, <1>3, <1>4, <1>5, <1>6, <1>7, <1>8, <1>9 DEF Next, WriteStep

\* The inductive invariant: positions kept in memory lie past every record, as
\* long as no block object is evicted (ColumnDataBlockCache::on_evict saves nothing).
THEOREM ColumnInvariant ==
    ASSUME NoEviction
    PROVE  Spec => []IInv
<1>1. Init => IInv
  BY InitIInv
<1>2. IInv /\ [Next]_vars => IInv'
  BY NextIInv
<1> QED
  BY <1>1, <1>2, PTL DEF Spec

\* The variables of the column keep their types: no free space is negative, no
\* position is past the data area, no block identifier is past the last one.
THEOREM TypeCorrect ==
    ASSUME NoEviction
    PROVE  Spec => []TypeOK
<1>1. IInv => TypeOK
  BY DEF IInv
<1> QED
  BY <1>1, ColumnInvariant, PTL

\* Append only: the bytes of a record whose address writeRecord or
\* writeMasterColumnRecord returned are never overwritten, whatever fails, is rolled
\* back or dies in between.
THEOREM RecordsStayIntact ==
    ASSUME NoEviction
    PROVE  Spec => []RecordsIntact
<1>1. IInv => RecordsIntact
  BY DEF IInv
<1> QED
  BY <1>1, ColumnInvariant, PTL

\* No two blocks take new data at the same time: a write that closes a block has
\* taken it off m_availableDataBlocks before the next block comes on.
THEOREM OneAppendPoint ==
    ASSUME NoEviction
    PROVE  Spec => []SingleAppendPoint
<1>1. IInv => SingleAppendPoint
  BY DEF IInv
<1> QED
  BY <1>1, ColumnInvariant, PTL

\* A block that was selected or made for a record has room for it, whatever was
\* written, rolled back or closed before.
THEOREM RoomIsThere ==
    ASSUME NoEviction
    PROVE  Spec => []RoomAsPromised
<1>1. IInv => RoomAsPromised
  <2> SUFFICES ASSUME IInv, At("store") PROVE Fits(op.new, op.len)
    BY DEF RoomAsPromised
  <2>1. op.new \in Block /\ FreeDataSpace(obj[op.new]) >= op.len /\ op.len \in Lengths
    BY DEF IInv, OpOK, At, Creating
  <2>2. obj[op.new].pos \in Int /\ op.len \in Int
    <3>1. obj[op.new] \in Object
      BY <2>1 DEF IInv, TypeOK
    <3>2. obj[op.new].pos \in 0..AreaSize
      BY <3>1 DEF Object
    <3>3. op.len \in 1..AreaSize
      BY <2>1, LengthsAssumption
    <3> QED
      BY <3>2, <3>3, AreaSizeAssumption
  <2> QED
    BY <2>1, <2>2, AreaSizeAssumption DEF FreeDataSpace, Fits
<1> QED
  BY <1>1, ColumnInvariant, PTL

\* m_availableDataBlocks never disagrees with the block objects, so that a block
\* it selects does have the room.
THEOREM FreeSpaceStaysExact ==
    ASSUME NoEviction
    PROVE  Spec => []FreeSpaceExact
<1>1. IInv => FreeSpaceExact
  BY DEF IInv
<1> QED
  BY <1>1, ColumnInvariant, PTL

--------------------------------------------------------------------------------
(***************************************************************************)
(* The chain of blocks: what the registry records, what a closed block     *)
(* says of itself, and that it never changes again.  ChainInv is proved on *)
(* top of IInv, again with one lemma per action.                           *)
(***************************************************************************)
\* The blocks whose digest is final.
Closed == {b \in Block : registry[b].state = "kClosed"}

\* Every block that the program may come back to is in the registry.
BlocksRecorded ==
    /\ \A b \in Recorded : header[b] # NoFile
    /\ \A r \in recs : r.block \in Recorded
    /\ Available \subseteq Recorded
    /\ op.pc = "idle" => op.old = NoBlock
    /\ op.old # NoBlock => op.old \in Recorded
    /\ op.pc \in Creating \ {"record"} => op.new \in Recorded
    /\ op.pc = "record" => op.new \notin Recorded

\* Registry entries point to earlier blocks, and identifiers only grow.
ChainGoesBack ==
    /\ \A b \in Recorded : registry[b].prev # NoBlock
           => registry[b].prev \in Recorded /\ registry[b].prev < b
    /\ status = "up" => \A b \in Recorded : b <= lastBlockId
    /\ op.pc = "record" => op.new = lastBlockId

\* A link is between two blocks, and the candidates of ScanNextBlock are the
\* links of the block that is being closed.
LinksOK ==
    /\ \A i \in 1..Len(links) : links[i][1] # links[i][2] /\ links[i][2] \in Recorded
    /\ op.pc = "scan" => \A i \in op.todo : links[i][1] = op.old

\* No block that takes data, or is about to, is closed.
ClosedApart ==
    /\ Available \cap Closed = {}
    /\ op.pc # "store" => op.old \notin Closed
    /\ op.pc \in Creating => op.new \notin Closed /\ op.new # op.old
    /\ \A b \in Closed : age[b] > 0 => obj[b].state \notin {"kCurrent", "kAvailable"}

\* The position that finalize writes to the file covers the records.
HeadersCover ==
    /\ ClosedHeaderCoversRecords
    /\ op.old # NoBlock /\ op.pc # "store" => Covers(op.old)
    /\ op.pc = "closed" => header[op.old] = obj[op.old].pos

ChainInv ==
    /\ BlocksRecorded
    /\ ChainGoesBack
    /\ LinksOK
    /\ ClosedApart
    /\ HeadersCover

--------------------------------------------------------------------------------
\* A step that leaves the files and the registry alone, and after which the
\* column is idle with no more blocks available and no more records than before.
LEMMA IdleKeepsChain ==
    ASSUME IInv, ChainInv,
           UNCHANGED <<header, registry, links>>,
           op'.pc = "idle", op'.old = NoBlock,
           recs' \subseteq recs, Available' \subseteq Available,
           status' = "up" => \A b \in Recorded : b <= lastBlockId',
           \A b \in Block : age'[b] > 0 =>
               \/ obj'[b].state \notin {"kCurrent", "kAvailable"}
               \/ age[b] > 0 /\ obj'[b].state = obj[b].state
    PROVE  ChainInv'
<1> USE DEF ChainInv
<1>1. Recorded' = Recorded /\ Closed' = Closed
  BY DEF Recorded, Closed
<1>2. BlocksRecorded'
  BY <1>1 DEF BlocksRecorded, Creating
<1>3. ChainGoesBack' /\ LinksOK'
  BY <1>1 DEF ChainGoesBack, LinksOK
<1>4. NoBlock \notin Closed
  BY DEF Closed, Block, NoBlock
<1>5. ClosedApart'
  BY <1>1, <1>4 DEF ClosedApart, Creating, Closed
<1>6. HeadersCover'
  BY DEF HeadersCover, ClosedHeaderCoversRecords
<1> QED
  BY <1>2, <1>3, <1>5, <1>6

\* Nothing has been recorded, no block is available: a new block will be made.
LEMMA SelectNewChain ==
    ASSUME IInv, ChainInv, NEW len \in Lengths, SelectNew(len)
    PROVE  ChainInv'
<1> USE DEF ChainInv
<1>1. /\ op' = [Idle EXCEPT !.pc = "create", !.len = len]
      /\ UNCHANGED <<header, data, registry, links, lastBlockId, age, obj, avail,
                     status, recs>>
  BY DEF SelectNew, disk, memory
<1>2. op'.pc = "create" /\ op'.old = NoBlock /\ op'.new = NoBlock
  BY <1>1 DEF Idle
<1>3. Recorded' = Recorded /\ Closed' = Closed /\ Available' = Available
  BY <1>1 DEF Recorded, Closed, Available
<1>4. NoBlock \notin Closed
  BY DEF Closed, Block, NoBlock
<1>5. BlocksRecorded' /\ ChainGoesBack' /\ LinksOK'
  BY <1>1, <1>2, <1>3 DEF BlocksRecorded, ChainGoesBack, LinksOK, Creating
<1>6. ClosedApart'
  BY <1>1, <1>2, <1>3, <1>4 DEF ClosedApart, Creating
<1>7. HeadersCover'
  BY <1>1, <1>2 DEF HeadersCover, ClosedHeaderCoversRecords
<1> QED
  BY <1>5, <1>6, <1>7

\* The selected block is available, hence recorded and not closed.
LEMMA SelectFitChain ==
    ASSUME NoEviction, IInv, ChainInv, NEW len \in Lengths, SelectFit(len)
    PROVE  ChainInv'
<1> USE DEF IInv, ChainInv
<1>1. PICK b \in Block : /\ Available = {b} /\ b = FirstFit(len)
                         /\ age[b] > 0 /\ header[b] # NoFile
  <2>1. PICK b \in Available : avail[b] >= len
    BY DEF SelectFit
  <2>2. FirstFit(len) = b
    BY <2>1, TheAvailableBlock, LengthsAssumption, AreaSizeAssumption
  <2> QED
    BY <2>1, <2>2 DEF Available, FreeSpaceExact, FilesExist, SingleAppendPoint
<1>2. /\ LoadBlock(b, {})
      /\ op' = [Idle EXCEPT !.pc = "store", !.len = len, !.new = b]
      /\ UNCHANGED <<header, data, registry, links, lastBlockId, avail, status, recs>>
  BY <1>1 DEF SelectFit, disk
<1>3. op'.pc = "store" /\ op'.old = NoBlock /\ op'.new = b
  BY <1>2 DEF Idle
<1>4. /\ \A x \in Block : age'[x] > 0 <=> age[x] > 0
      /\ \A x \in Block : age[x] > 0 => obj'[x] = obj[x]
  BY <1>1, <1>2, LoadBlockStep
<1>5. Recorded' = Recorded /\ Closed' = Closed /\ Available' = Available
  BY <1>2 DEF Recorded, Closed, Available
<1>6. b # NoBlock /\ b \in Recorded /\ b \notin Closed
  BY <1>1 DEF BlocksRecorded, ClosedApart, Block, NoBlock
<1>7. BlocksRecorded' /\ ChainGoesBack' /\ LinksOK'
  BY <1>2, <1>3, <1>5, <1>6 DEF BlocksRecorded, ChainGoesBack, LinksOK
<1>8. ClosedApart'
  BY <1>3, <1>4, <1>5, <1>6 DEF ClosedApart, Closed
<1>9. HeadersCover'
  BY <1>2, <1>3 DEF HeadersCover, ClosedHeaderCoversRecords
<1> QED
  BY <1>7, <1>8, <1>9

\* The block that will be closed is the available one: its position covers its
\* records, and it is recorded and not closed.
LEMMA SelectNextChain ==
    ASSUME NoEviction, IInv, ChainInv, NEW len \in Lengths, SelectNext(len)
    PROVE  ChainInv'
<1> USE DEF IInv, ChainInv
<1>1. PICK b \in Block : /\ Available = {b} /\ b = BlockToClose
                         /\ age[b] > 0 /\ header[b] # NoFile
  <2>1. Available # {}
    BY DEF SelectNext
  <2> QED
    BY <2>1, TheAvailableBlock DEF FreeSpaceExact, FilesExist, Available
<1>2. /\ LoadBlock(b, {})
      /\ op' = [Idle EXCEPT !.pc = "scan", !.len = len, !.old = b,
                            !.todo = NextBlockIds(b)]
      /\ avail' = [avail EXCEPT ![b] = NotAvailable]
      /\ UNCHANGED <<header, data, registry, links, lastBlockId, status, recs>>
  BY <1>1 DEF SelectNext, disk
<1>3. op'.pc = "scan" /\ op'.old = b /\ op'.todo = NextBlockIds(b)
  BY <1>2 DEF Idle
<1>4. /\ \A x \in Block : age'[x] > 0 <=> age[x] > 0
      /\ \A x \in Block : age[x] > 0 => obj'[x] = obj[x]
  BY <1>1, <1>2, LoadBlockStep
<1>5. Recorded' = Recorded /\ Closed' = Closed /\ Available' \subseteq Available
  BY <1>2 DEF Recorded, Closed, Available, TypeOK
<1>6. b # NoBlock /\ b \in Recorded /\ b \notin Closed
  BY <1>1 DEF BlocksRecorded, ClosedApart, Block, NoBlock
<1>7. BlocksRecorded' /\ ChainGoesBack'
  BY <1>2, <1>3, <1>5, <1>6 DEF BlocksRecorded, ChainGoesBack, Creating
<1>8. LinksOK'
  BY <1>2, <1>3, <1>5 DEF LinksOK, NextBlockIds
<1>9. ClosedApart'
  BY <1>3, <1>4, <1>5, <1>6 DEF ClosedApart, Closed, Creating
<1>10. Covers(b)'
  BY <1>1, <1>2, <1>4 DEF PositionsExact, Covers
<1>11. HeadersCover'
  BY <1>2, <1>3, <1>10 DEF HeadersCover, ClosedHeaderCoversRecords, Covers
<1> QED
  BY <1>7, <1>8, <1>9, <1>11

\* A candidate is another block than the one that is closed, it is recorded, and
\* the state in which it is taken is not one of a closed block.
LEMMA ScanNextBlockChain ==
    ASSUME NoEviction, IInv, ChainInv, ScanNextBlock
    PROVE  ChainInv'
<1> DEFINE i == CHOOSE j \in op.todo : \A k \in op.todo : k <= j
           b == links[i][2]
           o == LoadedObject(b)
<1> USE DEF IInv, ChainInv
<1>1. /\ op.pc = "scan" /\ status = "up" /\ op.todo # {}
      /\ LoadBlock(b, {op.old})
      /\ op' = IF o.state \in {"kCurrent", "kAvailable"} /\ FreeDataSpace(o) >= op.len
               THEN [op EXCEPT !.pc = "digest", !.new = b, !.todo = {}]
               ELSE [op EXCEPT !.todo = @ \ {i}]
      /\ UNCHANGED <<header, data, registry, links, lastBlockId, avail, status, recs>>
  BY DEF ScanNextBlock, At, disk, history
<1>2. i \in op.todo
  <2>0. Len(links) \in Nat
    BY DEF TypeOK
  <2>1. op.todo \subseteq 0..Len(links)
    BY <1>1, <2>0 DEF OpOK
  <2>2. \E j \in op.todo : \A k \in op.todo : k <= j
    BY <1>1, <2>0, <2>1, NatMax
  <2> QED
    BY <2>2
<1>3. i \in 1..Len(links) /\ links[i][1] = op.old
  BY <1>1, <1>2 DEF OpOK, LinksOK
<1>4. PICK c \in Block : c = b /\ c \in Recorded /\ c # op.old /\ header[c] # NoFile
  <2>1. b \in Recorded /\ b # op.old
    BY <1>3 DEF LinksOK
  <2> QED
    BY <2>1 DEF Recorded, BlocksRecorded
<1> HIDE DEF i, b
<1>5. /\ \A x \in Block : x # c => (age'[x] > 0 <=> age[x] > 0)
      /\ \A x \in Block : age[x] > 0 => obj'[x] = obj[x]
      /\ age[c] = 0 => obj'[c] = FromFile(c)
      /\ age[c] \in Nat /\ age'[c] > 0
  BY <1>1, <1>4, LoadBlockStep DEF TypeOK
<1>6. Recorded' = Recorded /\ Closed' = Closed /\ Available' = Available
  BY <1>1 DEF Recorded, Closed, Available
<1>7. /\ op'.pc \in {"scan", "digest"} /\ op'.old = op.old /\ op'.todo \subseteq op.todo
      /\ op'.pc = "digest" => /\ op'.new = c
                              /\ o.state \in {"kCurrent", "kAvailable"}
  <2> HIDE DEF o
  <2> QED
    BY <1>1, <1>4 DEF TypeOK, PC
<1>8. op'.pc = "digest" => c \notin Closed
  BY <1>4, <1>5, <1>7 DEF LoadedObject, FromFile, ClosedApart
<1>9. BlocksRecorded' /\ ChainGoesBack' /\ LinksOK'
  BY <1>1, <1>4, <1>6, <1>7 DEF BlocksRecorded, ChainGoesBack, LinksOK, Creating
<1>10. ClosedApart'
  <2>1. ASSUME NEW x \in Closed, age'[x] > 0
        PROVE  obj'[x].state \notin {"kCurrent", "kAvailable"}
    <3>1. x \in Block
      BY DEF Closed
    <3>2. CASE age[x] > 0
      BY <3>1, <3>2, <1>5 DEF ClosedApart
    <3>3. CASE ~(age[x] > 0)
      BY <3>1, <3>3, <2>1, <1>5 DEF FromFile
    <3> QED
      BY <3>2, <3>3
  <2> QED
    BY <1>1, <1>4, <1>6, <1>7, <1>8, <2>1 DEF ClosedApart, Creating
<1>11. op.old \in Block /\ age[op.old] > 0 /\ Covers(op.old)
  BY <1>1 DEF OpOK, Closing, HeadersCover, Block, NoBlock
<1>12. HeadersCover'
  BY <1>1, <1>5, <1>7, <1>11 DEF HeadersCover, ClosedHeaderCoversRecords, Covers
<1> QED
  BY <1>9, <1>10, <1>12

\* Nothing changes but how far the operation is.
LEMMA ScanEndsChain ==
    ASSUME IInv, ChainInv, ScanEnds
    PROVE  ChainInv'
<1> USE DEF ChainInv
<1>1. /\ op.pc = "scan" /\ op' = [op EXCEPT !.pc = "create"]
      /\ UNCHANGED <<header, data, registry, links, lastBlockId, age, obj, avail,
                     status, recs>>
  BY DEF ScanEnds, At, disk, memory, history
<1>2. op'.pc = "create" /\ op'.old = op.old
  BY <1>1 DEF IInv, TypeOK
<1>3. Recorded' = Recorded /\ Closed' = Closed /\ Available' = Available
  BY <1>1 DEF Recorded, Closed, Available
<1>4. BlocksRecorded' /\ ChainGoesBack' /\ LinksOK' /\ ClosedApart'
  BY <1>1, <1>2, <1>3 DEF BlocksRecorded, ChainGoesBack, LinksOK, ClosedApart, Creating
<1>5. HeadersCover'
  BY <1>1, <1>2 DEF HeadersCover, ClosedHeaderCoversRecords, Covers
<1> QED
  BY <1>4, <1>5

\* The new block has the next identifier.  It had no file, so that it is neither
\* recorded, closed, nor the block that is being closed.
LEMMA CreateBlockFileChain ==
    ASSUME NoEviction, IInv, ChainInv, CreateBlockFile
    PROVE  ChainInv'
<1> USE DEF IInv, ChainInv
<1>1. PICK n \in Block : n = lastBlockId + 1
  <2>1. lastBlockId < MaxBlocks
    BY DEF CreateBlockFile, At, OpOK
  <2>2. lastBlockId \in 0..MaxBlocks
    BY DEF TypeOK
  <2> QED
    BY <2>1, <2>2, BoundsAssumption DEF Block
<1> DEFINE o == [state |-> IF op.old = NoBlock THEN "kCurrent" ELSE "kCreating",
                 pos |-> 0]
<1>2. /\ op.pc = "create" /\ status = "up" /\ header[n] = NoFile
      /\ lastBlockId' = n
      /\ header' = [header EXCEPT ![n] = 0]
      /\ age' = Emplace(age, n, {op.old})
      /\ obj' = Objects(age, age', n, o)
      /\ op' = [op EXCEPT !.pc = "record", !.new = n]
      /\ UNCHANGED <<data, registry, links, avail, status, recs>>
  BY <1>1 DEF CreateBlockFile, At, history
<1>3. age \in [Block -> Nat] /\ age[n] = 0
  BY <1>2 DEF TypeOK, FilesExist
<1>4. \A x \in Block : x # n => (age'[x] > 0 <=> age[x] > 0)
  BY <1>2, <1>3, EmplaceKeeps
<1>5. \A x \in Block : x # n /\ age'[x] > 0 => obj'[x] = obj[x]
  <2> HIDE DEF o
  <2>1. \A x \in Block : obj'[x] = IF age'[x] = 0 THEN Unloaded
                                 ELSE IF x = n /\ age[x] = 0 THEN o ELSE obj[x]
    BY <1>2 DEF Objects
  <2> QED
    BY <2>1
<1> HIDE DEF o
<1>6. Recorded' = Recorded /\ Closed' = Closed /\ Available' = Available
  BY <1>2 DEF Recorded, Closed, Available
<1>7. /\ op'.pc = "record" /\ op'.old = op.old /\ op'.new = n
  BY <1>2 DEF TypeOK
<1>8. n \notin Recorded /\ n \notin Closed
  BY <1>2 DEF BlocksRecorded, Closed, Recorded
<1>9. n # op.old
  BY <1>3 DEF OpOK
<1>10. \A x \in Block : x # n => header'[x] = header[x]
  BY <1>2 DEF TypeOK
<1>11. \A r \in recs : r.block \in Block /\ r.block # n
  BY <1>8 DEF BlocksRecorded, Recorded
<1>12. BlocksRecorded'
  BY <1>2, <1>6, <1>7, <1>8, <1>10 DEF BlocksRecorded, Recorded
<1>13. ChainGoesBack' /\ LinksOK'
  <2>1. \A x \in Recorded : x <= n
    BY <1>1, <1>2 DEF ChainGoesBack, TypeOK, Recorded, Block
  <2> QED
    BY <1>2, <1>6, <1>7, <2>1 DEF ChainGoesBack, LinksOK
<1>14. ClosedApart'
  BY <1>2, <1>4, <1>5, <1>6, <1>7, <1>8, <1>9 DEF ClosedApart, Closed
<1>15. HeadersCover'
  <2>1. op.old # NoBlock => op.old \in Block /\ obj'[op.old] = obj[op.old]
    <3>1. op.old # NoBlock => op.old \in Block /\ age[op.old] > 0
      BY DEF TypeOK, OpOK
    <3> QED
      BY <3>1, <1>4, <1>5, <1>9
  <2> QED
    BY <1>2, <1>7, <1>10, <1>11, <2>1 DEF HeadersCover, ClosedHeaderCoversRecords, Covers
<1> QED
  BY <1>12, <1>13, <1>14, <1>15

\* A write that throws leaves at most an identifier unused behind.
LEMMA GiveUpChain ==
    ASSUME IInv, ChainInv, op' = Idle, lastBlockId' \in {lastBlockId, lastBlockId + 1},
           UNCHANGED <<header, registry, links, age, obj, avail, status, recs>>
    PROVE  ChainInv'
<1>1. op'.pc = "idle" /\ op'.old = NoBlock
  BY DEF Idle
<1>2. status' = "up" => \A b \in Recorded : b <= lastBlockId'
  BY DEF ChainInv, ChainGoesBack, IInv, TypeOK, Recorded, Block
<1>3. Available' = Available
  BY DEF Available
<1> QED
  BY <1>1, <1>2, <1>3, IdleKeepsChain

\* The new block enters the registry with an earlier block, or none, before it.
LEMMA RecordBlockChain ==
    ASSUME IInv, ChainInv, RecordBlock
    PROVE  ChainInv'
<1> USE DEF IInv, ChainInv
<1>1. PICK n \in Block : n = op.new /\ age[n] > 0 /\ header[n] # NoFile
  BY DEF RecordBlock, At, OpOK, Creating, FilesExist
<1>2. /\ op.pc = "record" /\ status = "up"
      /\ registry' = [registry EXCEPT ![n] = [state |-> "kCreating", prev |-> op.old]]
      /\ UNCHANGED <<header, data, links, lastBlockId, age, obj, status, recs>>
  BY <1>1 DEF RecordBlock, At, history
<1>3. /\ op'.new = n /\ op'.old = op.old
      /\ op'.pc = IF op.old = NoBlock THEN "store" ELSE "link"
      /\ \A x \in Block : x # n => avail'[x] = avail[x]
  BY <1>1 DEF RecordBlock, TypeOK
<1>4. n \notin Recorded /\ n # op.old /\ n = lastBlockId
  BY <1>1, <1>2 DEF BlocksRecorded, ClosedApart, Creating, ChainGoesBack
<1>5. /\ registry'[n].state = "kCreating" /\ registry'[n].prev = op.old
      /\ \A x \in Block : x # n => registry'[x] = registry[x]
  BY <1>2 DEF TypeOK
<1>6. Recorded' = Recorded \cup {n} /\ Closed' = Closed /\ n \notin Closed
  <2>1. Recorded' = Recorded \cup {n}
    BY <1>5 DEF Recorded
  <2>2. n \notin Closed
    BY <1>4 DEF Closed, Recorded
  <2> QED
    BY <1>5, <2>1, <2>2 DEF Closed
<1>7. Available' \subseteq {n}
  BY <1>2, <1>3 DEF Available, OpOK
<1>8. op.old # NoBlock => op.old \in Recorded /\ op.old < n
  <2>1. op.old # NoBlock => op.old \in Recorded /\ op.old <= n
    BY <1>2, <1>4 DEF BlocksRecorded, ChainGoesBack
  <2> QED
    BY <1>4, <2>1 DEF Recorded, Block
<1>9. BlocksRecorded'
  BY <1>1, <1>2, <1>3, <1>6, <1>7, <1>8 DEF BlocksRecorded
<1>10. ChainGoesBack'
  <2>1. \A x \in Recorded : x \in Block /\ x # n
    BY <1>4 DEF Recorded
  <2>2. ASSUME NEW x \in Recorded', registry'[x].prev # NoBlock
        PROVE  registry'[x].prev \in Recorded' /\ registry'[x].prev < x
    <3>1. CASE x = n
      BY <3>1, <2>2, <1>5, <1>6, <1>8
    <3>2. CASE x # n
      BY <3>2, <2>1, <2>2, <1>5, <1>6 DEF ChainGoesBack
    <3> QED
      BY <3>1, <3>2
  <2>3. \A x \in Recorded' : x <= lastBlockId'
    BY <1>2, <1>4, <1>6 DEF ChainGoesBack, Block
  <2> QED
    BY <1>2, <1>3, <2>2, <2>3 DEF ChainGoesBack
<1>11. LinksOK'
  BY <1>2, <1>3, <1>6 DEF LinksOK
<1>12. ClosedApart'
  BY <1>2, <1>3, <1>4, <1>6, <1>7 DEF ClosedApart, Creating
<1>13. HeadersCover'
  <2>1. \A r \in recs : r.block \in Block /\ r.block # n
    BY <1>4 DEF BlocksRecorded, Recorded
  <2>2. ClosedHeaderCoversRecords'
    BY <1>2, <1>5, <2>1 DEF HeadersCover, ClosedHeaderCoversRecords
  <2> QED
    BY <1>2, <1>3, <2>2 DEF HeadersCover, Covers
<1> QED
  BY <1>9, <1>10, <1>11, <1>12, <1>13

\* addNextBlock links the new block to the one that is being closed.
LEMMA AddNextBlockChain ==
    ASSUME IInv, ChainInv, AddNextBlock
    PROVE  ChainInv'
<1> USE DEF IInv, ChainInv
<1>1. /\ op.pc = "link" /\ status = "up" /\ op' = [op EXCEPT !.pc = "digest"]
      /\ links' = Append(links, <<op.new, op.old>>)
      /\ UNCHANGED <<header, data, registry, lastBlockId, age, obj, avail, status, recs>>
  BY DEF AddNextBlock, At, memory, history
<1>2. op'.pc = "digest" /\ op'.old = op.old /\ op'.new = op.new
  BY <1>1 DEF TypeOK
<1>3. /\ op.new \in Block /\ op.old \in Block /\ op.old \in Recorded
      /\ op.new # op.old
  <2>1. op.new \in Block /\ op.old \in Block
    BY <1>1 DEF OpOK, Closing, Creating
  <2> QED
    BY <1>1, <2>1 DEF BlocksRecorded, ClosedApart, Creating, NoBlock, Block
<1>4. /\ Len(links') = Len(links) + 1 /\ Len(links) \in Nat
      /\ \A i \in 1..Len(links) : links'[i] = links[i]
      /\ links'[Len(links) + 1] = <<op.new, op.old>>
  BY <1>1, <1>3 DEF TypeOK
<1>5. Recorded' = Recorded /\ Closed' = Closed /\ Available' = Available
  BY <1>1 DEF Recorded, Closed, Available
<1>6. BlocksRecorded' /\ ChainGoesBack' /\ ClosedApart'
  BY <1>1, <1>2, <1>5 DEF BlocksRecorded, ChainGoesBack, ClosedApart, Creating
<1>7. LinksOK'
  <2>1. ASSUME NEW i \in 1..Len(links')
        PROVE  links'[i][1] # links'[i][2] /\ links'[i][2] \in Recorded
    <3>1. CASE i \in 1..Len(links)
      BY <3>1, <1>4 DEF LinksOK
    <3>2. CASE i = Len(links) + 1
      BY <3>2, <1>3, <1>4
    <3> QED
      BY <3>1, <3>2, <1>4
  <2> QED
    BY <1>2, <1>5, <2>1 DEF LinksOK
<1>8. HeadersCover'
  BY <1>1, <1>2 DEF HeadersCover, ClosedHeaderCoversRecords, Covers
<1> QED
  BY <1>6, <1>7, <1>8

\* The digest of the previous block: only the order of the cache changes.
LEMMA TakePrevDigestChain ==
    ASSUME IInv, ChainInv, At("digest"), HavePrevDigest, TakePrevDigest
    PROVE  ChainInv'
<1> USE DEF IInv, ChainInv
<1>1. /\ op.pc = "digest" /\ status = "up" /\ op' = [op EXCEPT !.pc = "closing"]
      /\ age' = age \/ \E b \in Block : age' = Touch(age, b) /\ age[b] > 0
      /\ UNCHANGED <<header, data, registry, links, lastBlockId, obj, avail,
                     status, recs>>
  BY DEF TakePrevDigest, HavePrevDigest, At, disk, history, Cached
<1>2. \A x \in Block : age'[x] > 0 <=> age[x] > 0
  <2>1. age \in [Block -> Nat]
    BY DEF TypeOK
  <2>2. ASSUME NEW b \in Block, age[b] > 0
        PROVE  \A x \in Block : Touch(age, b)[x] > 0 <=> age[x] > 0
    BY <2>1, <2>2 DEF Touch
  <2> QED
    BY <1>1, <2>1, <2>2
<1>3. op'.pc = "closing" /\ op'.old = op.old /\ op'.new = op.new
  BY <1>1 DEF TypeOK
<1>4. Recorded' = Recorded /\ Closed' = Closed /\ Available' = Available
  BY <1>1 DEF Recorded, Closed, Available
<1>5. BlocksRecorded' /\ ChainGoesBack' /\ LinksOK'
  BY <1>1, <1>3, <1>4 DEF BlocksRecorded, ChainGoesBack, LinksOK, Creating
<1>6. ClosedApart'
  BY <1>1, <1>2, <1>3, <1>4 DEF ClosedApart, Creating, Closed
<1>7. HeadersCover'
  BY <1>1, <1>3 DEF HeadersCover, ClosedHeaderCoversRecords, Covers
<1> QED
  BY <1>5, <1>6, <1>7

\* finalize changes the state of a recorded block: what is recorded and what
\* it points to stay the same.
LEMMA StateChange ==
    ASSUME TypeOK, NEW b \in Recorded, NEW s \in {"kClosing", "kClosed"},
           registry' = [registry EXCEPT ![b].state = s]
    PROVE  /\ Recorded' = Recorded
           /\ s = "kClosing" => Closed' = Closed \ {b}
           /\ s = "kClosed" => Closed' = Closed \cup {b}
           /\ \A x \in Block : registry'[x].prev = registry[x].prev
<1>1. b \in Block
  BY DEF Recorded
<1>2. /\ registry'[b].state = s /\ registry'[b].prev = registry[b].prev
      /\ \A x \in Block : x # b => registry'[x] = registry[x]
  BY <1>1 DEF TypeOK
<1> QED
  BY <1>1, <1>2 DEF Recorded, Closed

\* finalize marks the block as closing.
LEMMA FinalizeClosingChain ==
    ASSUME IInv, ChainInv, FinalizeClosing
    PROVE  ChainInv'
<1> USE DEF IInv, ChainInv
<1>1. PICK b \in Block : b = op.old /\ b # NoBlock /\ b \in Recorded /\ b \notin Closed
  BY DEF FinalizeClosing, At, OpOK, Closing, BlocksRecorded, ClosedApart, Block, NoBlock
<1>2. /\ op.pc = "closing" /\ status = "up" /\ op' = [op EXCEPT !.pc = "header"]
      /\ obj' = [obj EXCEPT ![b].state = "kClosing"]
      /\ registry' = [registry EXCEPT ![b].state = "kClosing"]
      /\ UNCHANGED <<header, data, links, lastBlockId, age, avail, status, recs>>
  BY <1>1 DEF FinalizeClosing, At, history
<1>3. /\ \A x \in Block : obj'[x].pos = obj[x].pos
      /\ \A x \in Block : x # b => obj'[x] = obj[x]
      /\ obj'[b].state = "kClosing"
  BY <1>2 DEF TypeOK, Object, ColumnDataBlockState
<1>4. op'.pc = "header" /\ op'.old = op.old /\ op'.new = op.new
  BY <1>2 DEF TypeOK
<1>5. /\ Recorded' = Recorded /\ Closed' = Closed
      /\ \A x \in Block : registry'[x].prev = registry[x].prev
  <2>1. /\ Recorded' = Recorded /\ Closed' = Closed \ {b}
        /\ \A x \in Block : registry'[x].prev = registry[x].prev
    BY <1>1, <1>2, StateChange
  <2> QED
    BY <1>1, <2>1
<1>6. Available' = Available
  BY <1>2 DEF Available
<1>7. BlocksRecorded' /\ LinksOK'
  BY <1>2, <1>4, <1>5, <1>6 DEF BlocksRecorded, LinksOK, Creating
<1>8. ChainGoesBack'
  BY <1>2, <1>4, <1>5 DEF ChainGoesBack, Recorded
<1>9. ClosedApart'
  BY <1>2, <1>3, <1>4, <1>5, <1>6 DEF ClosedApart, Creating, Closed
<1>10. HeadersCover'
  <2>1. \A r \in recs : r.block \in Block
    BY DEF TypeOK, Record
  <2>2. ClosedHeaderCoversRecords'
    BY <1>2, <1>5, <2>1 DEF HeadersCover, ClosedHeaderCoversRecords, Closed
  <2> QED
    BY <1>1, <1>2, <1>3, <1>4, <2>2 DEF HeadersCover, Covers
<1> QED
  BY <1>7, <1>8, <1>9, <1>10

\* finalize writes the position of the block object into the file.
LEMMA FinalizeHeaderChain ==
    ASSUME IInv, ChainInv, FinalizeHeader
    PROVE  ChainInv'
<1> USE DEF IInv, ChainInv
<1>1. PICK b \in Block : b = op.old /\ b # NoBlock /\ b \notin Closed
  BY DEF FinalizeHeader, At, OpOK, Closing, ClosedApart, Block, NoBlock
<1>2. /\ op.pc = "header" /\ status = "up" /\ op' = [op EXCEPT !.pc = "closed"]
      /\ header' = [header EXCEPT ![b] = obj[b].pos]
      /\ UNCHANGED <<data, registry, links, lastBlockId, age, obj, avail, status, recs>>
  BY <1>1 DEF FinalizeHeader, At, memory, history
<1>3. obj[b].pos # NoFile
  <2>1. obj[b] \in Object
    BY DEF TypeOK
  <2> QED
    BY <2>1, AreaSizeAssumption DEF Object, NoFile
<1>4. /\ header'[b] = obj[b].pos
      /\ \A x \in Block : x # b => header'[x] = header[x]
  BY <1>2 DEF TypeOK
<1>5. op'.pc = "closed" /\ op'.old = op.old /\ op'.new = op.new
  BY <1>2 DEF TypeOK
<1>6. Recorded' = Recorded /\ Closed' = Closed /\ Available' = Available
  BY <1>2 DEF Recorded, Closed, Available
<1>7. BlocksRecorded'
  BY <1>2, <1>3, <1>4, <1>5, <1>6 DEF BlocksRecorded, Creating, Recorded
<1>8. ChainGoesBack' /\ LinksOK' /\ ClosedApart'
  BY <1>2, <1>5, <1>6 DEF ChainGoesBack, LinksOK, ClosedApart, Creating
<1>9. HeadersCover'
  <2>1. \A r \in recs : r.block \in Block
    BY DEF TypeOK, Record
  <2>2. ClosedHeaderCoversRecords'
    BY <1>1, <1>2, <1>4, <2>1 DEF HeadersCover, ClosedHeaderCoversRecords, Closed
  <2> QED
    BY <1>1, <1>2, <1>4, <1>5, <2>2 DEF HeadersCover, Covers
<1> QED
  BY <1>7, <1>8, <1>9

\* The block is closed with the header written before, and the next block, which
\* is another one, becomes available.
LEMMA FinalizeClosedChain ==
    ASSUME IInv, ChainInv, FinalizeClosed
    PROVE  ChainInv'
<1> USE DEF IInv, ChainInv
<1>1. PICK b \in Block : b = op.old /\ b # NoBlock /\ b \in Recorded
  BY DEF FinalizeClosed, At, OpOK, Closing, BlocksRecorded, Block, NoBlock
<1>2. PICK n \in Block : n = op.new /\ n # b /\ n \in Recorded /\ n \notin Closed
  BY <1>1 DEF FinalizeClosed, At, OpOK, Creating, BlocksRecorded, ClosedApart
<1>3. /\ op.pc = "closed" /\ status = "up" /\ op' = [op EXCEPT !.pc = "store"]
      /\ obj' = [obj EXCEPT ![b].state = "kClosed"]
      /\ registry' = [registry EXCEPT ![b].state = "kClosed"]
      /\ avail' = [avail EXCEPT ![b] = NotAvailable, ![n] = FreeDataSpace(obj[n])]
      /\ UNCHANGED <<header, data, links, lastBlockId, age, status, recs>>
  BY <1>1, <1>2 DEF FinalizeClosed, At, history
<1>4. /\ \A x \in Block : x # b => obj'[x] = obj[x]
      /\ obj'[b].state = "kClosed"
  BY <1>3 DEF TypeOK, Object, ColumnDataBlockState
<1>5. op'.pc = "store" /\ op'.old = op.old /\ op'.new = op.new
  BY <1>3 DEF TypeOK
<1>6. /\ Recorded' = Recorded /\ Closed' = Closed \cup {b}
      /\ \A x \in Block : registry'[x].prev = registry[x].prev
  BY <1>1, <1>3, StateChange
<1>7. Available' \subseteq {n}
  BY <1>3 DEF Available, OpOK, TypeOK
<1>8. BlocksRecorded' /\ LinksOK'
  BY <1>2, <1>3, <1>5, <1>6, <1>7 DEF BlocksRecorded, LinksOK, Creating
<1>9. ChainGoesBack'
  BY <1>3, <1>5, <1>6 DEF ChainGoesBack, Recorded
<1>10. ClosedApart'
  BY <1>1, <1>2, <1>3, <1>4, <1>5, <1>6, <1>7 DEF ClosedApart, Closed
<1>11. HeadersCover'
  <2>1. \A r \in recs : r.block \in Block
    BY DEF TypeOK, Record
  <2>2. Covers(b) /\ header[b] = obj[b].pos
    BY <1>1, <1>3 DEF HeadersCover
  <2>3. \A r \in recs : r.block \in Closed' => r.pos + r.len <= header[r.block]
    BY <1>6, <2>1, <2>2 DEF HeadersCover, ClosedHeaderCoversRecords, Closed, Covers
  <2>4. ClosedHeaderCoversRecords'
    BY <1>3, <2>1, <2>3 DEF ClosedHeaderCoversRecords, Closed
  <2> QED
    BY <1>5, <2>4 DEF HeadersCover
<1> QED
  BY <1>8, <1>9, <1>10, <1>11

\* The record goes into a block that is recorded and not closed.
LEMMA StoreRecordChain ==
    ASSUME IInv, ChainInv, StoreRecord
    PROVE  ChainInv'
<1> USE DEF IInv, ChainInv
<1>1. PICK b \in Block : b = op.new /\ b \in Recorded /\ b \notin Closed
  BY DEF StoreRecord, At, OpOK, Creating, BlocksRecorded, ClosedApart
<1> DEFINE n == [block |-> b, pos |-> obj[b].pos, len |-> op.len, tag |-> writes]
<1>2. /\ obj' = [obj EXCEPT ![b].pos = obj[b].pos + op.len]
      /\ avail' = [avail EXCEPT ![b] = AreaSize - (obj[b].pos + op.len)]
      /\ recs' = recs \cup {n}
      /\ op' = Idle /\ status = "up"
      /\ UNCHANGED <<header, registry, links, lastBlockId, age, status>>
  BY <1>1 DEF StoreRecord, At
<1>3. n.block = b
  OBVIOUS
<1> HIDE DEF n
<1>4. op'.pc = "idle" /\ op'.old = NoBlock
  BY <1>2 DEF Idle
<1>5. Recorded' = Recorded /\ Closed' = Closed
  BY <1>2 DEF Recorded, Closed
<1>6. Available' \subseteq Available \cup {b}
  BY <1>2 DEF Available, TypeOK
<1>7. \A x \in Block : obj'[x].state = obj[x].state
  BY <1>2 DEF TypeOK, Object
<1>8. BlocksRecorded'
  BY <1>1, <1>2, <1>3, <1>4, <1>5, <1>6 DEF BlocksRecorded, Creating
<1>9. ChainGoesBack' /\ LinksOK'
  BY <1>2, <1>4, <1>5 DEF ChainGoesBack, LinksOK
<1>10. ClosedApart'
  <2>1. NoBlock \notin Closed
    BY DEF Closed, Block, NoBlock
  <2> QED
    BY <1>1, <1>2, <1>4, <1>5, <1>6, <1>7, <2>1 DEF ClosedApart, Creating, Closed
<1>11. HeadersCover'
  <2>1. ClosedHeaderCoversRecords'
    BY <1>1, <1>2, <1>3 DEF HeadersCover, ClosedHeaderCoversRecords, Closed
  <2> QED
    BY <1>4, <2>1 DEF HeadersCover
<1> QED
  BY <1>8, <1>9, <1>10, <1>11

\* rollbackToAddress moves the position of the available block back.
LEMMA RollbackToAddressChain ==
    ASSUME NoEviction, IInv, ChainInv, RollbackToAddress
    PROVE  ChainInv'
<1> USE DEF IInv
<1>1. PICK b \in Block : b = last.block /\ Available = {b} /\ age[b] > 0
  BY DEF RollbackToAddress, Available, SingleAppendPoint, FreeSpaceExact
<1> DEFINE a2 == LoadedAge(b, {})
           o == [LoadedObject(b) EXCEPT !.pos = last.pos]
<1>2. /\ op.pc = "idle" /\ status = "up"
      /\ age' = a2
      /\ obj' = [Objects(age, a2, b, o) EXCEPT ![b] = o]
      /\ avail' = [avail EXCEPT ![b] = FreeDataSpace(o)]
      /\ recs' = recs \ {last}
      /\ UNCHANGED <<header, registry, links, lastBlockId, op, status>>
  BY <1>1 DEF RollbackToAddress, At, disk
<1>3. age \in [Block -> Nat] /\ obj \in [Block -> Object]
  BY DEF TypeOK
<1>4. \A x \in Block : age'[x] > 0 <=> age[x] > 0
  BY <1>1, <1>2, <1>3, LoadKeeps
<1>5. o.state = obj[b].state
  BY <1>1, <1>3 DEF LoadedObject, Object
<1> HIDE DEF a2, o
<1>6. \A x \in Block : age[x] > 0 => obj'[x].state = obj[x].state
  <2>1. \A x \in Block : Objects(age, a2, b, o)[x] =
            IF a2[x] = 0 THEN Unloaded
            ELSE IF x = b /\ age[x] = 0 THEN o ELSE obj[x]
    BY DEF Objects
  <2>2. /\ obj'[b] = o
        /\ \A x \in Block : x # b => obj'[x] = Objects(age, a2, b, o)[x]
    BY <1>2 DEF Objects
  <2> QED
    BY <1>2, <1>3, <1>4, <1>5, <2>1, <2>2
<1>7. Available' \subseteq Available
  BY <1>1, <1>2 DEF Available, TypeOK
<1>8. op'.pc = "idle" /\ op'.old = NoBlock
  <2>1. op.old = NoBlock
    BY <1>2 DEF ChainInv, BlocksRecorded
  <2> QED
    BY <1>2, <2>1
<1>9. status' = "up" => \A x \in Recorded : x <= lastBlockId'
  BY <1>2 DEF ChainInv, ChainGoesBack
<1> QED
  BY <1>2, <1>4, <1>6, <1>7, <1>8, <1>9, IdleKeepsChain

\* Whatever an idle column reads into its cache comes in no state that a write
\* would take it in.
LEMMA LoadedChain ==
    ASSUME IInv, ChainInv, NEW c \in Block, op.pc = "idle",
           UNCHANGED <<header, registry, links, avail, op, recs>>,
           status' = "up" => \A x \in Recorded : x <= lastBlockId',
           \A x \in Block : x # c => (age'[x] > 0 <=> age[x] > 0),
           \A x \in Block : age[x] > 0 => obj'[x] = obj[x],
           age[c] = 0 => obj'[c] = FromFile(c)
    PROVE  ChainInv'
<1>1. Available' = Available
  BY DEF Available
<1>2. op'.pc = "idle" /\ op'.old = NoBlock
  BY DEF ChainInv, BlocksRecorded
<1>3. age[c] \in Nat
  BY DEF IInv, TypeOK
<1>4. ASSUME NEW b \in Block, age'[b] > 0
      PROVE  \/ obj'[b].state \notin {"kCurrent", "kAvailable"}
             \/ age[b] > 0 /\ obj'[b].state = obj[b].state
  <2>1. CASE age[b] > 0
    BY <2>1
  <2>2. CASE ~(age[b] > 0)
    <3>1. b = c /\ age[c] = 0
      BY <2>2, <1>3, <1>4
    <3>2. obj'[b].state = "kCreating"
      BY <3>1 DEF FromFile
    <3> QED
      BY <3>2
  <2> QED
    BY <2>1, <2>2
<1> QED
  BY <1>1, <1>2, <1>4, IdleKeepsChain

\* readRecord brings a block into the cache.
LEMMA ReadRecordChain ==
    ASSUME NoEviction, IInv, ChainInv, NEW r \in recs, ReadRecord(r)
    PROVE  ChainInv'
<1> USE DEF IInv
<1>1. PICK c \in Block : c = r.block /\ header[c] # NoFile
  BY DEF TypeOK, Record, FilesExist
<1>2. /\ LoadBlock(c, {}) /\ status = "up" /\ op.pc = "idle"
      /\ UNCHANGED <<header, registry, links, lastBlockId, avail, op, status, recs>>
  BY <1>1 DEF ReadRecord, At, disk, history
<1>3. /\ \A x \in Block : x # c => (age'[x] > 0 <=> age[x] > 0)
      /\ \A x \in Block : age[x] > 0 => obj'[x] = obj[x]
      /\ age[c] = 0 => obj'[c] = FromFile(c)
  BY <1>1, <1>2, LoadBlockStep
<1>4. status' = "up" => \A x \in Recorded : x <= lastBlockId'
  BY <1>2 DEF ChainInv, ChainGoesBack
<1> QED
  BY <1>2, <1>3, <1>4, LoadedChain

\* A process death leaves the files and the registry as they are.
LEMMA CrashChain ==
    ASSUME IInv, ChainInv, Crash
    PROVE  ChainInv'
<1>1. /\ status' = "down" /\ op' = Idle
      /\ age' = [b \in Block |-> 0]
      /\ avail' = [b \in Block |-> NotAvailable]
      /\ UNCHANGED <<header, registry, links, recs>>
  BY DEF Crash, disk
<1>2. op'.pc = "idle" /\ op'.old = NoBlock
  BY <1>1 DEF Idle
<1>3. Available' = {} /\ \A x \in Block : ~(age'[x] > 0)
  BY <1>1 DEF Available
<1> QED
  BY <1>1, <1>2, <1>3, IdleKeepsChain

\* The last block identifier comes from the registry: no recorded block is past it.
LEMMA RestartChain ==
    ASSUME NoEviction, IInv, ChainInv, Restart
    PROVE  ChainInv'
<1> USE DEF IInv
<1>1. /\ status = "down" /\ status' = "up" /\ lastBlockId' = LastRecordedBlockId
      /\ UNCHANGED <<header, registry, links, avail, op, recs>>
  BY DEF Restart, disk, history
<1>2. op.pc = "idle" /\ op.old = NoBlock
  BY <1>1 DEF OpOK, Idle
<1>3. \A x \in Recorded : x <= lastBlockId'
  <2> SUFFICES ASSUME Recorded # {} PROVE \A x \in Recorded : x <= lastBlockId'
    OBVIOUS
  <2>1. Recorded \subseteq 0..MaxBlocks
    BY DEF Recorded, Block
  <2>2. \E x \in Recorded : \A y \in Recorded : y <= x
    BY <2>1, NatMax, BoundsAssumption
  <2> QED
    BY <1>1, <2>2 DEF LastRecordedBlockId
<1>4. CASE FirstBlock = NoBlock
  <2>1. UNCHANGED <<age, obj>>
    BY <1>4 DEF Restart
  <2>2. Available' = Available
    BY <1>1 DEF Available
  <2> QED
    BY <1>1, <1>2, <1>3, <2>1, <2>2, IdleKeepsChain
<1>5. CASE FirstBlock # NoBlock
  <2> DEFINE files == {b \in Block : header[b] # NoFile}
  <2>1. files # {} /\ FirstBlock = CHOOSE b \in files : \A c \in files : b <= c
    BY <1>5 DEF FirstBlock
  <2>2. files \subseteq Nat
    BY DEF Block
  <2>3. FirstBlock \in files
    <3> HIDE DEF files
    <3> QED
      BY <2>1, <2>2, NatMin
  <2>4. PICK c \in Block : c = FirstBlock /\ header[c] # NoFile
    BY <2>3
  <2>5. LoadBlock(c, {})
    BY <1>5, <2>4 DEF Restart
  <2>6. /\ \A x \in Block : x # c => (age'[x] > 0 <=> age[x] > 0)
        /\ \A x \in Block : age[x] > 0 => obj'[x] = obj[x]
        /\ age[c] = 0 => obj'[c] = FromFile(c)
    BY <2>4, <2>5, LoadBlockStep
  <2> QED
    BY <1>1, <1>2, <1>3, <2>4, <2>6, LoadedChain
<1> QED
  BY <1>4, <1>5

\* A column that fails to load changes nothing.
LEMMA RestartFailsChain ==
    ASSUME IInv, ChainInv, RestartFails
    PROVE  ChainInv'
<1>1. /\ status = "down" /\ status' = "failed"
      /\ UNCHANGED <<header, registry, links, age, obj, avail, op, recs>>
  BY DEF RestartFails, disk, memory, history
<1>2. op'.pc = "idle" /\ op'.old = NoBlock
  BY <1>1 DEF IInv, OpOK, Idle
<1>3. Available' = Available
  BY <1>1 DEF Available
<1> QED
  BY <1>1, <1>2, <1>3, IdleKeepsChain

\* A new column has no blocks.
LEMMA InitChain ==
    ASSUME Init
    PROVE  ChainInv
<1> USE DEF Init
<1>1. Available = {} /\ op.pc = "idle" /\ op.old = NoBlock
  BY DEF Available, Idle
<1>2. Recorded = {} /\ Closed = {}
  BY DEF Recorded, Closed, Unrecorded
<1>3. BlocksRecorded /\ ChainGoesBack /\ LinksOK
  BY <1>1, <1>2 DEF BlocksRecorded, ChainGoesBack, LinksOK, Creating
<1>4. ClosedApart /\ HeadersCover
  BY <1>1, <1>2 DEF ClosedApart, HeadersCover, ClosedHeaderCoversRecords, Creating
<1> QED
  BY <1>3, <1>4 DEF ChainInv

\* Every step of the column keeps the chain of blocks in order.
LEMMA NextChain ==
    ASSUME NoEviction, IInv, ChainInv, [Next]_vars
    PROVE  ChainInv'
<1>1. CASE \E len \in Lengths : SelectNew(len) \/ SelectFit(len) \/ SelectNext(len)
  BY <1>1, SelectNewChain, SelectFitChain, SelectNextChain
<1>2. CASE ScanNextBlock \/ ScanEnds
  BY <1>2, ScanNextBlockChain, ScanEndsChain
<1>3. CASE CreateBlockFile \/ RecordBlock \/ AddNextBlock
  BY <1>3, CreateBlockFileChain, RecordBlockChain, AddNextBlockChain
<1>4. CASE CreateBlockFileFails
  BY <1>4, GiveUpChain DEF CreateBlockFileFails, disk, history
<1>5. CASE ObtainPrevDigest
  <2>1. CASE HavePrevDigest
    BY <1>5, <2>1, TakePrevDigestChain DEF ObtainPrevDigest
  <2>2. CASE ~HavePrevDigest
    BY <1>5, <2>2, GiveUpChain DEF ObtainPrevDigest, PrevDigestMissing, disk, memory,
       history
  <2> QED
    BY <2>1, <2>2
<1>6. CASE FinalizeClosing \/ FinalizeHeader \/ FinalizeClosed
  BY <1>6, FinalizeClosingChain, FinalizeHeaderChain, FinalizeClosedChain
<1>7. CASE StoreRecord
  BY <1>7, StoreRecordChain
<1>8. CASE StoreRecordFails
  BY <1>8, GiveUpChain DEF StoreRecordFails, memory, history
<1>9. CASE RollbackToAddress \/ \E r \in recs : ReadRecord(r)
  BY <1>9, RollbackToAddressChain, ReadRecordChain
<1>10. CASE Crash \/ Restart \/ RestartFails
  BY <1>10, CrashChain, RestartChain, RestartFailsChain
<1>11. CASE UNCHANGED vars
  BY <1>11 DEF vars, ChainInv, BlocksRecorded, ChainGoesBack, LinksOK, ClosedApart,
     HeadersCover, ClosedHeaderCoversRecords, Recorded, Closed, Available, Covers
<1> QED
  BY <1>1, <1>2, <1>3, <1>4, <1>5, <1>6, <1>7, <1>8, <1>9, <1>10, <1>11
     DEF Next, WriteStep

\* The two invariants hold together.
THEOREM ChainInvariant ==
    ASSUME NoEviction
    PROVE  Spec => [](IInv /\ ChainInv)
<1>1. Init => IInv /\ ChainInv
  BY InitIInv, InitChain
<1>2. (IInv /\ ChainInv) /\ [Next]_vars => (IInv /\ ChainInv)'
  BY NextIInv, NextChain
<1> QED
  BY <1>1, <1>2, PTL DEF Spec

\* After any crash a record can be found again: createBlock records a block before
\* data goes into it, and recordBlock points back to a block recorded before.
THEOREM RecordsStayReachable ==
    ASSUME NoEviction
    PROVE  Spec => []RecordsReachable
<1>1. IInv /\ ChainInv => RecordsReachable
  BY DEF IInv, FilesExist, ChainInv, BlocksRecorded, ChainGoesBack, RecordsReachable
<1> QED
  BY <1>1, ChainInvariant, PTL

\* ColumnDataBlock::finalize writes a header that covers every record of the block,
\* and no record is added to the block afterwards.
THEOREM HeadersCoverRecords ==
    ASSUME NoEviction
    PROVE  Spec => []ClosedHeaderCoversRecords
<1>1. IInv /\ ChainInv => ClosedHeaderCoversRecords
  BY DEF ChainInv, HeadersCover
<1> QED
  BY <1>1, ChainInvariant, PTL

\* No step changes the data, the header or the registry entry of a closed block.
THEOREM ClosedStaysClosed ==
    ASSUME NoEviction
    PROVE  Spec => ClosedBlocksImmutable
<1>1. ASSUME IInv, ChainInv, [Next]_vars, NEW b \in Block, registry[b].state = "kClosed"
      PROVE  data'[b] = data[b] /\ header'[b] = header[b] /\ registry'[b] = registry[b]
  <2> USE DEF IInv, ChainInv
  <2>1. b \in Closed /\ header[b] # NoFile
    BY <1>1 DEF Closed, BlocksRecorded, Recorded
  <2>2. CASE UNCHANGED <<header, data, registry>>
    BY <2>2
  <2>3. CASE CreateBlockFile
    <3>1. /\ header[lastBlockId + 1] = NoFile /\ UNCHANGED <<data, registry>>
          /\ header' = [header EXCEPT ![lastBlockId + 1] = 0]
      BY <2>3 DEF CreateBlockFile
    <3> QED
      BY <2>1, <3>1 DEF TypeOK
  <2>4. CASE RecordBlock
    <3>0. op.pc \in Creating
      BY <2>4 DEF RecordBlock, At, Creating
    <3>1. b # op.new
      BY <1>1, <2>1, <3>0 DEF ClosedApart
    <3> QED
      BY <2>4, <3>1 DEF RecordBlock, TypeOK
  <2>5. CASE FinalizeClosing \/ FinalizeHeader \/ FinalizeClosed
    <3>0. op.pc # "store"
      BY <2>5 DEF FinalizeClosing, FinalizeHeader, FinalizeClosed, At
    <3>1. b # op.old
      BY <1>1, <2>1, <3>0 DEF ClosedApart
    <3>2. CASE FinalizeClosing
      BY <3>1, <3>2 DEF FinalizeClosing, TypeOK
    <3>3. CASE FinalizeHeader
      BY <3>1, <3>3 DEF FinalizeHeader, TypeOK
    <3>4. CASE FinalizeClosed
      BY <3>1, <3>4 DEF FinalizeClosed, TypeOK
    <3> QED
      BY <2>5, <3>2, <3>3, <3>4
  <2>6. CASE StoreRecord \/ StoreRecordFails
    <3>0. op.pc \in Creating
      BY <2>6 DEF StoreRecord, StoreRecordFails, At, Creating
    <3>1. b # op.new
      BY <1>1, <2>1, <3>0 DEF ClosedApart
    <3>2. UNCHANGED <<header, registry>>
      BY <2>6 DEF StoreRecord, StoreRecordFails
    <3>3. \/ data' = Overwritten(op.new, obj[op.new].pos, op.len, writes)
          \/ data' = Overwritten(op.new, obj[op.new].pos, op.len, Torn)
      BY <2>6 DEF StoreRecord, StoreRecordFails
    <3>4. ASSUME NEW f, data' = [data EXCEPT ![op.new] = f] PROVE data'[b] = data[b]
      BY <3>1, <3>4 DEF TypeOK
    <3>5. data'[b] = data[b]
      BY <3>3, <3>4 DEF Overwritten
    <3> QED
      BY <3>2, <3>5
  <2>7. ASSUME Next
        PROVE  \/ UNCHANGED <<header, data, registry>>
               \/ CreateBlockFile \/ RecordBlock
               \/ FinalizeClosing \/ FinalizeHeader \/ FinalizeClosed
               \/ StoreRecord \/ StoreRecordFails
    BY <2>7 DEF Next, WriteStep, SelectNew, SelectFit, SelectNext, ScanNextBlock,
       ScanEnds, CreateBlockFileFails, AddNextBlock, ObtainPrevDigest, TakePrevDigest,
       PrevDigestMissing, RollbackToAddress, ReadRecord, Crash, Restart, RestartFails,
       disk
  <2> QED
    BY <1>1, <2>2, <2>3, <2>4, <2>5, <2>6, <2>7 DEF vars
<1>2. IInv /\ ChainInv /\ [Next]_vars =>
        [\A b \in Block : registry[b].state = "kClosed" =>
              /\ data'[b] = data[b]
              /\ header'[b] = header[b]
              /\ registry'[b] = registry[b]]_vars
  BY <1>1
<1> QED
  BY <1>2, ChainInvariant, PTL DEF Spec, ClosedBlocksImmutable

================================================================================
