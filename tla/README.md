# Siodb: TLA+ models, checks and proofs

Siodb is a database server written in C++ with a REST front end in Go.  This
directory holds TLA+ models of the parts of it that are hard to test: the storage
of columns, texts and the index of a table across refused writes and crashes, the
statements that change and read tables, the arithmetic of values, the system catalog
with its users and permissions, the connections between the REST server and the IO
manager, the session of an SQL client through its connection worker, and the threads of the
IO manager.  Each model is checked with TLC on small instances; the safety properties
of all of them but `Query` are proved with TLAPS for every value of their constants.

`PROJECT.json` lists the components, the runs, for every definition the source
lines it models, the disagreements between code and documents that were met, the
hazards, and the theorems.

## The system

    siodb (supervisor) --starts--> siodb_iomgr   siodb_rest_server   siodb_conn_worker (one per SQL client)

    SQL client  -> conn_worker  --protobuf-->  +---------------- siodb_iomgr -----------------+
    HTTP client -> rest_server  --protobuf-->  | connection manager -> connection handlers    |
                   (pool of connections)       |   -> dispatcher -> executor -> RequestHandler |
                                               |   -> Instance -> Database -> Table -> Column   |
                                               |   -> data blocks, block registry, block cache  |
                                               +------------------------------------------------+

| Component | State | Operations | Interaction | What is hard about it | What makes it correct |
|---|---|---|---|---|---|
| Column storage (`Column`, `ColumnDataBlock`) | block files, `m_lastBlockId`, `m_availableDataBlocks` | write a record, read one, roll back the last one, close a block and make the next, load | called by `Table` under `Column::m_mutex` | the process may die between any two writes to disk; the end of the data of an open block is only in memory | a record whose address was returned stays as it was written and can be found |
| Block registry | block list file, next block list file | record a block, link it, change its state, find next blocks | called by `Column` and `ColumnDataBlock::finalize` | files written one after the other | every block with a record is registered; the chain leads back to the first block |
| Block cache | LRU of block objects | get, emplace, evict | shared by the columns | an evicted object loses what it has in memory | a reloaded block equals the evicted one |
| REST connection pool | channel of idle connections, `totalConnNum` | get, return, create in the background, close all | goroutines of HTTP requests | every operation interleaves with every other; blocking without a timeout | exact count, one user per connection, nobody waits for ever |
| REST request handlers / IO manager REST handler | one connection, a request ID | send a request, a body in chunks; answer; stream JSON | two processes over a socket | timeouts, errors in the middle, connections that are used again | an answer belongs to its request; the connection is clean for the next one |
| IO manager threads | two queues, futures, list of handlers | accept, read, submit, dispatch, execute, shut down | seven kinds of threads, weak and shared pointers | lifetime of handlers, lost wake-ups, joins | every statement is executed, the answer has a connection, the process stops |
| Tables and their DML | columns, master column, row IDs, main index | insert, update, delete, roll back a row | `Column`, `Index`; called by the request handlers | one write of several is refused; the statement changes what its cursor runs over | a row is there completely or not at all; versions form a chain |
| Text and BLOB columns | chunks over several blocks, free space per block | write, copy a stream, read, roll back | `Column` | the block changes in the middle of a value | a text reads back as it was written |
| Unique linear index | files of records, their buffers, a cache, the ends of the key range | insert, update, erase, find, next and previous key | master column | two writes make one change; buffers and files may differ | a change is atomic; neighbours are found |
| Values and expressions | typed values | conversion, arithmetic, comparison, storing | request handlers, columns | hand-written cases for every pair of types | the result is the integer it denotes while it is in range, and of the type by which the client decodes it |
| Queries | cursors, slots of values, the row set being written | SELECT with WHERE, OFFSET, LIMIT | `TableDataSet` | slots are reused; an error in the middle of rows | the rows written are a prefix of the result |
| Catalog | registries in memory, rows of the system tables | CREATE TABLE, DROP TABLE, start | `Table` for system tables | a statement writes a dozen rows one by one; definitions are shared | the next start succeeds and finds every table |
| Permissions | `User` objects, rows of SYS_USER_PERMISSIONS | GRANT, REVOKE, grant to the creator, revocation at DROP | `Catalog` | memory first, then the row | both agree |
| Users, access keys, tokens | rows, `m_userRegistry`, `User` objects | CREATE, ALTER, DROP, lookup, start | logins | three copies, changed one after the other | a login succeeds when the statements say so; the superuser is never locked out |
| Supervisor | child processes, restart history | start, restart, give up, stop | signals, `waitpid` | a child that dies while it is stopped | a process that must run runs; stopping ends |
| SQL session (`siocli`, connection worker, `IOManagerSqlConnectionHandler`) | two connections, the expected response number and count at each end | authenticate, send a command, relay responses and rows, execute statement after statement | three processes over two sockets | each of them may go at any time; responses are read ahead; errors leave the numbering | what is printed as result k is the result of statement k; every command ends; the session ends with its client |

The remaining components (parsers, ciphers, streams, the REST client, options) are
listed in `PROJECT.json` with the reason for leaving them out.

## Modules

| Module | What it models |
|---|---|
| `ColumnStore` | one column, its block files, registry, cache and list of available blocks, with crashes and restarts |
| `ColumnStoreProofs` | theorems about `ColumnStore` |
| `MCColumnStore` | instances of it for TLC |
| `RestConnPool` | the pool of the REST server, its requests, creator goroutines and shutdown |
| `MCRestConnPool` | instances of it |
| `RestExchange` | the requests over one connection between the REST server and the IO manager |
| `MCRestExchange` | instances of it |
| `RequestPipeline` | the threads of the IO manager from the listener to the executor |
| `MCRequestPipeline` | instances of it |
| `ServerProofs` | theorems about `RestConnPool`, `RestExchange` and `RequestPipeline` |
| `SqlSession` | one session of an SQL client: `siocli`, its connection worker and its handler in the IO manager |
| `SqlSessionProofs` | theorems about `SqlSession` |
| `MCSqlSession` | instance of it |
| `AtomicIndex` | what an index promises: requests take effect at once or not at all |
| `LinearIndex` | the unique linear index with files, buffers, cache, crashes and restarts |
| `LinearIndexProofs` | `LinearIndex` implements `AtomicIndex`; theorems about the ends and neighbours of keys |
| `MCLinearIndex` | instances of it |
| `TableDml` | INSERT, UPDATE and DELETE on one table, with refused writes |
| `TableDmlProofs` | theorems about `TableDml` |
| `MCTableDml` | instances of it |
| `TextColumn` | texts and binaries as chains of chunks over blocks |
| `TextColumnProofs` | theorems about `TextColumn` |
| `MCTextColumn` | instance of it |
| `Variants` | values of the integer types, operators, comparisons, CAST and storing |
| `VariantsProofs` | theorems about `Variants` |
| `MCVariants` | instances of it |
| `Query` | the execution of SELECT statements |
| `MCQuery` | statements and tables for it |
| `Permissions` | permissions of users on tables, in memory and in their rows |
| `Accounts` | users, access keys and tokens, in memory and in their rows; extends `Permissions` |
| `Catalog` | CREATE TABLE, DROP TABLE and the start of a database; extends `Accounts` |
| `CatalogProofs` | theorems about `Catalog`, `Accounts` and `Permissions` |
| `MCCatalog` | instances of it |

Operators that end in `Mutant` are faulty variants of the definition that follows
them.  They are no part of a specification: they document which fault of the code
each property detects.

### ColumnStore

Files are `header` (the `m_nextDataOffset` stored in a block file), `data`, `registry`
and `links`; they survive `Crash`.  Memory is `lastBlockId`, `age` and `obj` (the LRU
cache with its block objects) and `avail` (`m_availableDataBlocks`).  A byte holds the
number of the write that left it, so that an overwritten record can be told from an
intact one.  `recs` are the records whose addresses the column has returned.

A write follows `writeRecord`: `SelectFit`, `SelectNew` or `SelectNext`
(`selectAvailableBlockUnlocked`), `ScanNextBlock` (`createOrGetNextBlock`),
`CreateBlockFile`, `RecordBlock`, `AddNextBlock` (`createBlock`), `ObtainPrevDigest`,
`FinalizeClosing`, `FinalizeHeader`, `FinalizeClosed` (`finalize`) and `StoreRecord`.
`Column::m_mutex` is held all along; the steps are separate because the process may
die between them.  Errors are `CreateBlockFileFails`, `PrevDigestMissing` (a branch of
`ObtainPrevDigest`) and `StoreRecordFails`.  The other operations are `RollbackToAddress`, `ReadRecord`, `Crash`,
`Restart` and `RestartFails`.

What the model shows about the code without being a fault of the model:

- A block loaded from its file is in the state `kCreating`, whatever the registry says,
  so that `checkDataConsistency` stops at the first block and no block is available
  after a restart.  Every start therefore begins a new chain of blocks.  This wastes space
  but keeps records intact: the position of an open block is lost with the process.
- `findNextBlockIds` takes file offset 0 for "no record", so that the first link is never
  found.

### RestConnPool

`place` says for each connection ever made where it is: in the channel (`idle`), with a
request (`held`, or `broken` when an error has closed it), with a creator goroutine
(`pushing`), and so on.  `Arrive`, `Receive`, `ExchangeKeeps`, `ExchangeBreaks`,
`ReturnKept` and `ReturnBroken` are a request; `CreatorRefused`, `CreatorDialFails`,
`CreatorDials` and `CreatorPushes` its creator; `Terminate`, `DrainOne` and `DrainEnds`
the shutdown.  The mutex is held between two actions only by `CloseAllConnections`.

### RestExchange

`up` and `down` are the two directions of a connection as sequences of frames.  A frame is
a message or a chunk.  What one end reads where it expects something else is modelled by
what the code makes of the bytes: a chunk read as a request closes the connection
(`SrvMisreads`), a request read as a chunk is swallowed (`SrvSwallows`,
`SrvSwallowsEnd`), a response to another request is refused (`ReadForeign`).  Thirteen
kinds of requests stand for the paths through both programs.

Assumed: the bytes of a JSON chunk are never mistaken for a response.  A chunk whose length
equals the number of the message type would be read as one if its bytes parsed as a
protocol buffer; JSON text does not.

### RequestPipeline

`conn` and `owned` are the lifetime of a connection handler: its connection, and whether
the list of the manager refers to it.  The executor is the only other owner, while it runs
a request.  Whoever drops the last reference runs the destructor, which destroys the
connection and joins the thread (`ExecutorReleases`, `ExecutorSetsResult`, `MainDrops`,
`MainJoinsHandler`).  `crashed` records the use of a null connection.

Simplifications: one connection manager stands for the four of the program, which are
destroyed one after the other; the order in which the list destroys handlers is left open;
the two steps of the SQL authentication are part of the refusal of a request; the unlocked
`push_back` into the list of handlers, a data race with the cleanup, is taken as atomic.

### SqlSession

`up`, `down`, `req` and `rsp` are the two connections as sequences of frames: a message, the
data of a row, the end of a row set.  The client authenticates (`ClientBegins`,
`ClientAuthenticates`), sends commands (`ClientSends`) and reads the announced number of
responses (`ClientResponse`, `ClientRow`).  Its input stream `buf` is made anew for each
response, so that `ClientNext` drops what it had read ahead; how much a read gets is open on a
plain connection, and one record with TLS (`ClientFills`).  The worker has one stream for the
session and relays (`WorkerAuthenticates`, `WorkerAnswers`, `WorkerCommand`, `WorkerResponse`,
`WorkerRow`); the handler parses the command and executes its statements one after the other
(`HandlerReads`, `HandlerExecutes`).  Each end may go at any time: `ClientLeaves` and
`ServerDies`, which may cut off what was sent, even within a row (`HalfRow`).

A message that is read where rows are expected is data of rows, or has a zero byte that ends
the row set and leaves a remainder (`Rest`).  Left out: reads that end within a frame, but for
a row that the death of the server cut off; the worker's signal handler, which ends the
process; the content of challenges and signatures.  A client that connects again has a new
session with a new worker.

### AtomicIndex and LinearIndex

A record of an index file is a state byte and two values; `mem` is the buffer of an open
file, `disk` the file.  A request (`Request`, `FindRecord`, `FindNothing`) creates the file
if needed (`CreateIndexFile`, `RegisterFile`), writes the value that is not selected
(`WriteValue`) and then the state byte that selects it (`WriteState`).  Each of these may be
refused (`...Fails`), and the process may die at each (`Crash`, with a torn value when it
dies within one).  `Evict` closes a file of the cache, `Restart` scans the files for the ends
of the key range.  `AtomicIndex` knows nothing of files: a request changes one key in one
step, or nothing; only a refused write makes its key `Unknown`, until it is written again or
the file is read again.  The refinement mapping shows a key as the value its record selects
on disk, and as `Unknown` where buffer and file differ.

### TableDml

`log` are the columns as append-only stores, `master` is the master column, `index` the main
index with its `ends`; its keys lie in files of `N` records, and the next one is searched as
`LinearIndex` does (`KeyAfter`), also after the last record of a file.  A statement is checked (`BeginInsert`, `BeginScan`) and then works row by row:
`InsertStep`, `UpdateStep`, `DeleteStep` and `Skip`, with the cursor of `TableDataSet`
(`FirstKey`, `NextKey`) running over the index that the statement changes.  The writes of
one row are one step with a choice of where it fails, which for a DELETE includes the exception
that the index throws after the erasure when it finds no new end (`NoNeighbour`); what is then
rolled back, and what is not, follows `rollbackLastRow` and the handlers of exceptions.  `want` is what the
successful operations define, the reference for `RowsIntact`.  `torn`, `stale` and `damaged`
only record which of the deviations below have happened, for the properties, and `crossed` at
which keys the cursor has started again in its file.

### TextColumn

`pos` are the positions of the blocks, `chunks` the intact chunks, `avail` is the list of available blocks with the free
space it records.  `BeginText` or
`BeginCopy` select a block, `WriteChunk`, `Link` and `NextBlock` write a text over several
blocks, `EndWrite` updates the list, `Rollback` is `rollbackToAddress`.  `ReadsBack` follows
`ColumnLobStream` through the chain.

### Variants

An expression is evaluated operator by operator in an accumulator.  Beside it run the column
data type that `getColumnDataType` gives it, by which SELECT describes the result column to the
client (`described`), and the integer that it denotes.  The widths of the types are
constants; the run uses 2, 3, 4 and 5 bits, so that every boundary is near.  Values move
between the accumulator and typed columns by `Stored`.  The operators on bits are tables for
one bit (`BitByBit`) over two's complement.

### Query

Statements and tables come from the sets of `MCQuery`.  The model follows
`executeSelectRequest`: references are looked up and get slots (`PlaceArgument`), the cursors
move as in an odometer (`Moved`), each to the row that `findNextKey` returns (`NextRow`), WHERE is evaluated on lazily read slots, rows are skipped,
counted and written.  `Result` is the reference: the filtered cross product, cut by OFFSET
and LIMIT.  Values that cannot be read or evaluated (`Bad`, `Torn`) make the errors.

### Permissions, Accounts and Catalog

A catalog object is a tuple of kind, table and column.  `rows` are the rows of the system
tables, `registry` the objects in memory.  CREATE TABLE registers everything
(`BeginCreate`), writes the rows in the order of `recordTableDefinition` (`RecordRow`) and
grants the permissions of the creator (`EndCreate`).  DROP TABLE collects what belongs to
the table, erases row after row (`EraseRow`), then forgets the objects (`Unregister`), revokes the
permissions and removes the data directory (`EndDrop`, or `EndDropFails` when a permission cannot
be revoked).  `rows` are what the files hold; an erasure that is refused may have freed the key in
the buffer of the index all the same (`freed`), and then no later DROP TABLE reaches the file.
`removed` are the tables without a data directory.  `Restart` may come at any row; `Loads` is the sum of the checks of
the readers and of `checkDataConsistency`.  One column beside the master column stands for
the columns of a table.  `torn`, `halfErased`, `complete` and `drifted` only record what has
happened, for the properties.  The rows of the `MaxTables` tables are assumed to lie in one file of
each main index, because the readers of a start go from row to row with `findNextKey`.  A definition
that is recorded anew while an erased row of the same content is still in its file is one row here
and two of equal content in the code.  `Permissions` changes the `User` object first and the row
afterwards, as the code does.

`Accounts` keeps each account three times, as the code does: `stored` are the rows,
`registered` is `m_userRegistry`, and `objects` are the `User` objects of the users that have
been looked up, by which logins are decided.  `want` is what the statements that succeeded
have asked for.  A statement changes the copies in the order of the code and then writes its
row or fails to; `DropUser` deletes row after row.  `uncertain`, `ignored` and `keyGap` record,
for the properties, which of the deviations below have happened.  A key is valid while it is
active, a token until it expires.

### How the modules fit together

`RestConnPool` proves that a connection has one user (`OneHolder`); `RestExchange` takes
this for granted and looks at one connection with its requests one after the other.  Its
"pooled" and "closed" answers are the `ExchangeKeeps` and `ExchangeBreaks` of the pool.
`RestExchange` contains the thread of one REST connection handler with its execution as
one step; `RequestPipeline` contains the way of that step through the queues, and takes
from the exchange only whether the connection goes on.  `TableDml` is what `RequestPipeline`
executes: statements come one at a time, because the dispatcher gives every request to the
first executor.  It takes columns as append-only stores, which is what `ColumnStore` and
`TextColumn` are about, and its index as a function, which `LinearIndex` implements
(`IndexIsAtomic`), with the search for neighbours of `LinearIndex`.  `Query` reads the rows that `TableDml` leaves; `Variants` is the
arithmetic of its expressions.  `Catalog` extends `Accounts` and `Permissions`; its rows are rows of tables,
each written by one `InsertStep` of `TableDml`.  `SqlSession` contains the thread of one SQL
connection handler, again with the execution of a statement as one step; its statements of the
kind `breaks` are the exceptions in a row set that `Query` answers with a second response.

## Runs

`pass` runs hold on all reachable states of their instance.  A `violation` run states what a
comment or document says, and TLC finds a behaviour of the code that disagrees; its finding in
`PROJECT.json` quotes both.

| Run | Result | What it shows |
|---|---|---|
| `column` | pass | With a cache that holds all blocks: records stay intact (`RecordsIntact`), the list of available blocks agrees with the blocks (`FreeSpaceExact`), records can be reached after any crash (`RecordsReachable`), the header of a closed block covers its records (`ClosedHeaderCoversRecords`), one block at a time takes data (`SingleAppendPoint`) and closed blocks do not change (`ClosedBlocksImmutable`) |
| `column_overwrite` | violation of `RecordsIntact` | An available block that is evicted comes back with the position of its header, and its records are overwritten |
| `index` | pass | The files change by whole requests, whatever write the process dies at (`ImplementsAtomicIndex`); without refused writes the ends of the key range are exact (`EndsAreExact`) and neighbours are found, but for the next key of the last record of a file (`NeighboursFoundInFile`) |
| `table` | pass | With any write refused: the table holds the rows that the statements define (`RowsIntact`), the versions of a row form a chain (`HistoryIsChained`), row IDs are not used twice (`TridsNotReused`); over two index files, a statement that succeeds has treated only rows that fit, once each, and has missed none but rows behind the end of a file (`StatementIsComplete`) |
| `text` | pass | Texts of zero to three blocks with refused writes and rollbacks read back (`TextsReadBack`) |
| `variants` | pass | A result in range is the integer that the expression denotes (`ExactWhileInRange`), of the type by which SELECT describes it (`DescribedTypeIsActual`), and comparisons agree with the order of the integers (`OrderIsExact`) |
| `query` | pass | The rows written are the rows of the result, in order, and a row never has more values than described unless `*` is mixed with other expressions (`RowsAreTheResult`), every SELECT ends (`QueryEnds`) |
| `catalog` | pass | A table keeps its rows and objects whatever happens to others (`TablesIntact`), the database opens again unless a statement broke off in its window or a repeated DROP TABLE left a row (`OpensUnlessTorn`), a new table starts without permissions of others (`NewTableIsUnshared`), permissions in memory and in rows agree (`PermissionsAreStored`), users, keys and tokens are in all copies what the statements made of them (`AccountsFollowStatements`), and the superuser can log in now and after a restart (`SuperUserCanLogIn`) |
| `pool` | pass | `TotalIsExact`, `ChannelNeverFull`, `OneHolder` with failing dials, breaking connections and a shutdown at any time; a waiting request is served as long as there is a connection (`EveryRequestServed`); the shutdown ends unless a request sits on a broken connection (`ShutdownCompletes`) |
| `exchange` | pass | All kinds of requests, slow answers, clients that leave: `AnswerIsOwn`, `SuccessMeansStored`, `EveryRequestAnswered`; and, but for the known ways to spoil a connection (`Spoils`), `NoLateExecution` |
| `pipeline` | pass | `ExecutionHasConnection` through accepts, disconnects and a shutdown at any time; a statement of a listed handler is executed (`EveryStatementExecuted`); the listener ends unless the signal misses it (`ListenerStops`) |
| `session` | pass | Results are printed for the statements they belong to (`AnswersMatch`), every command ends (`CommandAnswered`), and the session ends when its client has gone (`SessionEnds`), with each process leaving at any point |

### Deviations that the properties name

Some properties say "unless": each exception is something the code does, found by TLC
with the property stated without it.

- `EveryRequestServed` (`total = 0`): a connection that an error has closed is only
  discounted (`IOMgrConnPool.go:119`).  A request whose creator was refused before, because
  the pool was full, then waits until a later request makes a connection.
- `ShutdownCompletes` (a broken connection): `CloseAllConnections` waits for it with the lock
  held that `ReturnTrackedNetConn` needs to discount it (`IOMgrConnPool.go:71`, `:118`).
- `Spoils`: a body that is empty or a multiple of the buffer size is not ended
  (`IOMgrConnection.go:65`); a POST with an invalid name is refused before its body is read
  (`DBEngineRestRequestFactory.cpp:274`); a GET that fails after its response gets a second one
  (`RequestHandler_Rest.cpp:144`), which `RequestHandler_DQL.cpp:369` avoids for SQL; a client
  that leaves has the rest of its payload left in the connection.
- `EveryStatementExecuted` (listed handlers): the thread of a connection is started before
  the shared pointer to its handler is made (`IOManagerConnectionManager.cpp:109-112`), so that
  `shared_from_this` throws in a thread that was faster, and its request gets no answer.
- `ListenerStops` (not between test and `accept4`): SIGUSR1 is sent once
  (`IOManagerConnectionManager.cpp:50`).
- `RequestPipeline`, in the shutdown: `~IOManagerConnectionHandler` resets the connection
  before it joins the thread that uses it (`IOManagerConnectionHandler.cpp:42`); and the
  executor, when it holds the last reference to a handler, joins the thread that waits for
  the result that the executor sets only afterwards (`IOManagerRequestExecutor.cpp:28`), so
  that the shutdown hangs.
- `CommandAnswered`: on a plain connection the client's stream for one response may read the
  next one, which is lost with it (`SqlClient.cpp:62`); a command without statements gets no
  answer at all; an exception in the middle of a row set puts a response among the rows; and
  when the IO manager dies in the middle of a row, `forwardRowData` tries again for ever if
  `errno` happens not to be 0 (`ConnWorkerConnectionHandler.cpp:300`).
- `SessionEnds` (`RefusedInside`): a refused statement is answered as response 0 of 1
  (`IOManagerSqlConnectionHandler.cpp:99`, `IOManagerConnectionHandler.cpp:78`) wherever it
  stands, so that the worker waits for responses that never come, and it does not watch the
  client meanwhile.  An error of execution does not keep the following statements from being
  executed, although the comment at `IOManagerSqlConnectionHandler.cpp:128` speaks of stopping
  on error.  The worker's branch that connects to the IO manager again
  (`ConnWorkerConnectionHandler.cpp:139`) is never taken: a failing write throws another type.
- `RemoveDeadConnections`, the action, may end with `crashed`: `isConnected` dereferences the
  connection, which is null once its thread has ended (`IOManagerConnectionHandler.h:54`).  It
  is run once, at the start, instead of periodically (`IOManagerConnectionManager.cpp:39`), so
  that handlers of ended connections stay; `docs/users/docs/parameters.md:149` speaks of an
  interval.
- `recordBlockAndNextBlock` stores the previous block as a next block of the new one
  (`BlockRegistry.cpp:114`), the reverse of what `BlockRegistry.h:83` says.  The search for
  next blocks of the block that is being closed therefore looks at the blocks before it.
- A record of a fixed size type that ends exactly at the end of its block is written but
  cannot be read: `readRecord` refuses it (`Column_DataIO.cpp:35`), while
  `ColumnDataBlock.cpp:95` allows a block to be filled to its last byte.
- `NeighboursFoundInFile` (last record of a file): `findKeyAfter` counts past the last record,
  and `getRecordOffsetInMemory` reduces the number modulo the records of the file
  (`UniqueLinearIndex.cpp:794`, `FileData.h:58`), so that the scan starts over in the same file
  while the key is counted on, and returns a key of the next file that may be too far or not there.
  `Index.h:305` declares that it "Returns next key in the index."
- `StatementIsComplete` and `RowsAreTheResult` (`NextRow`): that search is the one of the cursors.
  Record 0 of the first file is never used, so that from row N - 1 the cursor goes to row N + 1:
  SELECT and UPDATE of more than N rows leave out row N and report success; with exactly N rows the
  search finds a key that is not there, and the statement ends with an error (in SELECT, with the
  end of the row set).  At the end of a later file up to N rows are missed.  A DELETE of all rows
  is exact, because it leaves no row in the file it walks through.
- The readers of a start (`Database_ReadObjects1.cpp:131` and its siblings) use it too.  The index
  files of system tables have 614 records; when the IDs of user objects of one kind cross the end of such
  a file, a row is missed or a missing key makes the start throw.  `Catalog` assumes that they do not.
- `EndsAreExact` and `NeighboursFoundInFile` (no refused write): the buffer is changed before
  the write (`FileData.cpp:44`).
- `RowsIntact`: after a refused write of the first column, `updateRow` rolls back to the old
  addresses with block IDs that were never set (`Table.cpp:422-441`); a refused record of the
  master column in UPDATE uses values that were moved away and ends the process; a refused
  index write leaves the record, and a row that was never reported.  Statements of several
  rows are not atomic, and SET accepts a column twice.
- `RowsIntact` (`torn`, DELETE): when the row at one end of the index was freed by an erasure that was
  refused, the cached end stays; erasing the row at the other end then finds no neighbour and throws
  (`UniqueLinearIndex.cpp:863`, `:883`) after the state byte was freed.  The statement fails and its
  row is gone; the record of the deletion does not count.
- `RowsIntact` (`stale`): a refused index write leaves its entry in the buffer of the index file,
  while the record in the master column that it points to is rolled back.  The next record takes
  that place, so that the entries of two row IDs lead to it; an UPDATE of all rows reaches the row
  twice, the second time from the older record, and loses what the first time set.  The
  instance of `table` has too few records for it: this exception is in the proof alone.
- `TextsReadBack`: a text whose header does not fit in the selected block is lost, because the
  required space is 10 bytes, called "LOB header size" (`Column_General.cpp:48`), while the
  header has 20 (`LobChunkHeader.h:65`); a text in three or more blocks that ends in the last
  block is unreadable until there is another one (`ColumnLobStream.cpp:84`); streams
  (`UPDATE ... SET x = x`) are stored as NULL.
- `TextColumn`, the list of available blocks: the entry of the last block of a text in several blocks is not updated, and
  the iterator is used after its entry was erased (`Column_DataIO.cpp:453`); the rollback of a
  text in several blocks is refused (`Column_General.cpp:193`).  The link to the next chunk is
  written into a block after its digest was computed.
- `ExactWhileInRange`: a negative INT8 loses its sign when it is converted; stores out of range
  wrap silently; a division by zero ends the process.
- `DescribedTypeIsActual`: CAST to UINT8 and UINT32, the unary sign of UINT32 and UINT64, and
  shifts by a number of a later type are described by another type than they return.  For the sign,
  `getSignedType` makes INT16 of UINT32 and UINT64 (`ColumnDataType.h:102`); the client reads two bytes
  of a varint.
- `OrderIsExact`: UINT32 = INT64 depends on the order of the operands.  A NULL on the right of
  `=` throws (`Variant_Comparisons.cpp:188`), where `EqualOperator.cpp:18` says that it is
  handled.
- `RowsAreTheResult`: a bare nullable BOOL column as WHERE takes a NULL that follows a TRUE for
  true, because the slot keeps its bits; an error while rows are read ends the row set as if it
  were complete (`RequestHandler_DQL.cpp:360`), although the comment there says that errors come
  only "before data serialization and writing"; other exceptions are answered with a second
  response.  NULL AND FALSE is NULL.
- `RowsAreTheResult` (`StarIsMixed`): `*` beside other references writes more values than there is room for
  (`RequestHandler_DQL.cpp:339`).
- `OpensUnlessTorn`: a crash or error between the first and the last row of a CREATE TABLE, or
  between the first erased row and the last column definition of a DROP TABLE, leaves a
  database that no start accepts; every database is loaded at the start
  (`Instance_General.cpp:290`), so that the server does not start.  A failed CREATE TABLE also
  leaves its name taken until then.
- `OpensUnlessTorn` (`LeftBehind`): `FileData::update` changes the buffer before the write
  (`FileData.cpp:44`).  When the erasure of a row of a system table is refused, DROP TABLE fails; tried
  again, it finds the key free (`UniqueLinearIndex.cpp:153`), does not write, and succeeds.  The row is
  back at the next start without its table, and the start throws.  A start that reads a part of such
  a table (`ReadInPart`) leaves a DROP TABLE unable to find the rest.
- `EndDropFails`: a permission that cannot be revoked (`Database_Common.cpp:1041`) ends DROP TABLE with
  an error when the table is gone from rows and memory; other users keep their permissions on it, and
  its data directory stays.
- `TablesIntact` (`torn`): when a DROP fails after it erased the row of a shared definition, the
  definition still counts as written, and the next table that uses it is recorded without it.
- `indexcol` rows: `recordIndexColumn` uses the ID of the index as row ID
  (`Database_RecordObjects.cpp:221`), so that a DROP before a restart does not find the row and
  leaves it behind.
- `PermissionsAreStored` (`drifted`): `updateUserPermission` updates SYS_USER_TOKENS and throws
  (`SystemDatabase_RecordObjects.cpp:257`) when the `User` object is already changed; a
  permission read at a start forgets its row (`User.cpp:48`), so that REVOKE deletes row 0 and
  the permission is back after the next start, and GRANT inserts a second row.  A permission
  without GRANT OPTION cannot be revoked (`User.cpp:221`), and DROP TABLE reaches only users in
  memory.
- `AccountsFollowStatements` (`uncertain`): a row that is refused leaves registry and object
  changed until the next start; a DROP USER that breaks off leaves its remaining rows, and the
  user is back after the next start, when of two users or keys of one name only the older is
  read.  The refused DROP of the superuser's last active key has erased it from the registry
  (`Instance_UserAccessKey.cpp:96`), so that it can be neither altered nor dropped before the
  next start.  DROP USER leaves the rows of the user's permissions, which nothing reads again
  as IDs of users are not reused.
- `AccountsFollowStatements` (`ignored`): ALTER of a token compares the expiration with the
  registry's record but never changes that record (`Instance_UserToken.cpp:143`); setting the
  expiration back to what it was at the start is taken for no change.
- `SuperUserCanLogIn` (`keyGap`): the guards count the keys of the object; when the row of a new
  key was refused and the old key is then dropped, no key is left after the next start.

Deadlock is not checked: every system here may stop, by a bound, a shutdown, a failed load
or because no client comes.  Where stopping would be a fault it is stated as a liveness
property or as an invariant.

## Bounds

- `column`: blocks of three bytes, records of one, two or three, four blocks, four
  writes, two crashes.  Three bytes are the least in which a block has records before and
  after another, and is closed both full and with room left; four writes close a block,
  fill the next, and roll back; two crashes find a registry left by a crash and crash again.
  `column_overwrite` has two objects in the cache, the least with which the code works (a block
  that is closed and the next one).
- `pool`: three requests for at most two connections of which one exists at the start.
  `MaxDials` is `MinConn` plus the number of requests and therefore never binding: each
  request has one creator.  Two breaks let both connections break.
- `exchange`: three requests, the least that shows a request damaged by one that was itself
  damaged.  One chunk stands for a body of any number of chunks:
  both ends treat all but the first end of the body alike.
- `pipeline`: one SQL and one REST connection with two requests each, the former with up to
  two statements.  Two connections are the least that puts two requests into a queue, and
  two requests that each round of a loop is followed by another.
- `session`: two commands, the least that shows what one leaves to the next; every command of
  up to two statements of all kinds, two of three with an error in the middle, and a syntax error.
- `index`: three files of two records, one of them in the cache, three requests, two values.
  Three files have one in the middle that can be missing; the cache of one makes every change
  of file an eviction.
- `table`: two columns, one of texts and one NOT NULL, three row IDs in index files of two records,
  statements of up to two rows, two failures, and another statement as long as there are fewer than four
  records and failures.  Two rows are the least with which an end of the index can be missing when
  the other one is erased, and three the least with which the cursor passes over a row at the end of
  a file; the next insertion finds the IDs exhausted.
- `text`: blocks of six units with headers of three, of which the selection asks for two, so
  that headers may not fit as in the code; texts of 0, 1, 3 and 7 units take one to three
  blocks; four texts, five blocks, one refused write.
- `variants`: literals at and beside the limits of the small types, columns of the types INT8,
  UINT32 and INT64, five operators and stores in a row.
- `query`: two tables with up to five rows in index files of four, some of them unreadable, and some hundred
  statements: every expression list with every WHERE, and all combinations of LIMIT and
  OFFSET, negative ones included.
- `catalog`: two names, two contents of constraints of which one is shared with the master column,
  three users with two names, keys with two names and tokens with one, and three IDs of either.
  A behaviour begins with one of five budgets.  The superuser alone works on tables (`MCTableBudgets`):
  two tables with two failures or restarts, so that one table breaks off beside another
  that must stay whole; or one table with four: a refused erasure, the repeated statement, a restart, and a
  failure after it that a start reads in part.  Or users are looked up as well (`MCUserBudgets`): four
  statements on accounts with another restart and no table, two of them around one table, one with two
  tables.  Four are enough for a key that is created, fails or is altered, another one that is dropped,
  and a restart in between.

## Fairness

- `RestConnPool`: the Go scheduler runs every goroutine that can run (weak fairness of each
  request and creator).  A blocked receiver of a channel is queued and served in its turn, so
  that it cannot be passed over for ever: strong fairness of `Receive` and `DrainOne`.  That an
  exchange ends is `EveryRequestAnswered` of `RestExchange` and, like it, an assumption on clients:
  the read of an HTTP body has no deadline (`IOMgrConnection.go:54`, and `RestWorker.go:58` sets no
  timeouts), so that a client that stops in the middle of its upload keeps a connection for ever, and
  neither `EveryRequestServed` nor `ShutdownCompletes` would hold.  That `net.Dial` on the
  local host returns is assumed, too.  Clients need not come, nor a signal.
- `RestExchange`: weak fairness of each end.  `ReadTimeout` is part of it because every read from
  the IO manager has a deadline.  The read of the HTTP body and the writes have none: clients are
  assumed to finish their uploads and to take their answers.  A step that depends on bytes that may look like
  something else (`SrvMisreads`) has no fairness.
- `Query`: weak fairness of the next step.  One thread executes the statement and waits for
  nobody; that the client takes the rows, or that its connection breaks, is assumed.
- `SqlSession`: weak fairness of the steps of the client, the worker and the handler, which are
  processes and a thread that the system schedules; none for sending a command, for leaving or
  for the death of the server.  That a statement ends is `QueryEnds` of `Query`.
- `RequestPipeline`: weak fairness of each thread; none for connections, for the data of
  clients or for the termination signal.  The executor writes the rows of a result itself,
  without a deadline: clients are assumed to take their rows or to go away, or else the single
  executor, and every statement after it, would wait for them.

## Proofs

`ColumnStoreProofs`, from the assumptions on the constants and `NoEviction`
(`MaxBlocks <= CacheCapacity`), which is needed: without it `column_overwrite` is a
counterexample.  The invariant `IInv` adds to the properties what they rest on:

- `FilesExist`: a block in the cache, of a record or in a link has a file, so that a block
  object made from it has a position;
- `OpOK`: what each step of a write relies on; no block is available while one is being
  closed, and the new block has room;
- `PositionsExact`: the position of a block that may take data is past all of its records.
  This, and not `RecordsIntact` alone, is preserved: a write then touches only bytes beyond
  them;
- `LastOK`: the record that may be rolled back is the last one of its block, so that moving
  the position back to it uncovers no other.

`ColumnInvariant` is `[]IInv`; from it follow `TypeCorrect`, `RecordsStayIntact`,
`OneAppendPoint`, `RoomIsThere` and `FreeSpaceStaysExact`.  There is one lemma per action;
`NatMin` and `NatMax` show that the choices of blocks (`FirstFit`, `BlockToClose`) exist, and
`NoVictim` that nothing is evicted.  A second invariant, `ChainInv`, is about the files: a block
with a record is in the registry, whose entries lead back to earlier blocks, a closed block is none
that may take data, and the position that `finalize` writes into the header covers the records of
the block, so that the header of the closed block does.  From `ChainInvariant` follow
`RecordsStayReachable`, `HeadersCoverRecords` and the action property `ClosedStaysClosed`.

`ServerProofs` has a part for each of three modules, from the assumptions on the constants only.

Of `RestConnPool`: `PoolInvariant` is the
invariant that a connection is made when it is dialed (`DialedMade`), that what a request
holds is neither idle nor uncounted (`HeldPlaces`), that no connection is lost
(`NothingLost`), and the properties themselves.  The argument is about cardinalities: what
is idle and what is not yet idle is counted together and is at most `MaxConn`, so that a
connection outside the channel leaves room in it (`RoomInChannel`).  `TotalStaysExact`,
`ChannelKeepsRoom` and `NoConnectionShared` follow.

Of `RestExchange`: `CoreInv` says that requests and
answers are in the order of their IDs (`RequestsInOrder`, `AnswersInOrder`), and that an answer of
success on its way is true (`OkMeansMade`), on a spoiled connection too.  `ClientsGetTheirOwn` and
`SuccessIsTrue` follow.  For `ErrorsAreFinal` (the action property `NoLateExecution`), `InTurn`
lists the states that both ends can be in together, as long as nothing has spoiled the connection.

Of `RequestPipeline`: a connection handler may be
destroyed by its own thread, the main thread and the executor.  The invariant says that a request
is in one place only (`PlacesDisjoint`), that its submitter waits for it (`SubmittersWait`), and that a
connection exists while its thread runs or the executor holds its handler (`ConnectionsExist`).
`OneRequestPerConnection` is the first of these, `ExecutionIsSafe` is `ExecutionHasConnection`.

`LinearIndexProofs`, from the assumptions on the constants only: `IndexIsAtomic` states that
`LinearIndex` implements `AtomicIndex`.  The invariant `IInv` says how far a request has come
(`Progress`: before the state byte is written, the value it will select is in buffer and file)
and how buffers and files may differ (`Buffers`: where their state bytes agree, so do the
selected values).  Without the latter a refused write could show up later as a change that
nobody asked for.  `IInvStep` has a case for each action; `StepRefines` maps `WriteState` to
`Apply`, refused writes to `Spoil`, `Evict` and `Restart` to `Settle`, and everything else to
`Begin`, `Abandon` or no step.  For the ends of the key range `EInv` adds that the state bytes of
buffers and files agree while no write was refused (`StatesAgree`) and that a new file holds no key
(`NewFileIsFree`): `EndsStayExact`, and from it `NeighboursAreFound`, where the scan that wraps
around is the case to argue about.

`TableDmlProofs`, from the assumptions on the constants; `ValueAssumption` says that NULL and the
absence of a row are no values.  `HistoryInv` relates the records of the master column to the
index and to the row IDs that were given (`HistoryStaysChained`, `TridsAreFresh`).
`RowsInv` says that each row has its values at the addresses of its newest record; writes and
rollbacks keep the part of the columns that counts (`Extended`).  `ScanInv` follows the cursor
of a statement through the index that the statement changes: the rows it has passed
are those that are treated, but for the rows that `Missable` names, behind the last record of a file at
which the search has started again (`StatementsAreComplete`).  For this the ends must be exact
(`EndsExact`): between two neighbours that the search finds there is no other key, unless it wrapped.  `WritesOf` and
`AddressesOf` are recursive functions; what they return is shown by induction over a set of numbers
(`SetInduction`), which follows from `<` being well-founded.

`TextColumnProofs`, from the assumptions on the sizes: a header is larger than the space by which a
block is selected (20 and 10 bytes in the code), and a block has room for a header and more.  `IInv`
says of each text that can be read that its chunks end before the positions of their blocks and
that each is linked to a chunk in a later block or is the last one, and of the text being written that
this holds up to its last chunk (`Partial`).  A write takes place from the position on (`OthersSurvive`); a
rollback goes back to where the last text began, and all other texts end before it (`BeforeFresh`).
`Reading` shows that a text of this form can be read: since links lead to later blocks, the chain
is shorter than the number of blocks.  `TextsStayReadable` follows.

`CatalogProofs`, from the assumptions on the constants; `AccountsAssumption` says that there are
IDs for the first keys, another user and other names.  There are three invariants:

- `IInv` is about permissions and IDs: what objects and rows grant agrees but for `drifted` keys, no permission
  is on a table ID that was not yet given, and the superuser has a key in its object and in the rows
  (`PermissionsStayStored`, `NewTablesAreUnshared`, `SuperUserNeverLockedOut`);
- `FollowInv` compares the three copies of the accounts of each certain user: they agree up to the expiration of
  `ignored` tokens, and an ID belongs to one user (`AccountsStayInStep`);
- `CatInv` is about the rows of tables: a table that is not torn is whole or gone (`WholeOrGone`), but
  for the one whose statement is in its window; that one is recorded (`CreateOK`) or erased (`DropOK`) up to the
  rank that the statement has reached in its order.  A row that is not erased is still to do or was freed in
  memory alone, in which case the table is torn when DROP TABLE ends; a table that a start has read in part
  is torn already.  `RowsRegistered` says that DROP TABLE finds all rows of an untorn table in the
  registries, `RemovedOK` that a table without its directory has no row that a start minds.  A definition that a
  table shares is not removable, because the table's constraint is registered (`DefinitionsThere`).
  `TablesStayIntact` and `DatabaseOpens` follow, for any number of tables whose rows lie in one file of each index.

`SqlSessionProofs`, from the assumptions on the constants; `SessionAssumption` says that a text the
parser refuses is a command of its own, because the factory refuses the whole text.  The frames
that the client may still read are in three places: its input stream, its connection to the worker,
and the worker's connection to the IO manager unless the worker is gone; `Wire` is their sequence.  The invariant says
that `Wire` is a piece of what the statements of the current command give, cut where the reader
stands (`AtIdle`, `AtResponse`, `AtRows`) and where the writer stands (`Unread`, `Running`,
`Finished`, `Quiet`), and that the results printed are those of the statements before it (`ShownOK`).  Relaying a frame then
leaves `Wire` as it is.  Errors that leave the numbering of the responses, and the death of either
server, are the cases to argue about.  `AnswersAreMatched` is `[]AnswersMatch`.

`VariantsProofs`, from the assumptions on the constants: the four widths increase, literals are
natural numbers, and the value that stands for "not exact" is no integer.  Powers of two are a
recursive function, of which positivity and monotony are shown by induction over a set of numbers.
`Wrap` is then the residue of its width: it is the identity on the range (`WrapIdentity`) and commutes
with sums, differences and products (`WrapOfSum`, `WrapOfDifference`, `WrapOfProduct`), so that an operation in
the common type of its operands is exact whenever its result lies in the described one, although the
operands may have wrapped.  `WrapThroughWidest` is the detour of a negative DEFAULT.  The type of
the result is computed twice in the code, for the description in the order of the enumeration
of column data types and for the value by the promotions of C++;
that the two agree is a lemma over all pairs.  The invariant `IInv` says that the accumulator and the
cells hold values of their types that match the integer beside them.  From `VariantInvariant` follow
`TypeCorrect`, `ArithmeticIsExact`, `DescribedTypesAreActual` and `ComparisonsAreExact`.

Only model-checked: liveness, which is out of the prover's reach, and `RowsAreTheResult` of
`Query`, whose reference result filters and concatenates sequences, so that it would need an
induction over data.
Of a cache that evicts the project only shows what goes wrong (`column_overwrite`).

## Not modelled

- Parsers of SQL, REST paths and JSON: grammars, of which the models take the outcome.
- Floating point numbers, dates, texts in expressions; LIKE, IN and BETWEEN.
- The creation of the system tables, databases as a whole, ALTER TABLE.
- The signatures and challenges of the authentication, and its races: statements change
  `m_users` and `m_userRegistry` under `m_cacheMutex`, while logins in the threads of the
  connections read and fill them under `m_mutex` (`Instance_User.cpp:22`).
- Files and ciphers below the blocks: a range of bytes is written or refused.
- The supervisor: system calls on processes.
- The B+ tree index, which the program does not use.
- The REST client, the SQL dump and the command line of `siocli`, options, logging.

The block cache is that of one column although all columns share it: other columns only make
evictions come earlier.  The models cover about an eighth of the implementation lines of the repository.  The
rest is to a large part declarations, conversions between representations, statements that
only read metadata, messages and parsers, in which there is no behaviour for a model to explore.

## Plan

1. Proofs: `SingleAppendPoint`, `RecordsReachable` and `ClosedBlocksImmutable` of `ColumnStore`
   for a cache that evicts.
2. An abstract append-only store of records, and `ColumnStore` shown to implement it.
3. The composition of `RestConnPool` with `RestExchange`, with several connections.
