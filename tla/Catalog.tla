------------------------------- MODULE Catalog -------------------------------
(***************************************************************************)
(* The system catalog of a database: CREATE TABLE, DROP TABLE, the         *)
(* in-memory registries, the rows of the system tables and the start that  *)
(* rebuilds the registries from the rows, with the permissions of the      *)
(* tables (Permissions).                                                   *)
(* Sources: Database_Common.cpp, Database_RecordObjects.cpp,               *)
(* Database_ReadObjects1.cpp, Database_ReadObjects2.cpp, Database_Init.cpp,*)
(* Table.cpp, Column_General.cpp (dbengine).                               *)
(*                                                                         *)
(* A catalog object is a tuple: its kind, its table and, where it has one, *)
(* its column.  Column 0 is the master column (NOT NULL), column 1 stands  *)
(* for the columns of the statement, with one constraint.  A constraint    *)
(* definition is shared by all constraints of equal content, so that its   *)
(* content names it.  Statements run one at a time (they hold the mutex of *)
(* the database); rows are written and erased one by one, and a failure or *)
(* a crash may come between any two.                                       *)
(*                                                                         *)
(* Assumed: the rows of the MaxTables tables lie in one file of each main  *)
(* index (of 614 records).  The readers of a start go from key to key with *)
(* findNextKey(), which after the last record of a file passes over rows   *)
(* of the next one or finds a key that is not there (FindKeyAfter of       *)
(* LinearIndex).                                                           *)
(***************************************************************************)
EXTENDS Accounts, Sequences, SequencesExt

CONSTANTS Names,        \* table names
          NotNull,      \* content of the NOT NULL definition
          Contents,     \* contents of the constraint of column 1
          Grantees,     \* users that GRANT and REVOKE statements name
          Budgets       \* bounds: how many tables are created, how many statements
                        \* on accounts there are, how many failed writes,
                        \* restarts and statements on accounts or permissions,
                        \* and whether users are looked up after a start

ASSUME CatalogAssumption ==
    Budgets \subseteq [tables : 0..MaxTables, accounts : Nat, events : Nat, logins : BOOLEAN]

VARIABLES rows,       \* rows of the system tables, as the files of their main
                      \* indices show them
          freed,      \* rows that the index in memory shows as erased, while the
                      \* file keeps them
          lastTable,  \* TRID counter of SYS_TABLES
          nameOf,     \* name of every table ID used so far
          contentOf,  \* content of the constraint of its column 1
          registry,   \* the in-memory registries
          written,    \* definitions with isWrittenToStorage()
          stmt,       \* statement in execution
          status,     \* "up", or "refused": the start threw
          torn,       \* tables whose statement broke off where no start succeeds,
                      \* of which DROP TABLE left a row that a start minds, or
                      \* whose definition row was erased before
          removed,    \* tables whose data directory is removed
          halfErased, \* definitions whose row was erased by a DROP that failed
          complete,   \* tables whose CREATE recorded everything
          budget      \* what is left of the budget of this behaviour

catVars == <<rows, lastTable, nameOf, contentOf, registry, written, stmt, status,
             torn, halfErased, complete, freed, removed>>
vars == <<catVars, permVars, acctVars, budget>>

Columns == {0, 1}
Idle == [kind |-> "none"]

Content(t, c) == IF c = 0 THEN NotNull ELSE contentOf[t]

Init ==
    /\ PermissionsInit /\ AccountsInit
    /\ rows = {} /\ lastTable = 0 /\ registry = {} /\ written = {}
    /\ nameOf = [t \in Tables |-> "none"] /\ contentOf = [t \in Tables |-> NotNull]
    /\ stmt = Idle /\ status = "up"
    /\ torn = {} /\ halfErased = {} /\ complete = {} /\ freed = {} /\ removed = {}
    /\ budget \in Budgets

Ready == status = "up" /\ stmt = Idle
Event == budget.events > 0 /\ budget' = [budget EXCEPT !.events = @ - 1]

Registered(n) == {t \in Tables : <<"table", t>> \in registry /\ nameOf[t] = n}

------------------------------------------------------------------------------
(***************************************************************************)
(* CREATE TABLE, in memory: createTableUnlocked(), the constructors of     *)
(* Table and Column, closeCurrentColumnSet().  Files are created between   *)
(* the groups below, so that a failure leaves a prefix of them registered. *)
(* The index column is registered under an ID of its own.                  *)
(***************************************************************************)
MemoryOrder(t, d) ==
    << {<<"set", t>>},
       {<<"coldef", t, 0>>},
       {<<"constdef", NotNull>>, <<"constraint", t, 0>>, <<"defconst", t, 0>>},
       {<<"index", t>>, <<"ownindexcol", t>>},
       {<<"column", t, 0>>},
       {<<"table", t>>},
       {<<"coldef", t, 1>>},
       {<<"constdef", d>>, <<"constraint", t, 1>>, <<"defconst", t, 1>>},
       {<<"column", t, 1>>, <<"setcol", t, 0>>, <<"setcol", t, 1>>} >>

\* recordTableDefinition(): a definition is recorded once, by the first table
\* that uses it.
RecordOrder(t, content) ==
    LET constraint(c) == << <<"constraint", t, c>>, <<"defconst", t, c>> >>
        definition(d, known) == IF d \in known THEN <<>> ELSE << <<"constdef", d>> >>
    IN  << <<"table", t>>, <<"column", t, 0>>, <<"column", t, 1>>,
           <<"coldef", t, 0>>, <<"coldef", t, 1>>,
           <<"set", t>>, <<"setcol", t, 0>>, <<"setcol", t, 1>> >>
        \o definition(NotNull, written) \o constraint(0)
        \o definition(content, written \cup {NotNull}) \o constraint(1)
        \o << <<"index", t>>, <<"indexcol", t>> >>

\* The smallest ID that no row uses.
NextTableIdMutant ==
    CHOOSE t \in 1..(MaxTables + 1) :
        /\ <<"table", t>> \notin rows /\ <<"table", t>> \notin registry
        /\ \A x \in 1..(t - 1) : <<"table", x>> \in rows \cup registry

\* generateNextTableId(): the counter is a file of its own and is not derived
\* from the rows.
NextTableId == lastTable + 1

\* The checks of the statement.  CREATE is a permission on the database, not on
\* a table, and any user may hold it.
CreateChecks(u, n, d) ==
    /\ Ready /\ NextTableId \in 1..budget.tables
    /\ u \in cached
    /\ Registered(n) = {}
    /\ lastTable' = NextTableId
    /\ nameOf' = [nameOf EXCEPT ![NextTableId] = n]
    /\ contentOf' = [contentOf EXCEPT ![NextTableId] = d]
    /\ UNCHANGED <<rows, freed, removed, written, status, torn, halfErased, complete,
                   permVars, acctVars>>

BeginCreate(u, n, d) ==
    LET t == NextTableId IN
    /\ CreateChecks(u, n, d)
    /\ registry' = registry \cup UNION ToSet(MemoryOrder(t, d))
    /\ stmt' = [kind |-> "create", table |-> t, user |-> u, todo |-> RecordOrder(t, d)]
    /\ UNCHANGED budget

\* A failure leaves what is registered so far; nothing is recorded.
BeginCreateFails(u, n, d) ==
    LET t == NextTableId IN
    /\ CreateChecks(u, n, d) /\ Event
    /\ \E k \in 0..8 : registry' = registry \cup UNION ToSet(SubSeq(MemoryOrder(t, d), 1, k))
    /\ UNCHANGED stmt

------------------------------------------------------------------------------
Todo == stmt.todo
Row == Head(Todo)

\* The rows of a table, without the definitions, which tables share; and those
\* that a start minds when the rest of the table is not there.
OwnRows(t) ==
    {<<"table", t>>, <<"set", t>>, <<"index", t>>, <<"indexcol", t>>}
    \cup {<<k, t, c>> : k \in {"column", "coldef", "setcol", "constraint", "defconst"},
                        c \in Columns}
VitalRows(t) == OwnRows(t) \ {<<"indexcol", t>>, <<"column", t, 0>>, <<"column", t, 1>>}

\* A refused erasure left such a row in its file, and no DROP TABLE erases it now.
LeftBehind(t) == freed \cap VitalRows(t) # {}

\* A start read a part of the table only, so that DROP TABLE cannot find the rest.
ReadInPart(t) == t \in torn /\ ~(OwnRows(t) \ {<<"indexcol", t>>} \subseteq registry)

\* A CREATE is in the window from its first row to its last one, a DROP from
\* the first row that it erases to the last column definition, or to its end
\* when a row is kept.
InWindow ==
    \/ stmt.kind = "create" /\ Todo # <<>> /\ <<"table", stmt.table>> \in rows
    \/ LET t == stmt.table
           firstRows == {<<"index", t>>, <<"indexcol", t>>}
       IN  /\ stmt.kind = "drop"
           /\ LeftBehind(t) \/ \E c \in Columns : <<"coldef", t, c>> \in rows
           /\ ~(firstRows \subseteq rows) \/ firstRows \cap ToSet(Todo) = {}

\* A constraint whose definition an earlier DROP erased is recorded unseen.
MissesDefinition(r) ==
    r[1] = "constraint" /\ <<"constdef", Content(r[2], r[3])>> \notin rows

\* One record...() call of recordTableDefinition().  A definition gets a new row
\* even where an erased one of the same content is still in the file.
RecordRow ==
    /\ status = "up" /\ stmt.kind = "create" /\ Todo # <<>>
    /\ rows' = rows \cup {Row} /\ freed' = freed \ {Row}
    /\ written' = IF Row[1] = "constdef" THEN written \cup {Row[2]} ELSE written
    /\ torn' = IF MissesDefinition(Row) THEN torn \cup {stmt.table} ELSE torn
    /\ complete' = IF Len(Todo) = 1 THEN complete \cup {stmt.table} ELSE complete
    /\ stmt' = [stmt EXCEPT !.todo = Tail(@)]
    /\ UNCHANGED <<removed, lastTable, nameOf, contentOf, registry, status, halfErased,
                   permVars, acctVars, budget>>

\* The call throws: the rows so far stay (the rollback of the index row leaves
\* its key in the main index), and so does everything in memory.
RecordRowFails ==
    /\ status = "up" /\ stmt.kind = "create" /\ Todo # <<>> /\ Event
    /\ torn' = IF InWindow THEN torn \cup {stmt.table} ELSE torn
    /\ stmt' = Idle
    /\ UNCHANGED <<rows, freed, removed, lastTable, nameOf, contentOf, registry, written,
                   status, halfErased, complete, permVars, acctVars>>

\* Blocks are allocated, and the creator gets all permissions with GRANT OPTION.
EndCreate ==
    /\ status = "up" /\ stmt.kind = "create" /\ Todo = <<>>
    /\ GrantRecords(stmt.user, stmt.table, Perms, TRUE)
    /\ stmt' = Idle
    /\ UNCHANGED <<rows, freed, removed, lastTable, nameOf, contentOf, registry, written,
                   status, torn, halfErased, complete, acctVars, budget>>

\* The allocation fails (nothing is granted), or the permission's row does.
EndCreateFails ==
    /\ status = "up" /\ stmt.kind = "create" /\ Todo = <<>> /\ Event
    /\ UNCHANGED permVars \/ GrantThrows(stmt.user, stmt.table, Perms, TRUE)
    /\ stmt' = Idle
    /\ UNCHANGED <<rows, freed, removed, lastTable, nameOf, contentOf, registry, written,
                   status, torn, halfErased, complete, acctVars>>

------------------------------------------------------------------------------
(***************************************************************************)
(* DROP TABLE.  What belongs to the table is collected from the registries.*)
(***************************************************************************)
DroppedColumns(t) ==
    {c \in Columns : {<<"set", t>>, <<"setcol", t, c>>, <<"column", t, c>>} \subseteq registry}

DroppedConstraints(t) ==
    {c \in DroppedColumns(t) :
        {<<"coldef", t, c>>, <<"defconst", t, c>>, <<"constraint", t, c>>} \subseteq registry}

\* Every definition of the table goes.
RemovableDefinitionsMutant(t) == {Content(t, c) : c \in DroppedConstraints(t)}

\* A definition goes when all its constraints are among the dropped ones.
RemovableDefinitions(t) ==
    {d \in {Content(t, c) : c \in DroppedConstraints(t)} :
        \A x \in Tables, c \in Columns :
            <<"constraint", x, c>> \in registry /\ Content(x, c) = d
            => x = t /\ c \in DroppedConstraints(t)}

\* The rows of the columns of a dropped table, in the order of their erasure.
ErasedWithColumn(t, c) ==
    IF c \notin DroppedColumns(t) THEN <<>>
    ELSE (IF c \in DroppedConstraints(t)
          THEN << <<"defconst", t, c>>, <<"constraint", t, c>> >> ELSE <<>>)
         \o << <<"coldef", t, c>>, <<"column", t, c>> >>

\* The rows of its index and of its column set, as far as they are registered.
ErasedFirst(t) ==
    LET known(x) == IF x \in registry THEN <<x>> ELSE <<>>
    IN  known(<<"indexcol", t>>) \o known(<<"index", t>>)
        \o known(<<"setcol", t, 0>>) \o known(<<"setcol", t, 1>>) \o known(<<"set", t>>)

ErasedDefinitions(ds) == [i \in 1..Len(ds) |-> <<"constdef", ds[i]>>]

\* The row of the table goes first.
EraseOrderMutant(t, ds) ==
    << <<"table", t>> >> \o ErasedFirst(t)
    \o ErasedWithColumn(t, 0) \o ErasedWithColumn(t, 1) \o ErasedDefinitions(ds)

\* The order of the main index updates; definitions go in the order of their
\* IDs, which content does not tell.
EraseOrder(t, ds) ==
    ErasedFirst(t) \o << <<"table", t>> >>
    \o ErasedWithColumn(t, 0) \o ErasedWithColumn(t, 1) \o ErasedDefinitions(ds)

\* The checks and the deletion records.  These do not touch the main indices,
\* so that a failure before the first index update shows nothing.
BeginDrop(u, t) ==
    /\ Ready /\ u \in cached
    /\ <<"table", t>> \in registry
    /\ HasPermissions(u, t, {"drop"}, FALSE)
    /\ \E ds \in SetToSeqs(RemovableDefinitions(t)) :
           stmt' = [kind |-> "drop", table |-> t, todo |-> EraseOrder(t, ds),
                    definitions |-> ToSet(ds)]
    /\ complete' = complete \ {t}
    /\ UNCHANGED <<rows, freed, removed, lastTable, nameOf, contentOf, registry, written,
                   status, torn, halfErased, permVars, acctVars, budget>>

\* One updateMainIndex() call; erasing a key that the index does not show does
\* nothing.  The ends of the index always have a neighbour, because the rows of
\* the system tables themselves come first.
EraseRow ==
    /\ status = "up" /\ stmt.kind = "drop" /\ Todo # <<>>
    /\ rows' = IF Row \in freed THEN rows ELSE rows \ {Row}
    /\ stmt' = [stmt EXCEPT !.todo = Tail(@)]
    /\ UNCHANGED <<freed, removed, lastTable, nameOf, contentOf, registry, written, status,
                   torn, halfErased, complete, permVars, acctVars, budget>>

\* The call throws: the registries are unchanged, and the statement may be tried
\* again.  When the write was refused, the index has freed the key in memory by
\* then, and another attempt does not find it.
EraseRowFails ==
    /\ status = "up" /\ stmt.kind = "drop" /\ Todo # <<>> /\ Event
    /\ freed' = freed \/ freed' = freed \cup ({Row} \cap rows)
    /\ torn' = IF InWindow THEN torn \cup {stmt.table} ELSE torn
    /\ halfErased' = halfErased \cup {d \in stmt.definitions : <<"constdef", d>> \notin rows}
    /\ stmt' = Idle
    /\ UNCHANGED <<rows, removed, lastTable, nameOf, contentOf, registry, written, status,
                   complete, permVars, acctVars>>

\* What leaves the registries: an index with its columns, a column set with
\* its columns, a column definition with its constraint links.
Unregistered(t, definitions) ==
    LET cs == DroppedColumns(t) IN
    {<<"index", t>>, <<"indexcol", t>>, <<"ownindexcol", t>>, <<"set", t>>, <<"table", t>>}
    \cup {<<"setcol", t, c>> : c \in Columns}
    \cup (UNION {{<<"column", t, c>>, <<"coldef", t, c>>, <<"defconst", t, c>>} : c \in cs})
    \cup {<<"constraint", t, c>> : c \in DroppedConstraints(t)}
    \cup {<<"constdef", d>> : d \in definitions}

\* The removal from memory.  A row that an earlier attempt freed in memory alone
\* is still in its file, and comes back at the next start.
Unregister ==
    /\ status = "up" /\ stmt.kind = "drop" /\ Todo = <<>>
    /\ registry' = registry \ Unregistered(stmt.table, stmt.definitions)
    /\ written' = written \ stmt.definitions
    /\ halfErased' = halfErased \ stmt.definitions
    /\ torn' = IF LeftBehind(stmt.table) \/ ReadInPart(stmt.table)
               THEN torn \cup {stmt.table} ELSE torn \ {stmt.table}
    /\ stmt' = Idle
    /\ UNCHANGED <<rows, freed, lastTable, nameOf, contentOf, status, complete, acctVars>>

EndDrop ==
    /\ Unregister /\ RevokeAll(stmt.table)
    /\ removed' = removed \cup {stmt.table}
    /\ UNCHANGED budget

\* A permission cannot be revoked: the statement fails although the table is
\* gone, and its data directory stays.
EndDropFails ==
    /\ Unregister /\ RevokeAllThrows(stmt.table) /\ Event
    /\ UNCHANGED removed

------------------------------------------------------------------------------
(***************************************************************************)
(* The start: the constructor of Database for an existing database.        *)
(***************************************************************************)
ColumnsRead == {x \in Tables \X Columns :
                    <<"column", x[1], x[2]>> \in rows /\ <<"table", x[1]>> \in rows}

\* The checks of the readAll...() functions.
RowsAreConsistent ==
    /\ \A t \in Tables :
        /\ <<"set", t>> \in rows => <<"table", t>> \in rows
        /\ <<"table", t>> \in rows => <<t, 0>> \in ColumnsRead
        /\ <<"index", t>> \in rows =>
               {<<"indexcol", t>>, <<"table", t>>, <<"coldef", t, 0>>} \subseteq rows
    /\ \A t \in Tables, c \in Columns :
        /\ <<"coldef", t, c>> \in rows => <<t, c>> \in ColumnsRead
        /\ <<"setcol", t, c>> \in rows => {<<"set", t>>, <<"coldef", t, c>>} \subseteq rows
        /\ <<"constraint", t, c>> \in rows => <<"constdef", Content(t, c)>> \in rows
        /\ <<"defconst", t, c>> \in rows =>
               {<<"coldef", t, c>>, <<"constraint", t, c>>} \subseteq rows

\* checkDataConsistency() loads every table: its column set with the master
\* column in it, and the main index, from its data directory.
TablesLoad ==
    \A t \in Tables : <<"table", t>> \in rows =>
        /\ {<<"set", t>>, <<"setcol", t, 0>>, <<"index", t>>} \subseteq rows
        /\ t \notin removed

Loads == RowsAreConsistent /\ TablesLoad

\* Columns of unknown tables and columns of unknown indices are skipped.
ReadRegistry ==
    {r \in rows : /\ r[1] = "column" => <<r[2], r[3]>> \in ColumnsRead
                  /\ r[1] = "indexcol" => <<"index", r[2]>> \in rows}

\* Some rows of the table are there that a start minds, and not all of them.
InPart(t) == rows \cap VitalRows(t) # {} /\ ~(OwnRows(t) \subseteq rows)

\* The tables of statements that broke off, the one in execution included.
Broken == torn \cup (IF InWindow THEN {stmt.table} ELSE {})

\* The process ends at any time and is started again.
Restart ==
    /\ status = "up" /\ Event
    /\ stmt' = Idle
    /\ IF Loads
       THEN /\ status' = "up" /\ registry' = ReadRegistry
            /\ written' = {r[2] : r \in {x \in rows : x[1] = "constdef"}}
       ELSE status' = "refused" /\ registry' = {} /\ written' = {}
    /\ torn' = IF Loads THEN {t \in Broken : InPart(t)} ELSE Broken
    /\ halfErased' = {} /\ freed' = {}
    /\ PermissionsRestart /\ AccountsRestart
    /\ UNCHANGED <<rows, removed, lastTable, nameOf, contentOf, complete>>

------------------------------------------------------------------------------
(***************************************************************************)
(* Lookups, GRANT and REVOKE on a registered table.                        *)
(***************************************************************************)
LookUp(u) == Ready /\ budget.logins /\ LookUpAccount(u) /\ UNCHANGED <<catVars, budget>>

PermissionStatement(by, u, t, ps) ==
    /\ Ready /\ <<"table", t>> \in registry
    /\ {by, u} \subseteq cached /\ HasPermissions(by, t, ps, TRUE)
    /\ Event
    /\ UNCHANGED <<catVars, acctVars>>

\* Without a row ID the row is recorded, unless that fails; with one the
\* update throws.
Grant(by, u, t, ps, withGrantOption) ==
    /\ PermissionStatement(by, u, t, ps)
    /\ \/ GrantRecords(u, t, ps, withGrantOption)
       \/ GrantThrows(u, t, ps, withGrantOption)

\* The row of an erased entry is deleted, unless that fails; with permissions
\* left the update throws.
Revoke(by, u, t, ps) ==
    /\ PermissionStatement(by, u, t, ps)
    /\ RevokeErases(u, t, ps) \/ RevokeThrows(u, t, ps)

\* Statements on users, access keys and tokens.
ManageAccounts ==
    /\ Ready /\ budget.accounts > 0 /\ budget.events > 0
    /\ AccountStatement
    /\ budget' = [budget EXCEPT !.accounts = @ - 1, !.events = @ - 1]
    /\ UNCHANGED catVars

Next ==
    \/ \E u \in Users, n \in Names, d \in Contents :
           BeginCreate(u, n, d) \/ BeginCreateFails(u, n, d)
    \/ RecordRow \/ RecordRowFails \/ EndCreate \/ EndCreateFails
    \/ \E u \in Users, t \in Tables : BeginDrop(u, t)
    \/ EraseRow \/ EraseRowFails \/ EndDrop \/ EndDropFails
    \/ Restart
    \/ \E u \in Users : LookUp(u)
    \/ \E by \in Users, u \in Grantees, t \in Tables, ps \in (SUBSET Perms) \ {{}} :
           \/ \E o \in BOOLEAN : Grant(by, u, t, ps, o)
           \/ Revoke(by, u, t, ps)
    \/ ManageAccounts

Spec == Init /\ [][Next]_vars

------------------------------------------------------------------------------
(***************************************************************************)
(* Properties.                                                             *)
(***************************************************************************)

\* The rows that make a table, its definitions included.
RowsOfTable(t) == OwnRows(t) \cup {<<"constdef", Content(t, c)>> : c \in Columns}

\* A database can be opened (the readAll...() functions and
\* checkDataConsistency() of Database_Init.cpp) unless a statement broke off,
\* by an error or a crash, between the first and the last row of a CREATE
\* TABLE or between the first erased row and the last erased column definition
\* of a DROP TABLE, or an erasure was refused and DROP TABLE was tried again, which
\* leaves that row in its file, or a table was recorded on a definition whose row
\* a failed DROP had erased.  (The readers are taken to reach every row, which
\* they do while the rows of a system table lie in one file of its index.)
OpensUnlessTorn == torn = {} /\ ~InWindow => Loads

\* Whatever happens to other tables, a table whose CREATE TABLE has recorded
\* everything keeps all its rows, its constraint definitions included, until a
\* DROP TABLE of it begins, and has them in the registries while the server is up
\* (Database_Common.cpp dropTable, the removal of shared definitions).
TablesIntact ==
    \A t \in complete \ torn :
        /\ RowsOfTable(t) \subseteq rows
        /\ status = "up" => RowsOfTable(t) \ {<<"indexcol", t>>} \subseteq registry

\* A table starts without permissions of other users: whoever held permissions
\* on a dropped table, in memory or in a row that DROP TABLE did not reach, holds
\* none on a table created later, over restarts too (generateNextTableId()).
NewTableIsUnshared ==
    stmt.kind = "create" =>
        /\ \A u \in Users : RowsOfKey(u, stmt.table) = {}
        /\ \A u \in cached : stmt.table \notin DOMAIN granted[u]
==============================================================================
