----------------------------- MODULE Permissions -----------------------------
(***************************************************************************)
(* The permissions of users on tables: the rows of SYS_USER_PERMISSIONS,   *)
(* the User objects that cache them, GRANT and REVOKE.                     *)
(* Sources: Instance_UserPermissions.cpp, User.cpp, UserPermission.h,      *)
(* SystemDatabase_RecordObjects.cpp, Instance_User.cpp (dbengine).         *)
(*                                                                         *)
(* A statement changes the User object first and the row afterwards.  The  *)
(* row of an object that is already recorded is never changed, because     *)
(* updateUserPermission() addresses SYS_USER_TOKENS: it throws, and the    *)
(* object keeps the change.  An object that was read back at a start has   *)
(* forgotten the ID of its row, so that revoking it deletes row 0.  The    *)
(* variable drifted names the keys for which this has happened.            *)
(***************************************************************************)
EXTENDS Naturals, FiniteSets

CONSTANTS Users,      \* the users
          Super,      \* the superuser, one of them
          Perms,      \* the permissions on a table
          MaxTables   \* bound on the table IDs, whose rows lie in one file of an index

ASSUME PermissionsAssumption == Super \in Users /\ "drop" \in Perms /\ MaxTables \in Nat \ {0}

VARIABLES permRows,   \* the rows of SYS_USER_PERMISSIONS
          lastPermId, \* TRID counter of SYS_USER_PERMISSIONS
          cached,     \* Instance::m_users: users whose object is in memory
          granted,    \* User::m_grantedPermissions of every cached user
          drifted     \* keys whose object and row are known to disagree

permVars == <<permRows, lastPermId, cached, granted, drifted>>

Tables == 1..MaxTables

\* UserPermissionDataEx: the ID of the row (0: unknown), the permissions and
\* the permissions held with GRANT OPTION.
NoEntry == [id |-> 0, perms |-> {}, options |-> {}]

RowsOfKey(u, t) == {r \in permRows : r.user = u /\ r.table = t}

EntryOf(u, t) == IF t \in DOMAIN granted[u] THEN granted[u][t] ELSE NoEntry

\* User::hasPermissions().
HasPermissions(u, t, ps, withGrantOption) ==
    \/ u = Super
    \/ /\ u \in cached /\ t \in DOMAIN granted[u]
       /\ ps \subseteq granted[u][t].perms
       /\ withGrantOption => ps \subseteq granted[u][t].options \cap granted[u][t].perms

PermissionsInit ==
    /\ permRows = {} /\ lastPermId = 0 /\ cached = {Super} /\ drifted = {}
    /\ granted = [u \in Users |-> [t \in {} |-> NoEntry]]

------------------------------------------------------------------------------
\* The User object made from its record: one entry per key, without the row's
\* ID.  Of two rows with one key the hash order decides which is taken.
LoadedEntries(u) ==
    LET keys == {r.table : r \in {x \in permRows : x.user = u}}
    IN  {f \in [keys -> {[id |-> 0, perms |-> r.perms, options |-> r.options] : r \in permRows}] :
            \A t \in keys : \E r \in RowsOfKey(u, t) :
                f[t].perms = r.perms /\ f[t].options = r.options}

\* findUserUnlocked(): the object is made at the first lookup and kept.
LookUpUser(u) ==
    /\ u \notin cached
    /\ cached' = cached \cup {u}
    /\ \E f \in LoadedEntries(u) : granted' = [granted EXCEPT ![u] = f]
    /\ UNCHANGED <<permRows, lastPermId, drifted>>

------------------------------------------------------------------------------
\* UserPermissionData::addPermissions().
Added(e, ps, withGrantOption) ==
    [e EXCEPT !.perms = @ \cup ps,
              !.options = IF withGrantOption THEN @ \cup ps ELSE @]

SetEntry(u, t, e) ==
    granted' = [granted EXCEPT ![u] = [x \in DOMAIN @ \cup {t} |-> IF x = t THEN e ELSE @[x]]]

\* recordUserPermission(): the row holds the merged permissions of the object.
RowOf(id, u, t, e) ==
    [id |-> id, user |-> u, table |-> t, perms |-> e.perms, options |-> e.options]

\* grantObjectPermissionsToUserUnlocked() for an object without a row ID: a
\* row is inserted.  After a start that is a second row of the same key.
GrantRecords(u, t, ps, withGrantOption) ==
    LET e == Added(EntryOf(u, t), ps, withGrantOption)
        id == lastPermId + 1
    IN  /\ EntryOf(u, t).id = 0
        /\ lastPermId' = id
        /\ permRows' = permRows \cup {RowOf(id, u, t, e)}
        /\ SetEntry(u, t, [e EXCEPT !.id = id])
        /\ drifted' = IF RowsOfKey(u, t) = {} THEN drifted \ {<<u, t>>}
                                              ELSE drifted \cup {<<u, t>>}
        /\ UNCHANGED cached

\* The same for an object with a row ID, or when the row cannot be written:
\* the object is changed, and the statement reports an error.
GrantThrows(u, t, ps, withGrantOption) ==
    LET e == Added(EntryOf(u, t), ps, withGrantOption)
    IN  /\ SetEntry(u, t, e)
        /\ drifted' = IF e = EntryOf(u, t) /\ t \in DOMAIN granted[u]
                      THEN drifted ELSE drifted \cup {<<u, t>>}
        /\ UNCHANGED <<permRows, lastPermId, cached>>

------------------------------------------------------------------------------
\* User::revokePermissions() acts on an entry only when one of the permissions
\* is held with GRANT OPTION.
Revokes(u, t, ps) ==
    t \in DOMAIN granted[u] /\ granted[u][t].options \cap granted[u][t].perms \cap ps # {}

\* The entries of u after the revocation; an entry without permissions is erased.
EntriesAfterRevoke(u, t, ps) ==
    LET e == [granted[u][t] EXCEPT !.perms = @ \ ps, !.options = @ \ ps]
    IN  IF e.perms = {}
        THEN [x \in DOMAIN granted[u] \ {t} |-> granted[u][x]]
        ELSE [granted[u] EXCEPT ![t] = e]

\* The row is left when the object disappears.
RowsAfterEraseMutant(u, t) == permRows

\* deleteUserPermission(): the row whose TRID the object knows.
RowsAfterErase(u, t) == {r \in permRows : r.id # granted[u][t].id}

Erases(u, t, ps) == granted[u][t].perms \subseteq ps

\* revokeObjectPermissionsFromUserUnlocked() that erases the entry and its row.
RevokeErases(u, t, ps) ==
    /\ Revokes(u, t, ps) /\ Erases(u, t, ps)
    /\ granted' = [granted EXCEPT ![u] = EntriesAfterRevoke(u, t, ps)]
    /\ permRows' = RowsAfterErase(u, t)
    /\ drifted' = IF granted[u][t].id = 0 THEN drifted \cup {<<u, t>>} ELSE drifted
    /\ UNCHANGED <<lastPermId, cached>>

\* The same when permissions remain (the update of the row throws), or when the
\* row cannot be deleted, or when it is deleted and the index then throws.
RevokeThrows(u, t, ps) ==
    /\ Revokes(u, t, ps)
    /\ granted' = [granted EXCEPT ![u] = EntriesAfterRevoke(u, t, ps)]
    /\ permRows' = permRows \/ (Erases(u, t, ps) /\ permRows' = RowsAfterErase(u, t))
    /\ drifted' = drifted \cup {<<u, t>>}
    /\ UNCHANGED <<lastPermId, cached>>

\* The users in memory whose entry on t DROP TABLE erases.
Holders(t) == {u \in cached : Revokes(u, t, Perms)}

\* The entries of the users us, and the rows of the users in deleted, go.
RevokeFrom(us, deleted, t) ==
    /\ granted' = [u \in Users |->
                      IF u \in us THEN EntriesAfterRevoke(u, t, Perms) ELSE granted[u]]
    /\ permRows' = {r \in permRows : \A u \in deleted : r \in RowsAfterErase(u, t)}
    /\ UNCHANGED <<lastPermId, cached>>

\* revokeAllObjectPermissionsFromAllUsers(): the users in memory only.
RevokeAll(t) ==
    /\ RevokeFrom(Holders(t), Holders(t), t)
    /\ drifted' = drifted \cup {<<u, t>> : u \in {x \in Holders(t) : granted[x][t].id = 0}}

\* Its loop throws at the row of a user u, after it revoked from some users and
\* before it came to the others.
RevokeAllThrows(t) ==
    \E us \in SUBSET Holders(t) : \E u \in us : \E deleted \in {us, us \ {u}} :
        /\ RevokeFrom(us, deleted, t)
        /\ drifted' = drifted
              \cup {<<x, t>> : x \in {y \in us : y = u \/ granted[y][t].id = 0}}

\* A start reads the rows again and looks up the superuser.
PermissionsRestart ==
    /\ cached' = {Super}
    /\ \E f \in LoadedEntries(Super) :
           granted' = [u \in Users |-> IF u = Super THEN f ELSE [t \in {} |-> NoEntry]]
    /\ drifted' = {k \in Users \X Tables : Cardinality(RowsOfKey(k[1], k[2])) > 1}
    /\ UNCHANGED <<permRows, lastPermId>>

------------------------------------------------------------------------------
(***************************************************************************)
(* Properties.                                                             *)
(***************************************************************************)

\* What a user in memory may do is what its row says, through any sequence of
\* GRANT, REVOKE, CREATE TABLE, DROP TABLE, failed writes and restarts, except
\* for the keys on which updateUserPermission() threw, whose row could not be
\* written or deleted, or whose entry was read back at a start and then granted or revoked
\* again (Instance_UserPermissions.cpp, grant and revoke).
PermissionsAreStored ==
    \A u \in cached, t \in Tables : <<u, t>> \notin drifted =>
        IF t \in DOMAIN granted[u]
        THEN \E r \in permRows :
                 /\ RowsOfKey(u, t) = {r}
                 /\ granted[u][t].id \in {0, r.id}
                 /\ granted[u][t].perms = r.perms /\ granted[u][t].options = r.options
        ELSE RowsOfKey(u, t) = {}
==============================================================================
