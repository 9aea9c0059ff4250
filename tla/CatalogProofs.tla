---------------------------- MODULE CatalogProofs ----------------------------
(***************************************************************************)
(* Proofs about Catalog.                                                   *)
(*                                                                         *)
(* PermInv is about the permissions alone: what the objects of the users   *)
(* say is what the rows say.  TablesKnown says which table IDs may occur   *)
(* where; it relates the permissions, the rows of the system tables, the   *)
(* registries and the statement in execution.  AcctInv and FollowInv are   *)
(* about the accounts: the superuser keeps its key, and the three places   *)
(* follow the statements.  CatInv is about the rows of tables and the      *)
(* order in which they are written and erased.                             *)
(***************************************************************************)
EXTENDS Catalog, FiniteSetTheorems, SequenceTheorems, WellFoundedInduction, TLAPS

(***************************************************************************)
(* The invariant of the permissions.                                       *)
(***************************************************************************)
Entry == [id : Nat, perms : SUBSET Perms, options : SUBSET Perms]

RowType == [id : Nat \ {0}, user : Users, table : Tables,
            perms : SUBSET Perms, options : SUBSET Perms]

\* The entries of the objects; an object that is not in memory has none.
GrantedOK ==
    /\ DOMAIN granted = Users
    /\ \A u \in Users : DOMAIN granted[u] \subseteq Tables
    /\ \A u \in Users : \A t \in DOMAIN granted[u] : granted[u][t] \in Entry
    /\ \A u \in Users \ cached : DOMAIN granted[u] = {}

\* Row IDs come from the counter and are never used twice, and rows name users
\* that have existed.
PermRowsOK ==
    /\ lastPermId \in Nat
    /\ permRows \subseteq RowType /\ IsFiniteSet(permRows)
    /\ \A r \in permRows : r.id <= lastPermId /\ r.user \in usedUsers
    /\ \A r, s \in permRows : r.id = s.id => r = s

UsersOK == Super \in cached /\ cached \subseteq usedUsers /\ usedUsers \subseteq Users

\* The row ID that an entry knows belongs to its own key.
EntriesOwnTheirRow ==
    \A u \in Users : \A t \in DOMAIN granted[u] :
        granted[u][t].id # 0 =>
            /\ granted[u][t].id <= lastPermId
            /\ \A r \in permRows : r.id = granted[u][t].id => r.user = u /\ r.table = t

\* A key with two rows is known to have drifted.
OneRowPerKey ==
    \A r, s \in permRows :
        r.user = s.user /\ r.table = s.table => r = s \/ <<r.user, r.table>> \in drifted

PermInv ==
    /\ UsersOK /\ GrantedOK /\ PermRowsOK /\ EntriesOwnTheirRow /\ OneRowPerKey
    /\ PermissionsAreStored

\* What a statement on the object of one user leaves alone: the entries of
\* other keys.
OnlyKey(u, t) ==
    /\ DOMAIN granted' = Users
    /\ \A x \in Users \ {u} : granted'[x] = granted[x]
    /\ DOMAIN granted'[u] \ {t} = DOMAIN granted[u] \ {t}
    /\ \A x \in DOMAIN granted[u] \ {t} : granted'[u][x] = granted[u][x]

\* SetEntry() changes the entry of its key alone.
LEMMA SetEntryEffect ==
    ASSUME NEW u \in Users, NEW t, NEW e, DOMAIN granted = Users, SetEntry(u, t, e)
    PROVE  /\ OnlyKey(u, t)
           /\ DOMAIN granted'[u] = DOMAIN granted[u] \cup {t}
           /\ granted'[u][t] = e
  BY DEF SetEntry, OnlyKey

\* A revocation changes the entry of its key alone, and erases it exactly when no
\* permission is left.
LEMMA RevokeEffect ==
    ASSUME NEW u \in Users, NEW t, NEW ps, DOMAIN granted = Users,
           t \in DOMAIN granted[u], granted[u][t] \in Entry,
           granted' = [granted EXCEPT ![u] = EntriesAfterRevoke(u, t, ps)]
    PROVE  /\ OnlyKey(u, t)
           /\ t \in DOMAIN granted'[u] <=> ~Erases(u, t, ps)
           /\ t \in DOMAIN granted'[u] =>
                /\ granted'[u][t] \in Entry
                /\ granted'[u][t].id = granted[u][t].id
  <1> DEFINE e == [granted[u][t] EXCEPT !.perms = @ \ ps, !.options = @ \ ps]
  <1>1. /\ e \in Entry /\ e.id = granted[u][t].id
        /\ e.perms = granted[u][t].perms \ ps
    BY DEF Entry
  <1>2. e.perms = {} <=> Erases(u, t, ps)
    BY <1>1, Zenon DEF Erases
  <1>3. granted'[u] = IF e.perms = {}
                      THEN [x \in DOMAIN granted[u] \ {t} |-> granted[u][x]]
                      ELSE [granted[u] EXCEPT ![t] = e]
    BY DEF EntriesAfterRevoke
  <1> HIDE DEF e
  <1>4. DOMAIN granted' = Users /\ \A x \in Users \ {u} : granted'[x] = granted[x]
    OBVIOUS
  <1> QED BY <1>1, <1>2, <1>3, <1>4 DEF OnlyKey

------------------------------------------------------------------------------
(***************************************************************************)
(* GRANT.                                                                  *)
(***************************************************************************)

\* The entry of a key is an entry, and so is what GRANT makes of it.
LEMMA AddedType ==
    ASSUME PermInv, NEW u \in Users, NEW t, NEW ps \in SUBSET Perms, NEW o \in BOOLEAN
    PROVE  /\ EntryOf(u, t) \in Entry
           /\ Added(EntryOf(u, t), ps, o) \in Entry
           /\ Added(EntryOf(u, t), ps, o).id = EntryOf(u, t).id
  <1>1. NoEntry \in Entry
    BY DEF NoEntry, Entry
  <1>2. EntryOf(u, t) \in Entry
    BY <1>1 DEF EntryOf, PermInv, GrantedOK
  <1>3. ASSUME NEW e \in Entry
        PROVE  Added(e, ps, o) \in Entry /\ Added(e, ps, o).id = e.id
    BY DEF Added, Entry
  <1> QED BY <1>2, <1>3

\* The types of the entries after a change of one key.
LEMMA GrantedAfter ==
    ASSUME PermInv, NEW u \in cached, NEW t \in Tables, OnlyKey(u, t), UNCHANGED cached,
           t \in DOMAIN granted'[u] => granted'[u][t] \in Entry
    PROVE  GrantedOK'
  <1>1. u \in Users /\ DOMAIN granted[u] \subseteq Tables
    BY DEF PermInv, UsersOK, GrantedOK
  <1>2. DOMAIN granted' = Users
    BY DEF OnlyKey
  <1>3. \A x \in Users : DOMAIN granted'[x] \subseteq Tables
    BY <1>1 DEF OnlyKey, PermInv, GrantedOK
  <1>4. \A x \in Users : \A s \in DOMAIN granted'[x] : granted'[x][s] \in Entry
    BY <1>1 DEF OnlyKey, PermInv, GrantedOK
  <1>5. \A x \in Users \ cached' : DOMAIN granted'[x] = {}
    BY <1>1 DEF OnlyKey, PermInv, GrantedOK
  <1> QED BY <1>2, <1>3, <1>4, <1>5 DEF GrantedOK

\* A permission that is recorded keeps the rows and the objects in agreement.
LEMMA GrantRecordsInv ==
    ASSUME PermInv, NEW u \in cached, NEW t \in Tables, NEW ps \in SUBSET Perms,
           NEW o \in BOOLEAN, GrantRecords(u, t, ps, o), UNCHANGED usedUsers
    PROVE  PermInv'
  <1> DEFINE e == Added(EntryOf(u, t), ps, o)
             id == lastPermId + 1
             row == RowOf(id, u, t, e)
             f == [e EXCEPT !.id = id]
             key == <<u, t>>
  <1>1. /\ u \in Users /\ u \in usedUsers /\ lastPermId \in Nat /\ id \in Nat \ {0}
        /\ DOMAIN granted = Users
    BY DEF PermInv, UsersOK, GrantedOK, PermRowsOK
  <1>2. e \in Entry
    BY <1>1, AddedType
  <1>3. f \in Entry /\ f.id = id /\ f.perms = e.perms /\ f.options = e.options
    BY <1>1, <1>2 DEF Entry
  <1>4. /\ row \in RowType /\ row.id = id /\ row.user = u /\ row.table = t
        /\ row.perms = e.perms /\ row.options = e.options
    BY <1>1, <1>2 DEF RowOf, RowType, Entry
  <1>5. /\ EntryOf(u, t).id = 0 /\ lastPermId' = id /\ permRows' = permRows \cup {row}
        /\ SetEntry(u, t, f) /\ cached' = cached
        /\ drifted' = IF RowsOfKey(u, t) = {} THEN drifted \ {key} ELSE drifted \cup {key}
    BY DEF GrantRecords
  <1>6. /\ OnlyKey(u, t) /\ DOMAIN granted'[u] = DOMAIN granted[u] \cup {t}
        /\ granted'[u][t] = f
    BY <1>1, <1>5, SetEntryEffect
  <1> HIDE DEF e, id, row, f
  <1>7. \A r \in permRows : r.id < id /\ r.id \in Nat
    BY <1>1 DEF PermInv, PermRowsOK, RowType, id
  <1>8. PermRowsOK'
    <2>1. permRows' \subseteq RowType /\ lastPermId' \in Nat
      BY <1>1, <1>4, <1>5 DEF PermInv, PermRowsOK
    <2>2. IsFiniteSet(permRows')
      BY <1>5, FS_AddElement DEF PermInv, PermRowsOK
    <2>3. \A r \in permRows' : r.id <= lastPermId' /\ r.user \in usedUsers'
      BY <1>1, <1>4, <1>5, <1>7 DEF PermInv, PermRowsOK
    <2>4. \A r, s \in permRows' : r.id = s.id => r = s
      BY <1>1, <1>4, <1>5, <1>7 DEF PermInv, PermRowsOK
    <2> QED BY <2>1, <2>2, <2>3, <2>4 DEF PermRowsOK
  <1>9. GrantedOK'
    BY <1>3, <1>5, <1>6, GrantedAfter
  <1>10. UsersOK'
    BY <1>5 DEF PermInv, UsersOK
  <1>11. EntriesOwnTheirRow'
    <2> SUFFICES ASSUME NEW x \in Users, NEW s \in DOMAIN granted'[x], granted'[x][s].id # 0
                 PROVE  /\ granted'[x][s].id <= lastPermId'
                        /\ \A r \in permRows' : r.id = granted'[x][s].id => r.user = x /\ r.table = s
      BY DEF EntriesOwnTheirRow
    <2>1. CASE x = u /\ s = t
      BY <2>1, <1>1, <1>3, <1>4, <1>5, <1>6, <1>7
    <2>2. CASE ~(x = u /\ s = t)
      <3>1. s \in DOMAIN granted[x] /\ granted'[x][s] = granted[x][s]
        BY <2>2, <1>6 DEF OnlyKey
      <3>2. granted[x][s].id \in Nat /\ granted[x][s].id <= lastPermId
        BY <3>1 DEF PermInv, GrantedOK, Entry, EntriesOwnTheirRow
      <3>3. \A r \in permRows : r.id = granted[x][s].id => r.user = x /\ r.table = s
        BY <3>1 DEF PermInv, EntriesOwnTheirRow
      <3>4. row.id # granted[x][s].id
        BY <3>2, <1>1, <1>4 DEF id
      <3> QED BY <3>1, <3>2, <3>3, <3>4, <1>1, <1>5 DEF id
    <2> QED BY <2>1, <2>2
  <1>12. OneRowPerKey'
    <2> SUFFICES ASSUME NEW r \in permRows', NEW s \in permRows',
                        r.user = s.user, r.table = s.table, r # s
                 PROVE  <<r.user, r.table>> \in drifted'
      BY DEF OneRowPerKey
    <2>1. CASE r = row \/ s = row
      <3>1. \E x \in permRows : x.user = u /\ x.table = t
        BY <2>1, <1>4, <1>5
      <3>2. RowsOfKey(u, t) # {}
        BY <3>1 DEF RowsOfKey
      <3> QED BY <2>1, <3>2, <1>4, <1>5
    <2>2. CASE r # row /\ s # row
      <3>1. r \in permRows /\ s \in permRows /\ <<r.user, r.table>> \in drifted
        BY <2>2, <1>5 DEF PermInv, OneRowPerKey
      <3>2. CASE RowsOfKey(u, t) = {}
        BY <3>1, <3>2, <1>5 DEF RowsOfKey
      <3>3. CASE RowsOfKey(u, t) # {}
        BY <3>1, <3>3, <1>5
      <3> QED BY <3>2, <3>3
    <2> QED BY <2>1, <2>2
  <1>13. PermissionsAreStored'
    <2> SUFFICES ASSUME NEW x \in cached', NEW s \in Tables, <<x, s>> \notin drifted'
                 PROVE  IF s \in DOMAIN granted'[x]
                        THEN \E r \in permRows' :
                               /\ RowsOfKey(x, s)' = {r}
                               /\ granted'[x][s].id \in {0, r.id}
                               /\ granted'[x][s].perms = r.perms
                               /\ granted'[x][s].options = r.options
                        ELSE RowsOfKey(x, s)' = {}
      BY DEF PermissionsAreStored, Tables
    <2>1. CASE x = u /\ s = t
      <3>1. RowsOfKey(u, t) = {}
        BY <2>1, <1>5
      <3>2. RowsOfKey(u, t)' = {row}
        BY <3>1, <1>4, <1>5 DEF RowsOfKey
      <3> QED BY <2>1, <3>2, <1>3, <1>4, <1>5, <1>6
    <2>2. CASE ~(x = u /\ s = t)
      <3>1. /\ x \in cached /\ x \in Users /\ <<x, s>> \notin drifted
            /\ s \in DOMAIN granted'[x] <=> s \in DOMAIN granted[x]
            /\ s \in DOMAIN granted[x] => granted'[x][s] = granted[x][s]
        BY <2>2, <1>5, <1>6 DEF OnlyKey, PermInv, UsersOK
      <3>2. RowsOfKey(x, s)' = RowsOfKey(x, s)
        BY <2>2, <1>4, <1>5 DEF RowsOfKey
      <3>3. permRows \subseteq permRows'
        BY <1>5
      <3> QED BY <3>1, <3>2, <3>3 DEF PermInv, PermissionsAreStored
    <2> QED BY <2>1, <2>2
  <1> QED BY <1>8, <1>9, <1>10, <1>11, <1>12, <1>13 DEF PermInv

\* An object that changes while its row does not: the key drifts, and everything
\* else stays as it is.
LEMMA DriftInv ==
    ASSUME PermInv, NEW u \in cached, NEW t \in Tables, OnlyKey(u, t),
           t \in DOMAIN granted'[u] =>
               /\ granted'[u][t] \in Entry
               /\ granted'[u][t].id # 0 =>
                      t \in DOMAIN granted[u] /\ granted'[u][t].id = granted[u][t].id,
           drifted' = drifted \cup {<<u, t>>},
           UNCHANGED <<permRows, lastPermId, cached, usedUsers>>
    PROVE  PermInv'
  <1>1. UsersOK' /\ PermRowsOK'
    BY DEF PermInv, UsersOK, PermRowsOK
  <1>2. GrantedOK'
    BY GrantedAfter
  <1>3. u \in Users
    BY DEF PermInv, UsersOK
  <1>4. ASSUME NEW x \in Users, NEW s, ~(x = u /\ s = t)
        PROVE  /\ s \in DOMAIN granted'[x] <=> s \in DOMAIN granted[x]
               /\ s \in DOMAIN granted[x] => granted'[x][s] = granted[x][s]
    BY <1>3, <1>4 DEF OnlyKey
  <1>5. EntriesOwnTheirRow'
    <2> SUFFICES ASSUME NEW x \in Users, NEW s \in DOMAIN granted'[x], granted'[x][s].id # 0
                 PROVE  /\ granted'[x][s].id <= lastPermId'
                        /\ \A r \in permRows' : r.id = granted'[x][s].id => r.user = x /\ r.table = s
      BY DEF EntriesOwnTheirRow
    <2>1. s \in DOMAIN granted[x] /\ granted'[x][s].id = granted[x][s].id
      BY <1>4
    <2> QED BY <2>1 DEF PermInv, EntriesOwnTheirRow
  <1>6. OneRowPerKey'
    BY DEF PermInv, OneRowPerKey
  <1>7. PermissionsAreStored'
    <2> SUFFICES ASSUME NEW x \in cached, NEW s \in Tables, <<x, s>> \notin drifted'
                 PROVE  IF s \in DOMAIN granted'[x]
                        THEN \E r \in permRows' :
                               /\ RowsOfKey(x, s)' = {r}
                               /\ granted'[x][s].id \in {0, r.id}
                               /\ granted'[x][s].perms = r.perms
                               /\ granted'[x][s].options = r.options
                        ELSE RowsOfKey(x, s)' = {}
      BY DEF PermissionsAreStored, Tables
    <2>1. x \in Users /\ <<x, s>> \notin drifted /\ ~(x = u /\ s = t)
      BY DEF PermInv, UsersOK
    <2>2. RowsOfKey(x, s)' = RowsOfKey(x, s)
      BY DEF RowsOfKey
    <2> QED BY <2>1, <2>2, <1>4 DEF PermInv, PermissionsAreStored
  <1> QED BY <1>1, <1>2, <1>5, <1>6, <1>7 DEF PermInv

\* Nothing changes but, possibly, the representation of the entries.
LEMMA SamePermissions ==
    ASSUME PermInv, UNCHANGED <<permRows, lastPermId, cached, drifted, usedUsers>>,
           DOMAIN granted' = Users,
           \A x \in Users : /\ DOMAIN granted'[x] = DOMAIN granted[x]
                            /\ \A s \in DOMAIN granted[x] : granted'[x][s] = granted[x][s]
    PROVE  PermInv'
  <1>1. UsersOK' /\ PermRowsOK' /\ OneRowPerKey'
    BY DEF PermInv, UsersOK, PermRowsOK, OneRowPerKey
  <1>2. GrantedOK'
    BY DEF PermInv, GrantedOK
  <1>3. EntriesOwnTheirRow'
    BY DEF PermInv, EntriesOwnTheirRow
  <1>4. PermissionsAreStored'
    <2>1. cached \subseteq Users
      BY DEF PermInv, UsersOK
    <2> QED BY <2>1 DEF PermInv, PermissionsAreStored, RowsOfKey, Tables
  <1> QED BY <1>1, <1>2, <1>3, <1>4 DEF PermInv

\* A GRANT whose row is not written.
LEMMA GrantThrowsInv ==
    ASSUME PermInv, NEW u \in cached, NEW t \in Tables, NEW ps \in SUBSET Perms,
           NEW o \in BOOLEAN, GrantThrows(u, t, ps, o), UNCHANGED usedUsers
    PROVE  PermInv'
  <1> DEFINE e == Added(EntryOf(u, t), ps, o)
  <1>1. u \in Users /\ DOMAIN granted = Users
    BY DEF PermInv, UsersOK, GrantedOK
  <1>2. e \in Entry /\ e.id = EntryOf(u, t).id
    BY <1>1, AddedType
  <1>3. /\ SetEntry(u, t, e) /\ UNCHANGED <<permRows, lastPermId, cached>>
        /\ drifted' = IF e = EntryOf(u, t) /\ t \in DOMAIN granted[u]
                      THEN drifted ELSE drifted \cup {<<u, t>>}
    BY DEF GrantThrows
  <1>4. /\ OnlyKey(u, t) /\ DOMAIN granted'[u] = DOMAIN granted[u] \cup {t}
        /\ granted'[u][t] = e
    BY <1>1, <1>3, SetEntryEffect
  <1>5. e.id # 0 => t \in DOMAIN granted[u] /\ e.id = granted[u][t].id
    BY <1>2 DEF EntryOf, NoEntry
  <1> HIDE DEF e
  <1>6. CASE e = EntryOf(u, t) /\ t \in DOMAIN granted[u]
    <2>1. e = granted[u][t]
      BY <1>6 DEF EntryOf
    <2>2. \A x \in Users : /\ DOMAIN granted'[x] = DOMAIN granted[x]
                           /\ \A s \in DOMAIN granted[x] : granted'[x][s] = granted[x][s]
      BY <2>1, <1>1, <1>4, <1>6 DEF OnlyKey
    <2> QED BY <2>2, <1>3, <1>4, <1>6, SamePermissions DEF OnlyKey
  <1>7. CASE ~(e = EntryOf(u, t) /\ t \in DOMAIN granted[u])
    BY <1>2, <1>3, <1>4, <1>5, <1>7, DriftInv
  <1> QED BY <1>6, <1>7

------------------------------------------------------------------------------
(***************************************************************************)
(* REVOKE.                                                                 *)
(***************************************************************************)

\* Entries on one table disappear from the objects of the users us, and with
\* those of the users in deleted the rows whose ID they know; where no row goes the
\* key drifts: RevokeErases(), RevokeThrows(), RevokeAll() and RevokeAllThrows().
Erased(us, deleted, drifting, t) ==
    /\ us \subseteq cached /\ deleted \subseteq us /\ drifting \subseteq us
    /\ \A u \in us : granted[u][t].id = 0 \/ u \notin deleted => u \in drifting
    /\ \A u \in us : t \in DOMAIN granted[u]
    /\ DOMAIN granted' = Users
    /\ \A x \in Users \ us : granted'[x] = granted[x]
    /\ \A u \in us : /\ DOMAIN granted'[u] = DOMAIN granted[u] \ {t}
                     /\ \A s \in DOMAIN granted'[u] : granted'[u][s] = granted[u][s]
    /\ permRows' = {r \in permRows : \A u \in deleted : r.id # granted[u][t].id}
    /\ drifted' = drifted \cup {<<u, t>> : u \in drifting}
    /\ UNCHANGED <<lastPermId, cached, usedUsers>>

LEMMA EraseInv ==
    ASSUME PermInv, NEW us, NEW deleted, NEW drifting, NEW t \in Tables,
           Erased(us, deleted, drifting, t)
    PROVE  PermInv'
  <1> USE DEF Erased
  <1>1. us \subseteq Users /\ cached \subseteq Users
    BY DEF PermInv, UsersOK
  <1>2. permRows' \subseteq permRows
    OBVIOUS
  <1>3. UsersOK'
    BY DEF PermInv, UsersOK
  <1>4. PermRowsOK'
    BY <1>2, FS_Subset DEF PermInv, PermRowsOK
  <1>5. ASSUME NEW x \in Users, NEW s \in DOMAIN granted'[x]
        PROVE  s \in DOMAIN granted[x] /\ granted'[x][s] = granted[x][s]
    BY <1>5
  <1>6. GrantedOK'
    <2>1. \A x \in Users : DOMAIN granted'[x] \subseteq Tables
      BY <1>5 DEF PermInv, GrantedOK
    <2>2. \A x \in Users : \A s \in DOMAIN granted'[x] : granted'[x][s] \in Entry
      BY <1>5 DEF PermInv, GrantedOK
    <2>3. \A x \in Users \ cached' : DOMAIN granted'[x] = {}
      BY <1>5 DEF PermInv, GrantedOK
    <2> QED BY <2>1, <2>2, <2>3 DEF GrantedOK
  <1>7. EntriesOwnTheirRow'
    BY <1>2, <1>5 DEF PermInv, EntriesOwnTheirRow
  <1>8. OneRowPerKey'
    BY <1>2 DEF PermInv, OneRowPerKey
  <1>9. PermissionsAreStored'
    <2> SUFFICES ASSUME NEW x \in cached, NEW s \in Tables, <<x, s>> \notin drifted'
                 PROVE  IF s \in DOMAIN granted'[x]
                        THEN \E r \in permRows' :
                               /\ RowsOfKey(x, s)' = {r}
                               /\ granted'[x][s].id \in {0, r.id}
                               /\ granted'[x][s].perms = r.perms
                               /\ granted'[x][s].options = r.options
                        ELSE RowsOfKey(x, s)' = {}
      BY DEF PermissionsAreStored, Tables
    <2>1. x \in Users /\ <<x, s>> \notin drifted
      BY <1>1
    <2>2. RowsOfKey(x, s)' \subseteq RowsOfKey(x, s)
      BY <1>2 DEF RowsOfKey
    <2>3. CASE x \in us /\ s = t
      <3>1. /\ s \in DOMAIN granted[x] /\ s \notin DOMAIN granted'[x]
            /\ granted[x][s].id # 0 /\ x \in deleted
        BY <2>1, <2>3
      <3>2. PICK r \in permRows : RowsOfKey(x, s) = {r} /\ granted[x][s].id \in {0, r.id}
        BY <2>1, <3>1 DEF PermInv, PermissionsAreStored
      <3>3. r \notin permRows'
        BY <2>3, <3>1, <3>2
      <3> QED BY <2>2, <3>1, <3>2, <3>3 DEF RowsOfKey
    <2>4. CASE ~(x \in us /\ s = t)
      <3>1. s \in DOMAIN granted'[x] <=> s \in DOMAIN granted[x]
        BY <2>1, <2>4
      <3>2. ASSUME NEW r \in permRows, r.user = x, r.table = s
            PROVE  r \in permRows'
        <4>1. ASSUME NEW u \in deleted, r.id = granted[u][t].id
              PROVE  FALSE
          <5>1. r.id # 0
            BY DEF PermInv, PermRowsOK, RowType
          <5>2. r.user = u /\ r.table = t
            BY <4>1, <5>1, <1>1 DEF PermInv, EntriesOwnTheirRow
          <5> QED BY <5>2, <4>1, <3>2, <2>4
        <4> QED BY <4>1
      <3>3. RowsOfKey(x, s)' = RowsOfKey(x, s)
        BY <2>2, <3>2 DEF RowsOfKey
      <3>4. CASE s \in DOMAIN granted'[x]
        <4>1. PICK r \in permRows : /\ RowsOfKey(x, s) = {r}
                                    /\ granted[x][s].id \in {0, r.id}
                                    /\ granted[x][s].perms = r.perms
                                    /\ granted[x][s].options = r.options
          BY <2>1, <3>1, <3>4 DEF PermInv, PermissionsAreStored
        <4>2. r \in permRows'
          BY <4>1, <3>3 DEF RowsOfKey
        <4> QED BY <4>1, <4>2, <3>3, <3>4, <2>1, <1>5
      <3>5. CASE s \notin DOMAIN granted'[x]
        BY <2>1, <3>1, <3>3, <3>5 DEF PermInv, PermissionsAreStored
      <3> QED BY <3>4, <3>5
    <2> QED BY <2>3, <2>4
  <1> QED BY <1>3, <1>4, <1>6, <1>7, <1>8, <1>9 DEF PermInv

\* A revocation that leaves nothing erases the entry, and its row when deleted
\* says so.
LEMMA EntryErased ==
    ASSUME PermInv, NEW u \in cached, NEW t \in Tables, NEW ps, NEW deleted \in SUBSET {u},
           Revokes(u, t, ps), Erases(u, t, ps),
           granted' = [granted EXCEPT ![u] = EntriesAfterRevoke(u, t, ps)],
           permRows' = {r \in permRows : \A x \in deleted : r.id # granted[x][t].id},
           \/ drifted' = drifted \cup {<<u, t>>}
           \/ drifted' = drifted /\ granted[u][t].id # 0 /\ u \in deleted,
           UNCHANGED <<lastPermId, cached, usedUsers>>
    PROVE  PermInv'
  <1>1. /\ u \in Users /\ DOMAIN granted = Users /\ t \in DOMAIN granted[u]
        /\ granted[u][t] \in Entry
    BY DEF PermInv, UsersOK, GrantedOK, Revokes
  <1>2. OnlyKey(u, t) /\ t \notin DOMAIN granted'[u]
    BY <1>1, RevokeEffect
  <1> DEFINE us == {u}
  <1>3. PICK drifting \in SUBSET us :
            /\ drifted' = drifted \cup {<<x, t>> : x \in drifting}
            /\ \A x \in us : granted[x][t].id = 0 \/ x \notin deleted => x \in drifting
    <2>1. CASE drifted' = drifted \cup {<<u, t>>}
      <3>1. drifted' = drifted \cup {<<x, t>> : x \in us}
        BY <2>1
      <3> QED BY <3>1
    <2>2. CASE drifted' = drifted /\ granted[u][t].id # 0 /\ u \in deleted
      <3>1. PICK none : none = {}
        OBVIOUS
      <3>2. /\ none \in SUBSET us /\ drifted' = drifted \cup {<<x, t>> : x \in none}
            /\ \A x \in us : granted[x][t].id = 0 \/ x \notin deleted => x \in none
        BY <2>2, <3>1
      <3> QED BY <3>2
    <2> QED BY <2>1, <2>2
  <1>4. /\ us \in SUBSET cached /\ \A x \in us : t \in DOMAIN granted[x]
        /\ DOMAIN granted' = Users /\ deleted \in SUBSET us
        /\ \A x \in Users \ us : granted'[x] = granted[x]
        /\ \A x \in us : /\ DOMAIN granted'[x] = DOMAIN granted[x] \ {t}
                         /\ \A s \in DOMAIN granted'[x] : granted'[x][s] = granted[x][s]
    BY <1>1, <1>2 DEF OnlyKey
  <1> HIDE DEF us
  <1>5. Erased(us, deleted, drifting, t)
    BY <1>3, <1>4 DEF Erased
  <1> QED BY <1>5, EraseInv, Zenon

\* A REVOKE that leaves nothing erases the entry and its row.
LEMMA RevokeErasesInv ==
    ASSUME PermInv, NEW u \in cached, NEW t \in Tables, NEW ps,
           RevokeErases(u, t, ps), UNCHANGED usedUsers
    PROVE  PermInv'
  <1>1. /\ granted' = [granted EXCEPT ![u] = EntriesAfterRevoke(u, t, ps)]
        /\ Revokes(u, t, ps) /\ Erases(u, t, ps)
        /\ permRows' = {r \in permRows : \A x \in {u} : r.id # granted[x][t].id}
        /\ drifted' = IF granted[u][t].id = 0 THEN drifted \cup {<<u, t>>} ELSE drifted
        /\ UNCHANGED <<lastPermId, cached>>
    BY DEF RevokeErases, RowsAfterErase
  <1> QED BY <1>1, EntryErased

\* A REVOKE that throws: its row is not changed, or it is deleted all the same.
LEMMA RevokeThrowsInv ==
    ASSUME PermInv, NEW u \in cached, NEW t \in Tables, NEW ps,
           RevokeThrows(u, t, ps), UNCHANGED usedUsers
    PROVE  PermInv'
  <1>1. /\ u \in Users /\ DOMAIN granted = Users /\ t \in DOMAIN granted[u]
        /\ granted[u][t] \in Entry
    BY DEF PermInv, UsersOK, GrantedOK, RevokeThrows, Revokes
  <1>2. /\ Revokes(u, t, ps)
        /\ granted' = [granted EXCEPT ![u] = EntriesAfterRevoke(u, t, ps)]
        /\ drifted' = drifted \cup {<<u, t>>}
        /\ UNCHANGED <<lastPermId, cached>>
    BY DEF RevokeThrows
  <1>3. CASE UNCHANGED permRows
    <2>1. /\ OnlyKey(u, t)
          /\ t \in DOMAIN granted'[u] =>
               granted'[u][t] \in Entry /\ granted'[u][t].id = granted[u][t].id
      BY <1>1, <1>2, RevokeEffect
    <2> QED BY <1>1, <1>2, <1>3, <2>1, DriftInv
  <1>4. CASE Erases(u, t, ps) /\ permRows' = RowsAfterErase(u, t)
    <2>1. PICK deleted : deleted = {u}
      OBVIOUS
    <2>2. permRows' = {r \in permRows : \A x \in deleted : r.id # granted[x][t].id}
      BY <1>4, <2>1 DEF RowsAfterErase
    <2>3. deleted \in SUBSET {u}
      BY <2>1
    <2> QED BY <1>2, <1>4, <2>2, <2>3, EntryErased
  <1> QED BY <1>3, <1>4 DEF RevokeThrows

\* DROP TABLE erases the entries of users in memory, and their rows.
LEMMA RevokeFromInv ==
    ASSUME PermInv, NEW t \in Tables, NEW us \in SUBSET Holders(t), NEW deleted \in SUBSET us,
           NEW drifting \in SUBSET us, RevokeFrom(us, deleted, t), UNCHANGED usedUsers,
           \A u \in us : granted[u][t].id = 0 \/ u \notin deleted => u \in drifting,
           drifted' = drifted \cup {<<u, t>> : u \in drifting}
    PROVE  PermInv'
  <1>1. /\ granted' = [u \in Users |->
                          IF u \in us THEN EntriesAfterRevoke(u, t, Perms) ELSE granted[u]]
        /\ permRows' = {r \in permRows : \A u \in deleted : r \in RowsAfterErase(u, t)}
        /\ UNCHANGED <<lastPermId, cached>>
    BY DEF RevokeFrom
  <1>2. us \in SUBSET cached /\ us \subseteq Users /\ \A u \in us : t \in DOMAIN granted[u]
    BY DEF Holders, Revokes, PermInv, UsersOK
  <1>3. ASSUME NEW u \in us
        PROVE  EntriesAfterRevoke(u, t, Perms) = [x \in DOMAIN granted[u] \ {t} |-> granted[u][x]]
    <2>1. granted[u][t] \in Entry
      BY <1>2 DEF PermInv, GrantedOK
    <2>2. [granted[u][t] EXCEPT !.perms = @ \ Perms, !.options = @ \ Perms].perms = {}
      BY <2>1 DEF Entry
    <2> QED BY <2>2 DEF EntriesAfterRevoke
  <1>4. /\ DOMAIN granted' = Users
        /\ \A x \in Users \ us : granted'[x] = granted[x]
    BY <1>1
  <1>5. \A x \in us : granted'[x] = [s \in DOMAIN granted[x] \ {t} |-> granted[x][s]]
    BY <1>1, <1>2, <1>3
  <1>6. permRows' = {r \in permRows : \A x \in deleted : r.id # granted[x][t].id}
    BY <1>1 DEF RowsAfterErase
  <1>7. \A x \in us : /\ DOMAIN granted'[x] = DOMAIN granted[x] \ {t}
                     /\ \A s \in DOMAIN granted'[x] : granted'[x][s] = granted[x][s]
    BY <1>5
  <1>8. Erased(us, deleted, drifting, t)
    BY <1>1, <1>2, <1>4, <1>6, <1>7 DEF Erased
  <1> QED BY <1>8, EraseInv, Zenon

\* DROP TABLE, whether it reaches all users or throws at one of them.
LEMMA RevokeAllInv ==
    ASSUME PermInv, NEW t \in Tables, RevokeAll(t) \/ RevokeAllThrows(t), UNCHANGED usedUsers
    PROVE  PermInv'
  <1>1. CASE RevokeAll(t)
    <2>1. PICK us : us = Holders(t)
      OBVIOUS
    <2>2. PICK drifting : drifting = {x \in us : granted[x][t].id = 0}
      OBVIOUS
    <2>3. /\ RevokeFrom(us, us, t) /\ drifted' = drifted \cup {<<u, t>> : u \in drifting}
          /\ us \in SUBSET Holders(t) /\ us \in SUBSET us /\ drifting \in SUBSET us
          /\ \A u \in us : granted[u][t].id = 0 \/ u \notin us => u \in drifting
      BY <1>1, <2>1, <2>2 DEF RevokeAll
    <2> QED BY <2>3, RevokeFromInv
  <1>2. CASE RevokeAllThrows(t)
    <2>1. PICK us, u, deleted :
              /\ us \in SUBSET Holders(t) /\ u \in us /\ deleted \in {us, us \ {u}}
              /\ RevokeFrom(us, deleted, t)
              /\ drifted' = drifted
                    \cup {<<x, t>> : x \in {y \in us : y = u \/ granted[y][t].id = 0}}
      BY <1>2 DEF RevokeAllThrows
    <2>2. PICK drifting : drifting = {y \in us : y = u \/ granted[y][t].id = 0}
      OBVIOUS
    <2>3. /\ drifted' = drifted \cup {<<x, t>> : x \in drifting}
          /\ deleted \in SUBSET us /\ drifting \in SUBSET us
          /\ \A x \in us : granted[x][t].id = 0 \/ x \notin deleted => x \in drifting
      BY <2>1, <2>2
    <2> QED BY <2>1, <2>3, RevokeFromInv
  <1> QED BY <1>1, <1>2

------------------------------------------------------------------------------
(***************************************************************************)
(* Objects made from rows: lookups and the start.                          *)
(***************************************************************************)

\* What an object made from the rows says: an entry for every key that has a
\* row, with the permissions of one of the rows.
LoadedFrom(f, u) ==
    /\ DOMAIN f = {t \in Tables : RowsOfKey(u, t) # {}}
    /\ \A t \in DOMAIN f : /\ f[t] \in Entry /\ f[t].id = 0
                           /\ \E r \in RowsOfKey(u, t) :
                                 f[t].perms = r.perms /\ f[t].options = r.options

\* The objects that findUserUnlocked() makes are such objects.
LEMMA LoadedEntriesType ==
    ASSUME PermInv, NEW u \in Users
    PROVE  \A f \in LoadedEntries(u) : LoadedFrom(f, u)
  <1> SUFFICES ASSUME NEW f \in LoadedEntries(u)
               PROVE  LoadedFrom(f, u)
    OBVIOUS
  <1> DEFINE keys == {r.table : r \in {x \in permRows : x.user = u}}
             entries == {[id |-> 0, perms |-> r.perms, options |-> r.options] : r \in permRows}
  <1>1. /\ f \in [keys -> entries]
        /\ \A t \in keys : \E r \in RowsOfKey(u, t) :
               f[t].perms = r.perms /\ f[t].options = r.options
    BY DEF LoadedEntries
  <1> HIDE DEF keys, entries
  <1>2. permRows \subseteq RowType
    BY DEF PermInv, PermRowsOK
  <1>3. \A e \in entries : e \in Entry /\ e.id = 0
    BY <1>2 DEF Entry, RowType, entries
  <1>4. keys = {t \in Tables : RowsOfKey(u, t) # {}}
    <2>1. \A r \in permRows : r.table \in Tables
      BY <1>2 DEF RowType
    <2> QED BY <2>1 DEF RowsOfKey, keys
  <1> QED BY <1>1, <1>3, <1>4 DEF LoadedFrom

\* The objects of the users in new are made from the rows, those of the users
\* in kept stay, and no other object has entries: LookUpUser(),
\* PermissionsRestart(), CreateUser() and DropUser().
LEMMA LoadInv ==
    ASSUME PermInv, NEW kept \in SUBSET cached, NEW new \in SUBSET Users,
           Super \in kept \cup new, cached' = kept \cup new, kept \cap new = {},
           usedUsers \subseteq usedUsers', cached' \subseteq usedUsers', usedUsers' \subseteq Users,
           DOMAIN granted' = Users,
           \A u \in kept : granted'[u] = granted[u],
           \A u \in new : LoadedFrom(granted'[u], u),
           \A u \in Users \ (kept \cup new) : DOMAIN granted'[u] = {},
           \/ drifted' = drifted
           \/ /\ kept = {}
              /\ drifted' = {k \in Users \X Tables : Cardinality(RowsOfKey(k[1], k[2])) > 1},
           UNCHANGED <<permRows, lastPermId>>
    PROVE  PermInv'
  <1>1. UsersOK'
    BY DEF UsersOK
  <1>2. PermRowsOK'
    BY DEF PermInv, PermRowsOK
  <1>3. kept \subseteq Users /\ cached \subseteq Users
    BY DEF PermInv, UsersOK
  <1>4. ASSUME NEW u \in new
        PROVE  /\ DOMAIN granted'[u] = {t \in Tables : RowsOfKey(u, t) # {}}
               /\ \A t \in DOMAIN granted'[u] :
                     /\ granted'[u][t] \in Entry /\ granted'[u][t].id = 0
                     /\ \E r \in RowsOfKey(u, t) :
                            granted'[u][t].perms = r.perms /\ granted'[u][t].options = r.options
    BY DEF LoadedFrom
  <1>5. GrantedOK'
    <2>1. \A x \in Users : DOMAIN granted'[x] \subseteq Tables
      BY <1>3, <1>4 DEF PermInv, GrantedOK
    <2>2. \A x \in Users : \A s \in DOMAIN granted'[x] : granted'[x][s] \in Entry
      BY <1>3, <1>4 DEF PermInv, GrantedOK
    <2> QED BY <2>1, <2>2 DEF GrantedOK
  <1>6. EntriesOwnTheirRow'
    BY <1>3, <1>4 DEF PermInv, EntriesOwnTheirRow
  <1>7. \A x \in Users, s \in Tables : RowsOfKey(x, s) \subseteq permRows
    BY DEF RowsOfKey
  <1>8. OneRowPerKey'
    <2> SUFFICES ASSUME NEW r \in permRows, NEW s \in permRows,
                        r.user = s.user, r.table = s.table, r # s
                 PROVE  <<r.user, r.table>> \in drifted'
      BY DEF OneRowPerKey
    <2>1. CASE drifted' = drifted
      BY <2>1 DEF PermInv, OneRowPerKey
    <2>2. CASE drifted' = {k \in Users \X Tables : Cardinality(RowsOfKey(k[1], k[2])) > 1}
      <3>1. r.user \in Users /\ r.table \in Tables
        BY DEF PermInv, PermRowsOK, RowType
      <3>2. {r, s} \subseteq RowsOfKey(r.user, r.table)
        BY DEF RowsOfKey
      <3>3. IsFiniteSet(RowsOfKey(r.user, r.table))
        BY <3>1, <1>7, FS_Subset DEF PermInv, PermRowsOK
      <3>4. Cardinality({r, s}) = 2
        <4>1. IsFiniteSet({r}) /\ Cardinality({r}) = 1
          BY FS_Singleton
        <4>2. s \notin {r} /\ {r} \cup {s} = {r, s}
          OBVIOUS
        <4>3. Cardinality({r} \cup {s}) = Cardinality({r}) + 1
          BY <4>1, <4>2, FS_AddElement, Zenon
        <4>4. Cardinality({r} \cup {s}) = 1 + 1
          BY <4>1, <4>3, Zenon
        <4>5. 1 + 1 = 2
          OBVIOUS
        <4> QED BY <4>2, <4>4, <4>5, Zenon
      <3>5. Cardinality({r, s}) <= Cardinality(RowsOfKey(r.user, r.table))
        BY <3>2, <3>3, FS_Subset
      <3>6. Cardinality(RowsOfKey(r.user, r.table)) > 1
        BY <3>3, <3>4, <3>5, FS_CardinalityType
      <3> QED BY <2>2, <3>1, <3>6
    <2> QED BY <2>1, <2>2
  <1>9. PermissionsAreStored'
    <2> SUFFICES ASSUME NEW x \in cached', NEW s \in Tables, <<x, s>> \notin drifted'
                 PROVE  IF s \in DOMAIN granted'[x]
                        THEN \E r \in permRows' :
                               /\ RowsOfKey(x, s)' = {r}
                               /\ granted'[x][s].id \in {0, r.id}
                               /\ granted'[x][s].perms = r.perms
                               /\ granted'[x][s].options = r.options
                        ELSE RowsOfKey(x, s)' = {}
      BY DEF PermissionsAreStored, Tables
    <2>1. RowsOfKey(x, s)' = RowsOfKey(x, s) /\ x \in Users
      BY <1>3 DEF RowsOfKey
    <2>2. CASE x \in kept
      <3>1. drifted' = drifted /\ x \in cached
        BY <2>2
      <3> QED BY <2>1, <2>2, <3>1 DEF PermInv, PermissionsAreStored
    <2>3. CASE x \in new /\ s \in DOMAIN granted'[x]
      <3>1. PICK r \in RowsOfKey(x, s) :
                 granted'[x][s].perms = r.perms /\ granted'[x][s].options = r.options
        BY <2>3, <1>4
      <3>2. ASSUME NEW q \in RowsOfKey(x, s)
            PROVE  q = r
        <4>1. q \in permRows /\ r \in permRows
          BY <1>7, <2>1
        <4>2. q.user = x /\ q.table = s /\ r.user = x /\ r.table = s
          BY DEF RowsOfKey
        <4>3. OneRowPerKey' /\ permRows' = permRows
          BY <1>8
        <4> QED BY <4>1, <4>2, <4>3 DEF OneRowPerKey
      <3>3. RowsOfKey(x, s) = {r}
        BY <3>2
      <3>4. granted'[x][s].id = 0
        BY <2>3, <1>4
      <3>5. r \in permRows'
        BY <1>7, <2>1
      <3> QED BY <2>1, <2>3, <3>1, <3>3, <3>4, <3>5
    <2>4. CASE x \in new /\ s \notin DOMAIN granted'[x]
      BY <2>1, <2>4, <1>4
    <2> QED BY <2>2, <2>3, <2>4
  <1> QED BY <1>1, <1>2, <1>5, <1>6, <1>8, <1>9 DEF PermInv

\* The first lookup of a user.
LEMMA LookUpUserInv ==
    ASSUME PermInv, NEW u \in usedUsers, LookUpUser(u), UNCHANGED usedUsers
    PROVE  PermInv'
  <1>1. u \in Users /\ DOMAIN granted = Users
    BY DEF PermInv, UsersOK, GrantedOK
  <1>2. PICK f \in LoadedEntries(u) : granted' = [granted EXCEPT ![u] = f]
    BY DEF LookUpUser
  <1>3. LoadedFrom(f, u)
    BY <1>1, LoadedEntriesType
  <1> DEFINE new == {u}
  <1>4. /\ cached' = cached \cup new /\ cached \cap new = {} /\ Super \in cached
        /\ cached' \subseteq usedUsers /\ usedUsers \subseteq Users
        /\ UNCHANGED <<permRows, lastPermId, drifted>>
    BY DEF LookUpUser, PermInv, UsersOK
  <1>5. /\ DOMAIN granted' = Users /\ \A x \in cached : granted'[x] = granted[x]
        /\ granted'[u] = f
        /\ \A x \in Users \ (cached \cup new) : granted'[x] = granted[x]
    BY <1>1, <1>2, <1>4 DEF PermInv, UsersOK
  <1>6. \A x \in Users \ (cached \cup new) : DOMAIN granted'[x] = {}
    BY <1>5 DEF PermInv, GrantedOK
  <1>7. \A x \in new : LoadedFrom(granted'[x], x)
    BY <1>3, <1>5
  <1>8. new \in SUBSET Users
    BY <1>1
  <1> HIDE DEF new
  <1> QED BY <1>4, <1>5, <1>6, <1>7, <1>8, LoadInv

\* A start reads the rows again.
LEMMA PermissionsRestartInv ==
    ASSUME PermInv, PermissionsRestart, UNCHANGED usedUsers
    PROVE  PermInv'
  <1>1. Super \in Users /\ Super \in usedUsers /\ usedUsers \subseteq Users
    BY DEF PermInv, UsersOK
  <1>2. PICK f \in LoadedEntries(Super) :
            granted' = [u \in Users |-> IF u = Super THEN f ELSE [t \in {} |-> NoEntry]]
    BY DEF PermissionsRestart
  <1>3. LoadedFrom(f, Super)
    BY <1>1, LoadedEntriesType
  <1> DEFINE kept == {} new == {Super}
  <1>4. /\ cached' = kept \cup new /\ kept \cap new = {} /\ Super \in kept \cup new
        /\ kept \in SUBSET cached /\ new \in SUBSET Users /\ cached' \subseteq usedUsers
        /\ drifted' = {k \in Users \X Tables : Cardinality(RowsOfKey(k[1], k[2])) > 1}
        /\ UNCHANGED <<permRows, lastPermId>>
    BY <1>1 DEF PermissionsRestart
  <1>5. /\ DOMAIN granted' = Users /\ \A x \in kept : granted'[x] = granted[x]
        /\ granted'[Super] = f
        /\ \A x \in Users \ (kept \cup new) : DOMAIN granted'[x] = {}
    BY <1>1, <1>2
  <1>6. \A x \in new : LoadedFrom(granted'[x], x)
    BY <1>3, <1>5
  <1>7. kept = {}
    OBVIOUS
  <1> HIDE DEF kept, new
  <1> QED BY <1>1, <1>4, <1>5, <1>6, <1>7, LoadInv

\* A new user has no permissions: its ID has never been used.
LEMMA CreateUserInv ==
    ASSUME PermInv, NEW u \in Users, NEW n, NEW active, CreateUser(u, n, active)
    PROVE  PermInv'
  <1>1. /\ u \notin usedUsers /\ usedUsers' = usedUsers \cup {u}
        /\ cached' = cached \cup {u} \/ cached' = cached
        /\ UNCHANGED <<permRows, lastPermId, granted, drifted>>
    BY DEF CreateUser
  <1>2. /\ u \notin cached /\ Super \in cached /\ cached \subseteq usedUsers
        /\ usedUsers \subseteq Users /\ DOMAIN granted = Users
        /\ \A x \in Users \ cached : DOMAIN granted[x] = {}
    BY <1>1 DEF PermInv, UsersOK, GrantedOK
  <1>3. \A t \in Tables : RowsOfKey(u, t) = {}
    BY <1>1 DEF PermInv, PermRowsOK, RowsOfKey
  <1>4. LoadedFrom(granted'[u], u)
    BY <1>1, <1>2, <1>3 DEF LoadedFrom
  <1>5. ASSUME NEW new \in SUBSET {u}, cached' = cached \cup new
        PROVE  PermInv'
    <2>1. \A x \in new : LoadedFrom(granted'[x], x)
      BY <1>4, <1>5
    <2>2. /\ cached \in SUBSET cached /\ new \in SUBSET Users /\ Super \in cached \cup new
          /\ cached \cap new = {} /\ usedUsers \subseteq usedUsers'
          /\ cached' \subseteq usedUsers' /\ usedUsers' \subseteq Users
          /\ DOMAIN granted' = Users /\ \A x \in cached : granted'[x] = granted[x]
          /\ \A x \in Users \ (cached \cup new) : DOMAIN granted'[x] = {}
      BY <1>1, <1>2, <1>5
    <2> QED BY <1>1, <1>5, <2>1, <2>2, LoadInv
  <1>6. \E new \in SUBSET {u} : cached' = cached \cup new
    <2>1. cached = cached \cup {} /\ {} \in SUBSET {u} /\ {u} \in SUBSET {u}
      OBVIOUS
    <2> QED BY <1>1, <2>1, Zenon
  <1> QED BY <1>5, <1>6

\* A dropped user is no longer in memory; its rows stay.
LEMMA DropUserInv ==
    ASSUME PermInv, NEW u \in Users, DropUser(u)
    PROVE  PermInv'
  <1> DEFINE kept == cached \ {u}
             new == {}
  <1>1. /\ u # Super /\ cached' = kept /\ usedUsers' = usedUsers
        /\ granted' = [granted EXCEPT ![u] = [t \in {} |-> NoEntry]]
        /\ UNCHANGED <<permRows, lastPermId, drifted>>
    BY DEF DropUser
  <1>2. /\ Super \in cached /\ cached \subseteq usedUsers /\ usedUsers \subseteq Users
        /\ DOMAIN granted = Users
        /\ \A x \in Users \ cached : DOMAIN granted[x] = {}
    BY <1>1 DEF PermInv, UsersOK, GrantedOK
  <1>3. /\ kept \in SUBSET cached /\ new \in SUBSET Users /\ Super \in kept \cup new
        /\ kept \cap new = {} /\ cached' = kept \cup new /\ cached' \subseteq usedUsers
        /\ DOMAIN granted' = Users /\ \A x \in kept : granted'[x] = granted[x]
        /\ \A x \in Users \ (kept \cup new) : DOMAIN granted'[x] = {}
        /\ \A x \in new : LoadedFrom(granted'[x], x)
    BY <1>1, <1>2
  <1>4. usedUsers \subseteq usedUsers' /\ cached' \subseteq usedUsers' /\ usedUsers' \subseteq Users
    BY <1>1, <1>2
  <1> HIDE DEF kept, new
  <1> QED BY <1>1, <1>3, <1>4, LoadInv, Zenon

------------------------------------------------------------------------------
(***************************************************************************)
(* Which tables occur where.  While a CREATE TABLE runs, nothing about     *)
(* permissions knows its table.                                            *)
(***************************************************************************)
\* The tables that rows of permissions or entries of objects name.
PermTables == {r.table : r \in permRows} \cup UNION {DOMAIN granted[u] : u \in Users}

Given == IF stmt.kind = "create" THEN 1..(lastTable - 1) ELSE 1..lastTable

\* The rows that CREATE TABLE records.
RecordedObjects(t) ==
    {<<"table", t>>, <<"set", t>>, <<"index", t>>, <<"indexcol", t>>}
    \cup {<<k, t, c>> : k \in {"column", "coldef", "setcol", "constraint", "defconst"},
                        c \in Columns}
    \cup {<<"constdef", d>> : d \in Contents \cup {NotNull}}

\* The statement in execution: none, a CREATE of the newest table, or a DROP.
StatementOK ==
    \/ stmt = Idle
    \/ /\ DOMAIN stmt = {"kind", "table", "user", "todo"} /\ stmt.kind = "create"
       /\ stmt.table = lastTable /\ lastTable > 0 /\ stmt.user \in cached
       /\ stmt.todo \in Seq(RecordedObjects(lastTable))
    \/ /\ DOMAIN stmt = {"kind", "table", "todo", "definitions"} /\ stmt.kind = "drop"
       /\ stmt.table \in Tables

TablesKnown ==
    /\ lastTable \in 0..MaxTables
    /\ PermTables \subseteq Given
    /\ \A t \in Tables : <<"table", t>> \in rows \cup registry => t <= lastTable

BudgetOK == budget \in [tables : 0..MaxTables, accounts : Nat, events : Nat, logins : BOOLEAN]

\* No other object is the object of a table.
LEMMA RecordedTables ==
    ASSUME NEW t, NEW x, <<"table", x>> \in RecordedObjects(t)
    PROVE  x = t
  BY DEF RecordedObjects, Columns

\* recordTableDefinition() records objects of the table and definitions.
LEMMA RecordOrderType ==
    ASSUME NEW t, NEW d \in Contents
    PROVE  RecordOrder(t, d) \in Seq(RecordedObjects(t))
  <1> DEFINE O == RecordedObjects(t)
             constraint(c) == << <<"constraint", t, c>>, <<"defconst", t, c>> >>
             definition(e, known) == IF e \in known THEN <<>> ELSE << <<"constdef", e>> >>
             a == << <<"table", t>>, <<"column", t, 0>>, <<"column", t, 1>>,
                     <<"coldef", t, 0>>, <<"coldef", t, 1>>,
                     <<"set", t>>, <<"setcol", t, 0>>, <<"setcol", t, 1>> >>
             b == definition(NotNull, written)
             c0 == constraint(0)
             e1 == definition(d, written \cup {NotNull})
             c1 == constraint(1)
             i == << <<"index", t>>, <<"indexcol", t>> >>
  <1>1. /\ <<"table", t>> \in O /\ <<"set", t>> \in O
        /\ <<"index", t>> \in O /\ <<"indexcol", t>> \in O
    BY DEF RecordedObjects
  <1>2. \A k \in {"column", "coldef", "setcol", "constraint", "defconst"}, c \in Columns :
            <<k, t, c>> \in O
    BY DEF RecordedObjects
  <1>3. \A e \in Contents \cup {NotNull} : <<"constdef", e>> \in O
    BY DEF RecordedObjects
  <1> HIDE DEF O
  <1>4. a \in Seq(O)
    BY <1>1, <1>2 DEF Columns
  <1>5. c0 \in Seq(O) /\ c1 \in Seq(O) /\ i \in Seq(O)
    BY <1>1, <1>2 DEF Columns
  <1>6. b \in Seq(O) /\ e1 \in Seq(O)
    BY <1>3
  <1>7. RecordOrder(t, d) = a \o b \o c0 \o e1 \o c1 \o i
    BY DEF RecordOrder
  <1> HIDE DEF a, b, c0, e1, c1, i
  <1> QED BY <1>4, <1>5, <1>6, <1>7, ConcatProperties DEF O

\* What CREATE TABLE registers, wholly or up to a failure, contains no other
\* table.
LEMMA MemoryTables ==
    ASSUME NEW t, NEW d, NEW x
    PROVE  /\ <<"table", x>> \in UNION ToSet(MemoryOrder(t, d)) => x = t
           /\ \A k \in 0..8 :
                  <<"table", x>> \in UNION ToSet(SubSeq(MemoryOrder(t, d), 1, k)) => x = t
  <1> DEFINE m == MemoryOrder(t, d)
  <1>1. Len(m) = 9 /\ DOMAIN m = 1..9
    BY DEF MemoryOrder
  <1>2. \A i \in 1..9 : <<"table", x>> \in m[i] => x = t
    BY DEF MemoryOrder
  <1> HIDE DEF m
  <1>3. ASSUME <<"table", x>> \in UNION ToSet(m)
        PROVE  x = t
    BY <1>1, <1>2, <1>3 DEF ToSet
  <1>4. ASSUME NEW k \in 0..8, <<"table", x>> \in UNION ToSet(SubSeq(m, 1, k))
        PROVE  x = t
    <2>1. PICK i \in DOMAIN SubSeq(m, 1, k) : <<"table", x>> \in SubSeq(m, 1, k)[i]
      BY <1>4 DEF ToSet
    <2>2. i \in 1..9 /\ SubSeq(m, 1, k)[i] = m[i]
      BY <1>1, <2>1
    <2> QED BY <1>2, <2>1, <2>2
  <1> QED BY <1>3, <1>4 DEF m

------------------------------------------------------------------------------
(***************************************************************************)
(* The tables that an operation on permissions makes known.                *)
(***************************************************************************)

\* GRANT adds at most its own table.
LEMMA GrantTables ==
    ASSUME PermInv, NEW u \in cached, NEW t \in Tables, NEW ps \in SUBSET Perms,
           NEW o \in BOOLEAN, GrantRecords(u, t, ps, o) \/ GrantThrows(u, t, ps, o)
    PROVE  PermTables' \subseteq PermTables \cup {t}
  <1>1. u \in Users /\ DOMAIN granted = Users
    BY DEF PermInv, UsersOK, GrantedOK
  <1>2. PICK e : SetEntry(u, t, e)
    BY DEF GrantRecords, GrantThrows
  <1>3. OnlyKey(u, t) /\ DOMAIN granted'[u] = DOMAIN granted[u] \cup {t}
    BY <1>1, <1>2, SetEntryEffect
  <1>4. \A r \in permRows' : r \in permRows \/ r.table = t
    BY DEF GrantRecords, GrantThrows, RowOf
  <1>5. \A x \in Users : DOMAIN granted'[x] \subseteq DOMAIN granted[x] \cup {t}
    BY <1>1, <1>3 DEF OnlyKey
  <1> QED BY <1>4, <1>5 DEF PermTables

\* REVOKE and DROP TABLE add none.
LEMMA RevokeTables ==
    ASSUME PermInv, NEW t, NEW ps,
           \/ RevokeAll(t) \/ RevokeAllThrows(t)
           \/ \E u \in cached : RevokeErases(u, t, ps) \/ RevokeThrows(u, t, ps)
    PROVE  PermTables' \subseteq PermTables
  <1>1. DOMAIN granted = Users /\ cached \subseteq Users
    BY DEF PermInv, UsersOK, GrantedOK
  <1>2. permRows' \subseteq permRows
    BY DEF RevokeAll, RevokeAllThrows, RevokeFrom, RevokeErases, RevokeThrows, RowsAfterErase
  <1>3. \A u \in Users : \A qs : Revokes(u, t, qs) =>
            DOMAIN EntriesAfterRevoke(u, t, qs) \subseteq DOMAIN granted[u]
    BY DEF EntriesAfterRevoke
  <1>4. \A x \in Users : DOMAIN granted'[x] \subseteq DOMAIN granted[x]
    <2>1. CASE RevokeAll(t) \/ RevokeAllThrows(t)
      <3>1. PICK us \in SUBSET Holders(t) : \E deleted : RevokeFrom(us, deleted, t)
        BY <2>1 DEF RevokeAll, RevokeAllThrows
      <3>2. /\ granted' = [u \in Users |->
                              IF u \in us THEN EntriesAfterRevoke(u, t, Perms) ELSE granted[u]]
            /\ \A u \in us : Revokes(u, t, Perms)
        BY <3>1 DEF RevokeFrom, Holders
      <3> QED BY <1>1, <1>3, <3>2
    <2>2. ASSUME NEW u \in cached, RevokeErases(u, t, ps) \/ RevokeThrows(u, t, ps)
          PROVE  \A x \in Users : DOMAIN granted'[x] \subseteq DOMAIN granted[x]
      <3>1. Revokes(u, t, ps) /\ granted' = [granted EXCEPT ![u] = EntriesAfterRevoke(u, t, ps)]
        BY <2>2 DEF RevokeErases, RevokeThrows
      <3>2. granted'[u] = EntriesAfterRevoke(u, t, ps) /\ \A x \in Users \ {u} : granted'[x] = granted[x]
        BY <1>1, <3>1
      <3> QED BY <1>1, <1>3, <3>1, <3>2
    <2> QED BY <2>1, <2>2
  <1> QED BY <1>2, <1>4 DEF PermTables

\* Objects made from rows know the tables of the rows.
LEMMA LoadTables ==
    ASSUME PermInv, UNCHANGED permRows,
           \A x \in Users : \/ DOMAIN granted'[x] \subseteq DOMAIN granted[x]
                            \/ LoadedFrom(granted'[x], x)
    PROVE  PermTables' \subseteq PermTables
  <1>1. ASSUME NEW x \in Users, NEW t \in DOMAIN granted'[x]
        PROVE  t \in PermTables
    <2>1. CASE t \in DOMAIN granted[x]
      BY <2>1 DEF PermTables
    <2>2. CASE RowsOfKey(x, t) # {}
      BY <2>2 DEF RowsOfKey, PermTables
    <2> QED BY <1>1, <2>1, <2>2 DEF LoadedFrom
  <1> QED BY <1>1 DEF PermTables

\* A lookup and a start make no table known.
LEMMA LookUpTables ==
    ASSUME PermInv, NEW u \in usedUsers, LookUpUser(u)
    PROVE  PermTables' \subseteq PermTables
  <1>1. u \in Users /\ DOMAIN granted = Users
    BY DEF PermInv, UsersOK, GrantedOK
  <1>2. PICK f \in LoadedEntries(u) : granted' = [granted EXCEPT ![u] = f]
    BY DEF LookUpUser
  <1>3. LoadedFrom(f, u)
    BY <1>1, LoadedEntriesType
  <1>4. granted'[u] = f /\ \A x \in Users \ {u} : granted'[x] = granted[x]
    BY <1>1, <1>2
  <1>5. \A x \in Users : \/ DOMAIN granted'[x] \subseteq DOMAIN granted[x]
                         \/ LoadedFrom(granted'[x], x)
    BY <1>3, <1>4
  <1> QED BY <1>5, LoadTables DEF LookUpUser

\* The start, for the object of the superuser.
LEMMA RestartTables ==
    ASSUME PermInv, PermissionsRestart
    PROVE  PermTables' \subseteq PermTables
  <1>1. PICK f \in LoadedEntries(Super) :
            granted' = [u \in Users |-> IF u = Super THEN f ELSE [t \in {} |-> NoEntry]]
    BY DEF PermissionsRestart
  <1>2. LoadedFrom(f, Super)
    BY LoadedEntriesType, PermissionsAssumption
  <1>3. granted'[Super] = f /\ \A x \in Users \ {Super} : DOMAIN granted'[x] = {}
    BY <1>1, PermissionsAssumption
  <1>4. \A x \in Users : \/ DOMAIN granted'[x] \subseteq DOMAIN granted[x]
                         \/ LoadedFrom(granted'[x], x)
    BY <1>2, <1>3
  <1> QED BY <1>4, LoadTables DEF PermissionsRestart

------------------------------------------------------------------------------
(***************************************************************************)
(* The invariant of the accounts.  The names of users and their IDs stand  *)
(* in three places; of the credentials, the access keys of the superuser   *)
(* matter here.                                                            *)
(***************************************************************************)
UserType == [id : Users, name : UserNames \cup {"root"}, active : BOOLEAN]
CredType == [kind : CredKinds, id : Nat, user : Users,
             name : UNION {CredNames[k] : k \in CredKinds}, valid : BOOLEAN]
Layer == [users : SUBSET UserType, creds : SUBSET CredType]

SuperRow == UserRow(Super, "root", TRUE)
SuperKeys(layer) == {c \in layer.creds : c.user = Super /\ c.kind = "key"}

LayersOK ==
    /\ stored \in Layer /\ registered \in Layer /\ objects \in Layer
    /\ lastCred \in [CredKinds -> Nat] /\ keyGap \in BOOLEAN
    /\ IsFiniteSet(stored.creds) /\ IsFiniteSet(SuperKeys(objects))

\* Nobody has an ID that was not given out.
UsersKnown == UsersOf(stored) \cup UsersOf(registered) \subseteq usedUsers

\* The superuser is there, active, and the only one with its name.
HasSuper(users) ==
    SuperRow \in users /\ \A r \in users : r.id = Super \/ r.name = "root" => r = SuperRow
SuperUserKnown == HasSuper(stored.users) /\ HasSuper(registered.users) /\ HasSuper(objects.users)

\* IDs come from the counters: what has one kind and ID belongs to one user and
\* has one name, in all three places.
Alike(c, d) == Same(c, d) /\ c.user = d.user /\ c.name = d.name
AllCreds == stored.creds \cup registered.creds \cup objects.creds
CredsApart ==
    /\ \A c \in AllCreds : c.id <= lastCred[c.kind]
    /\ \A c, d \in AllCreds : Same(c, d) => Alike(c, d)

\* The keys of the superuser: the registry never has one that the object does not
\* have, and the rows agree with the object unless one could not be written.
KeysInStep ==
    /\ SuperKeys(registered) \subseteq SuperKeys(objects)
    /\ \A c, d \in SuperKeys(objects) : c.name = d.name \/ c.id = d.id => c = d
    /\ \A c, d \in SuperKeys(stored) : c.id = d.id => c = d
    /\ ~keyGap => /\ SuperKeys(stored) = SuperKeys(objects)
                  /\ \E c \in SuperKeys(objects) : c.valid

AcctInv == LayersOK /\ UsersKnown /\ SuperUserKnown /\ CredsApart /\ KeysInStep

\* The operations on a layer.
LEMMA LayerOps ==
    ASSUME NEW layer \in Layer
    PROVE  /\ \A r \in UserType : /\ AddUser(layer, r) \in Layer
                                  /\ AddUser(layer, r).users = layer.users \cup {r}
                                  /\ AddUser(layer, r).creds = layer.creds
           /\ \A c \in CredType : /\ AddCred(layer, c) \in Layer
                                  /\ AddCred(layer, c).users = layer.users
                                  /\ AddCred(layer, c).creds = layer.creds \cup {c}
           /\ \A cs : /\ RemoveCreds(layer, cs) \in Layer
                      /\ RemoveCreds(layer, cs).users = layer.users
                      /\ RemoveCreds(layer, cs).creds =
                             {d \in layer.creds : \A c \in cs : ~Same(c, d)}
           /\ \A u : /\ Without(layer, u) \in Layer
                     /\ Without(layer, u).users = {r \in layer.users : r.id # u}
                     /\ Without(layer, u).creds = {c \in layer.creds : c.user # u}
           /\ \A us : /\ Only(layer, us) \in Layer
                      /\ Only(layer, us).users = {r \in layer.users : r.id \in us}
                      /\ Only(layer, us).creds = {c \in layer.creds : c.user \in us}
  <1>1. \A r \in UserType : /\ AddUser(layer, r) \in Layer
                            /\ AddUser(layer, r).users = layer.users \cup {r}
                            /\ AddUser(layer, r).creds = layer.creds
    BY DEF Layer, AddUser
  <1>2. \A c \in CredType : /\ AddCred(layer, c) \in Layer
                            /\ AddCred(layer, c).users = layer.users
                            /\ AddCred(layer, c).creds = layer.creds \cup {c}
    BY DEF Layer, AddCred
  <1>3. \A cs : /\ RemoveCreds(layer, cs) \in Layer
                /\ RemoveCreds(layer, cs).users = layer.users
                /\ RemoveCreds(layer, cs).creds = {d \in layer.creds : \A c \in cs : ~Same(c, d)}
    BY DEF Layer, RemoveCreds
  <1>4. \A u : /\ Without(layer, u) \in Layer
               /\ Without(layer, u).users = {r \in layer.users : r.id # u}
               /\ Without(layer, u).creds = {c \in layer.creds : c.user # u}
    BY DEF Layer, Without, CredsOf
  <1>5. \A us : /\ Only(layer, us) \in Layer
                /\ Only(layer, us).users = {r \in layer.users : r.id \in us}
                /\ Only(layer, us).creds = {c \in layer.creds : c.user \in us}
    BY DEF Layer, Only
  <1> QED BY <1>1, <1>2, <1>3, <1>4, <1>5

\* The updates of a layer: the same IDs, users and names as before.
LEMMA SetValidOps ==
    ASSUME NEW layer \in Layer, NEW c, NEW valid \in BOOLEAN
    PROVE  /\ SetValid(layer, c, valid) \in Layer
           /\ SetValid(layer, c, valid).users = layer.users
           /\ SetValid(layer, c, valid).creds =
                  {IF Same(c, d) THEN [d EXCEPT !.valid = valid] ELSE d : d \in layer.creds}
           /\ \A d \in layer.creds : /\ [d EXCEPT !.valid = valid] \in CredType
                                     /\ [d EXCEPT !.valid = valid].valid = valid
                                     /\ Alike([d EXCEPT !.valid = valid], d)
  <1>1. \A d \in layer.creds : d \in CredType
    BY DEF Layer
  <1>2. \A d \in layer.creds : /\ [d EXCEPT !.valid = valid] \in CredType
                               /\ [d EXCEPT !.valid = valid].valid = valid
                               /\ Alike([d EXCEPT !.valid = valid], d)
    BY <1>1 DEF CredType, Alike, Same
  <1>3. {IF Same(c, d) THEN [d EXCEPT !.valid = valid] ELSE d : d \in layer.creds} \subseteq CredType
    BY <1>1, <1>2
  <1> QED BY <1>2, <1>3 DEF SetValid, Layer

\* What is left of the credentials when only some users are looked at.
LEMMA OnlyCreds ==
    ASSUME NEW layer \in Layer, NEW us
    PROVE  Only(layer, us).creds = {c \in layer.creds : c.user \in us}
  BY DEF Only, Layer

\* Setting the state of a user does not touch the superuser's row.
LEMMA SetActiveOps ==
    ASSUME NEW layer \in Layer, NEW u, NEW active \in BOOLEAN
    PROVE  /\ SetActive(layer, u, active) \in Layer
           /\ SetActive(layer, u, active).creds = layer.creds
           /\ UsersOf(SetActive(layer, u, active)) = UsersOf(layer)
           /\ (u = Super => active) /\ HasSuper(layer.users) =>
                  HasSuper(SetActive(layer, u, active).users)
  <1> DEFINE new(r) == IF r.id = u THEN [r EXCEPT !.active = active] ELSE r
             us == {new(r) : r \in layer.users}
  <1>1. \A r \in layer.users : r \in UserType
    BY DEF Layer
  <1>2. \A r \in layer.users : new(r) \in UserType /\ new(r).id = r.id /\ new(r).name = r.name
    BY <1>1 DEF UserType
  <1>3. /\ SetActive(layer, u, active).users = us
        /\ SetActive(layer, u, active).creds = layer.creds
    BY DEF SetActive, Layer
  <1>4. us \subseteq UserType
    BY <1>2
  <1>5. SetActive(layer, u, active) \in Layer
    BY <1>3, <1>4 DEF SetActive, Layer
  <1>6. UsersOf(SetActive(layer, u, active)) = UsersOf(layer)
    <2>1. \A r \in layer.users : new(r).id = r.id
      BY <1>2
    <2>2. UsersOf(SetActive(layer, u, active)) = {r.id : r \in us}
      BY <1>3 DEF UsersOf
    <2> HIDE DEF new
    <2>3. {r.id : r \in us} = {r.id : r \in layer.users}
      BY <2>1
    <2> QED BY <2>2, <2>3 DEF UsersOf
  <1>7. ASSUME u = Super => active, HasSuper(layer.users)
        PROVE  HasSuper(us)
    <2>1. SuperRow \in layer.users /\ SuperRow.id = Super /\ SuperRow.active = TRUE
      BY <1>7 DEF HasSuper, SuperRow, UserRow
    <2>2. new(SuperRow) = SuperRow
      BY <1>7, <2>1 DEF SuperRow, UserRow
    <2>3. ASSUME NEW r \in layer.users, new(r).id = Super \/ new(r).name = "root"
          PROVE  new(r) = SuperRow
      <3>1. r = SuperRow
        BY <1>2, <1>7, <2>3 DEF HasSuper
      <3> QED BY <3>1, <2>2
    <2> HIDE DEF new
    <2> QED BY <2>1, <2>2, <2>3 DEF HasSuper
  <1> QED BY <1>3, <1>5, <1>6, <1>7

\* Without new credentials the IDs stay apart.
LEMMA StillApart ==
    ASSUME AcctInv, LayersOK', lastCred' = lastCred,
           \A c \in AllCreds' : \E d \in AllCreds : Alike(c, d)
    PROVE  CredsApart'
  <1>1. \A c \in AllCreds' : c.id <= lastCred'[c.kind]
    BY DEF AcctInv, CredsApart, Alike, Same
  <1>2. ASSUME NEW c \in AllCreds', NEW d \in AllCreds', Same(c, d)
        PROVE  Alike(c, d)
    <2>1. PICK a \in AllCreds : Alike(c, a)
      OBVIOUS
    <2>2. PICK b \in AllCreds : Alike(d, b)
      OBVIOUS
    <2>3. Same(a, b)
      BY <1>2, <2>1, <2>2 DEF Alike, Same
    <2>4. Alike(a, b)
      BY <2>3 DEF AcctInv, CredsApart
    <2> QED BY <1>2, <2>1, <2>2, <2>4 DEF Alike, Same
  <1> QED BY <1>1, <1>2 DEF CredsApart

\* A statement that does not touch the keys of the superuser.
LEMMA KeysUntouched ==
    ASSUME AcctInv,
           SuperKeys(stored)' = SuperKeys(stored),
           SuperKeys(registered)' = SuperKeys(registered),
           SuperKeys(objects)' = SuperKeys(objects),
           keyGap' = keyGap \/ keyGap'
    PROVE  KeysInStep'
  BY DEF AcctInv, KeysInStep

\* A user that is looked up is not the superuser, whose object is always there.
LEMMA LookUpAccountInv ==
    ASSUME AcctInv, PermInv, NEW u \in Users, LookUpAccount(u)
    PROVE  AcctInv'
  <1> DEFINE rs == Only(registered, {u}).users
             cs == CredsOf(registered, u)
  <1>1. u # Super
    BY DEF LookUpAccount, LookUpUser, PermInv, UsersOK
  <1>2. stored \in Layer /\ registered \in Layer /\ objects \in Layer
    BY DEF AcctInv, LayersOK
  <1>3. /\ rs = {r \in registered.users : r.id = u}
        /\ cs = {c \in registered.creds : c.user = u}
    BY <1>2, LayerOps DEF CredsOf
  <1>4. /\ objects' = [users |-> objects.users \cup rs, creds |-> objects.creds \cup cs]
        /\ UNCHANGED <<stored, registered, usedUsers, lastCred, keyGap>>
    BY DEF LookUpAccount
  <1> HIDE DEF rs, cs
  <1>5. /\ objects'.users = objects.users \cup rs /\ objects'.creds = objects.creds \cup cs
        /\ objects' \in Layer
    BY <1>2, <1>3, <1>4 DEF Layer
  <1>6. /\ SuperKeys(stored)' = SuperKeys(stored)
        /\ SuperKeys(registered)' = SuperKeys(registered)
        /\ SuperKeys(objects)' = SuperKeys(objects)
    BY <1>1, <1>3, <1>4, <1>5 DEF SuperKeys
  <1>7. LayersOK'
    BY <1>2, <1>4, <1>5, <1>6 DEF AcctInv, LayersOK
  <1>8. UsersKnown'
    BY <1>4 DEF AcctInv, UsersKnown
  <1>9. SuperUserKnown'
    BY <1>1, <1>3, <1>4, <1>5 DEF AcctInv, SuperUserKnown, HasSuper
  <1>10. CredsApart'
    <2>1. AllCreds' \subseteq AllCreds
      BY <1>3, <1>4, <1>5 DEF AllCreds
    <2> QED BY <2>1, <1>4, <1>7, StillApart DEF Alike, Same
  <1>11. KeysInStep'
    BY <1>4, <1>6, KeysUntouched
  <1> QED BY <1>7, <1>8, <1>9, <1>10, <1>11 DEF AcctInv

\* createUser(): the registry has the superuser's name, which is refused.
LEMMA CreateUserAccount ==
    ASSUME AcctInv, NEW u \in Users, NEW n \in UserNames, NEW active \in BOOLEAN,
           Super \in usedUsers, CreateUser(u, n, active)
    PROVE  AcctInv'
  <1> DEFINE r == UserRow(u, n, active)
  <1>1. r \in UserType /\ r.id = u /\ r.name = n
    BY DEF UserRow, UserType
  <1>2. u # Super /\ n # "root"
    BY DEF CreateUser, AcctInv, SuperUserKnown, HasSuper, SuperRow, UserRow
  <1>3. stored \in Layer /\ registered \in Layer /\ objects \in Layer
    BY DEF AcctInv, LayersOK
  <1>4. /\ registered' = AddUser(registered, r)
        /\ usedUsers' = usedUsers \cup {u} /\ lastCred' = lastCred
        /\ stored' = AddUser(stored, r) \/ stored' = stored
        /\ objects' = AddUser(objects, r) \/ objects' = objects
        /\ keyGap' = keyGap
    BY <1>2 DEF CreateUser, RowFails, AcctInv, LayersOK
  <1> HIDE DEF r
  <1>5. /\ stored' \in Layer /\ registered' \in Layer /\ objects' \in Layer
        /\ stored'.creds = stored.creds /\ registered'.creds = registered.creds
        /\ objects'.creds = objects.creds
        /\ stored'.users \subseteq stored.users \cup {r} /\ stored.users \subseteq stored'.users
        /\ registered'.users = registered.users \cup {r}
        /\ objects'.users \subseteq objects.users \cup {r} /\ objects.users \subseteq objects'.users
    BY <1>1, <1>3, <1>4, LayerOps
  <1>6. /\ SuperKeys(stored)' = SuperKeys(stored)
        /\ SuperKeys(registered)' = SuperKeys(registered)
        /\ SuperKeys(objects)' = SuperKeys(objects)
    BY <1>5 DEF SuperKeys
  <1>7. LayersOK'
    BY <1>4, <1>5, <1>6 DEF AcctInv, LayersOK
  <1>8. UsersKnown'
    BY <1>1, <1>4, <1>5 DEF AcctInv, UsersKnown, UsersOf
  <1>9. SuperUserKnown'
    BY <1>1, <1>2, <1>5 DEF AcctInv, SuperUserKnown, HasSuper
  <1>10. CredsApart'
    <2>1. AllCreds' = AllCreds
      BY <1>5 DEF AllCreds
    <2> QED BY <2>1, <1>4, <1>7, StillApart DEF Alike, Same
  <1>11. KeysInStep'
    BY <1>4, <1>6, KeysUntouched
  <1> QED BY <1>7, <1>8, <1>9, <1>10, <1>11 DEF AcctInv

\* dropUser(): the superuser cannot be dropped, and the keys that go are those of
\* another user.
LEMMA DropUserAccount ==
    ASSUME AcctInv, NEW u \in Users, DropUser(u)
    PROVE  AcctInv'
  <1> DEFINE mine == CredsOf(objects, u)
  <1>1. u # Super
    BY DEF DropUser
  <1>2. stored \in Layer /\ registered \in Layer /\ objects \in Layer
    BY DEF AcctInv, LayersOK
  <1>3. /\ registered' = Without(registered, u) /\ objects' = Without(objects, u)
        /\ UNCHANGED <<usedUsers, lastCred, keyGap>>
    BY DEF DropUser
  <1>4. PICK gone \in SUBSET mine :
            \/ stored' = [RemoveCreds(stored, gone) EXCEPT !.users = {r \in @ : r.id # u}]
            \/ stored' = RemoveCreds(stored, gone)
    BY DEF DropUser
  <1>5. \A c \in mine : c \in objects.creds /\ c.user = u
    BY DEF CredsOf
  <1> HIDE DEF mine
  <1>6. /\ stored' \in Layer
        /\ stored'.creds = {d \in stored.creds : \A c \in gone : ~Same(c, d)}
        /\ \A r \in stored'.users : r \in stored.users
        /\ \A r \in stored.users : r.id # u => r \in stored'.users
    <2> DEFINE less == RemoveCreds(stored, gone)
    <2>1. /\ less \in Layer /\ less.users = stored.users
          /\ less.creds = {d \in stored.creds : \A c \in gone : ~Same(c, d)}
      BY <1>2, LayerOps
    <2>2. CASE stored' = less
      BY <2>1, <2>2
    <2>3. CASE stored' = [less EXCEPT !.users = {r \in @ : r.id # u}]
      <3> HIDE DEF less
      <3> QED BY <2>1, <2>3 DEF Layer
    <2> QED BY <1>4, <2>2, <2>3
  <1>7. /\ registered' \in Layer /\ objects' \in Layer
        /\ registered'.users = {r \in registered.users : r.id # u}
        /\ registered'.creds = {c \in registered.creds : c.user # u}
        /\ objects'.users = {r \in objects.users : r.id # u}
        /\ objects'.creds = {c \in objects.creds : c.user # u}
    BY <1>2, <1>3, LayerOps
  <1>8. SuperKeys(stored)' = SuperKeys(stored)
    <2>1. \A c \in gone, d \in stored.creds : Same(c, d) => d.user = u
      BY <1>5 DEF AcctInv, CredsApart, AllCreds, Alike
    <2> QED BY <1>1, <1>6, <2>1 DEF SuperKeys
  <1>9. /\ SuperKeys(registered)' = SuperKeys(registered)
        /\ SuperKeys(objects)' = SuperKeys(objects)
    BY <1>1, <1>7 DEF SuperKeys
  <1>10. LayersOK'
    <2>1. IsFiniteSet(stored'.creds)
      BY <1>6, FS_Subset DEF AcctInv, LayersOK
    <2> QED BY <2>1, <1>3, <1>6, <1>7, <1>9 DEF AcctInv, LayersOK
  <1>11. UsersKnown'
    BY <1>3, <1>6, <1>7 DEF AcctInv, UsersKnown, UsersOf
  <1>12. SuperUserKnown'
    <2>1. SuperRow.id = Super
      BY DEF SuperRow, UserRow
    <2> QED BY <2>1, <1>1, <1>6, <1>7 DEF AcctInv, SuperUserKnown, HasSuper
  <1>13. CredsApart'
    <2>1. AllCreds' \subseteq AllCreds
      BY <1>6, <1>7 DEF AllCreds
    <2> QED BY <2>1, <1>3, <1>10, StillApart DEF Alike, Same
  <1>14. KeysInStep'
    BY <1>3, <1>8, <1>9, KeysUntouched
  <1> QED BY <1>10, <1>11, <1>12, <1>13, <1>14 DEF AcctInv

\* updateUser(): the superuser stays active.
LEMMA AlterUserAccount ==
    ASSUME AcctInv, NEW u \in Users, NEW active \in BOOLEAN, AlterUser(u, active)
    PROVE  AcctInv'
  <1>1. u = Super => active
    BY DEF AlterUser
  <1>2. stored \in Layer /\ registered \in Layer /\ objects \in Layer
    BY DEF AcctInv, LayersOK
  <1>3. /\ registered' = SetActive(registered, u, active)
        /\ objects' = SetActive(objects, u, active)
        /\ stored' = SetActive(stored, u, active) \/ stored' = stored
        /\ UNCHANGED <<usedUsers, lastCred>>
        /\ keyGap' = keyGap
    BY DEF AlterUser, RowFails, AcctInv, LayersOK
  <1>4. ASSUME NEW layer \in Layer, HasSuper(layer.users)
        PROVE  /\ SetActive(layer, u, active) \in Layer
               /\ SetActive(layer, u, active).creds = layer.creds
               /\ UsersOf(SetActive(layer, u, active)) = UsersOf(layer)
               /\ HasSuper(SetActive(layer, u, active).users)
    BY <1>1, <1>4, SetActiveOps
  <1>5. /\ stored' \in Layer /\ registered' \in Layer /\ objects' \in Layer
        /\ stored'.creds = stored.creds /\ registered'.creds = registered.creds
        /\ objects'.creds = objects.creds
        /\ UsersOf(stored') = UsersOf(stored) /\ UsersOf(registered') = UsersOf(registered)
        /\ HasSuper(stored'.users) /\ HasSuper(registered'.users) /\ HasSuper(objects'.users)
    BY <1>2, <1>3, <1>4 DEF AcctInv, SuperUserKnown
  <1>6. /\ SuperKeys(stored)' = SuperKeys(stored)
        /\ SuperKeys(registered)' = SuperKeys(registered)
        /\ SuperKeys(objects)' = SuperKeys(objects)
    BY <1>5 DEF SuperKeys
  <1>7. LayersOK'
    BY <1>3, <1>5, <1>6 DEF AcctInv, LayersOK
  <1>8. UsersKnown' /\ SuperUserKnown'
    BY <1>3, <1>5 DEF AcctInv, UsersKnown, SuperUserKnown
  <1>9. CredsApart'
    <2>1. AllCreds' = AllCreds
      BY <1>5 DEF AllCreds
    <2> QED BY <2>1, <1>3, <1>7, StillApart DEF Alike, Same
  <1>10. KeysInStep'
    BY <1>3, <1>6, KeysUntouched
  <1> QED BY <1>7, <1>8, <1>9, <1>10 DEF AcctInv

------------------------------------------------------------------------------
(***************************************************************************)
(* Statements on access keys and tokens.                                   *)
(***************************************************************************)

\* Removing or updating credentials of others, or tokens, leaves the keys of the
\* superuser alone: an ID belongs to one user.
LEMMA OtherCreds ==
    ASSUME AcctInv, NEW layer \in {stored, registered, objects},
           NEW cs \in SUBSET AllCreds, \A c \in cs : ~(c.user = Super /\ c.kind = "key")
    PROVE  /\ SuperKeys(RemoveCreds(layer, cs)) = SuperKeys(layer)
           /\ \A c \in cs, valid \in BOOLEAN :
                  SuperKeys(SetValid(layer, c, valid)) = SuperKeys(layer)
  <1>1. layer \in Layer /\ layer.creds \subseteq AllCreds
    BY DEF AcctInv, LayersOK, AllCreds
  <1>2. \A c \in cs, d \in layer.creds : Same(c, d) => ~(d.user = Super /\ d.kind = "key")
    BY <1>1 DEF AcctInv, CredsApart, Alike, Same
  <1>3. SuperKeys(RemoveCreds(layer, cs)) = SuperKeys(layer)
    BY <1>1, <1>2, LayerOps DEF SuperKeys
  <1>4. ASSUME NEW c \in cs, NEW valid \in BOOLEAN
        PROVE  SuperKeys(SetValid(layer, c, valid)) = SuperKeys(layer)
    <2> DEFINE new(d) == [d EXCEPT !.valid = valid]
    <2>1. /\ SetValid(layer, c, valid).creds =
                 {IF Same(c, d) THEN new(d) ELSE d : d \in layer.creds}
          /\ \A d \in layer.creds : Alike(new(d), d)
      BY <1>1, SetValidOps
    <2> HIDE DEF new
    <2>2. \A d \in layer.creds : Same(c, d) => ~(new(d).user = Super /\ new(d).kind = "key")
      BY <1>2, <2>1 DEF Alike, Same
    <2> QED BY <1>2, <2>1, <2>2 DEF SuperKeys
  <1> QED BY <1>3, <1>4

\* A statement on credentials that are not keys of the superuser: a layer keeps
\* its users, and its credentials have the IDs they had.
LEMMA OthersInv ==
    ASSUME AcctInv, stored' \in Layer, registered' \in Layer, objects' \in Layer,
           stored'.users = stored.users, registered'.users = registered.users,
           objects'.users = objects.users, IsFiniteSet(stored'.creds),
           \A c \in AllCreds' : \E d \in AllCreds : Alike(c, d),
           SuperKeys(stored)' = SuperKeys(stored),
           SuperKeys(registered)' = SuperKeys(registered),
           SuperKeys(objects)' = SuperKeys(objects),
           keyGap' \in BOOLEAN, keyGap' = keyGap \/ keyGap',
           UNCHANGED <<usedUsers, lastCred>>
    PROVE  AcctInv'
  <1>1. LayersOK'
    BY DEF AcctInv, LayersOK
  <1>2. UsersKnown' /\ SuperUserKnown'
    BY DEF AcctInv, UsersKnown, UsersOf, SuperUserKnown
  <1>3. CredsApart'
    BY <1>1, StillApart
  <1>4. KeysInStep'
    BY KeysUntouched
  <1> QED BY <1>1, <1>2, <1>3, <1>4 DEF AcctInv

\* What is left of a layer has the IDs it had, and so has what is updated.
LEMMA CredsAlike ==
    ASSUME AcctInv, NEW layer \in {stored, registered, objects}
    PROVE  /\ \A cs : /\ RemoveCreds(layer, cs) \in Layer
                      /\ RemoveCreds(layer, cs).users = layer.users
                      /\ IsFiniteSet(layer.creds) => IsFiniteSet(RemoveCreds(layer, cs).creds)
                      /\ \A c \in RemoveCreds(layer, cs).creds : \E d \in AllCreds : Alike(c, d)
           /\ \A x : \A valid \in BOOLEAN :
                      /\ SetValid(layer, x, valid) \in Layer
                      /\ SetValid(layer, x, valid).users = layer.users
                      /\ IsFiniteSet(layer.creds) => IsFiniteSet(SetValid(layer, x, valid).creds)
                      /\ \A c \in SetValid(layer, x, valid).creds : \E d \in AllCreds : Alike(c, d)
  <1>1. layer \in Layer /\ layer.creds \subseteq AllCreds
    BY DEF AcctInv, LayersOK, AllCreds
  <1>2. \A c : Alike(c, c)
    BY DEF Alike, Same
  <1>3. ASSUME NEW cs
        PROVE  /\ RemoveCreds(layer, cs) \in Layer
               /\ RemoveCreds(layer, cs).users = layer.users
               /\ IsFiniteSet(layer.creds) => IsFiniteSet(RemoveCreds(layer, cs).creds)
               /\ \A c \in RemoveCreds(layer, cs).creds : \E d \in AllCreds : Alike(c, d)
    <2>1. /\ RemoveCreds(layer, cs) \in Layer /\ RemoveCreds(layer, cs).users = layer.users
          /\ RemoveCreds(layer, cs).creds \subseteq layer.creds
      BY <1>1, LayerOps
    <2>2. IsFiniteSet(layer.creds) => IsFiniteSet(RemoveCreds(layer, cs).creds)
      BY <2>1, FS_Subset
    <2> QED BY <1>1, <1>2, <2>1, <2>2
  <1>4. ASSUME NEW x, NEW valid \in BOOLEAN
        PROVE  /\ SetValid(layer, x, valid) \in Layer
               /\ SetValid(layer, x, valid).users = layer.users
               /\ IsFiniteSet(layer.creds) => IsFiniteSet(SetValid(layer, x, valid).creds)
               /\ \A c \in SetValid(layer, x, valid).creds : \E d \in AllCreds : Alike(c, d)
    <2> DEFINE new(d) == [d EXCEPT !.valid = valid]
               f == [d \in layer.creds |-> IF Same(x, d) THEN new(d) ELSE d]
               s == SetValid(layer, x, valid)
    <2>1. /\ s \in Layer /\ s.users = layer.users
          /\ s.creds = {IF Same(x, d) THEN new(d) ELSE d : d \in layer.creds}
          /\ \A d \in layer.creds : Alike(new(d), d)
      BY <1>1, SetValidOps
    <2> HIDE DEF new, s
    <2>2. IsFiniteSet(layer.creds) => IsFiniteSet(s.creds)
      <3>1. s.creds = {f[d] : d \in layer.creds}
        BY <2>1
      <3>2. f \in [layer.creds -> s.creds]
        BY <3>1
      <3>3. \A y \in s.creds : \E d \in layer.creds : f[d] = y
        BY <3>1
      <3> HIDE DEF f
      <3>4. f \in Surjection(layer.creds, s.creds)
        BY <3>2, <3>3 DEF Surjection
      <3> QED BY <3>4, FS_Surjection
    <2>3. \A c \in s.creds : \E d \in AllCreds : Alike(c, d)
      BY <1>1, <1>2, <2>1
    <2> QED BY <2>1, <2>2, <2>3 DEF s
  <1> QED BY <1>3, <1>4

\* Removals and updates in the three places that do not concern the keys of the
\* superuser.
LEMMA OthersStep ==
    ASSUME AcctInv, NEW cs \in SUBSET AllCreds, \A c \in cs : ~(c.user = Super /\ c.kind = "key"),
           \/ UNCHANGED stored
           \/ \E ds \in SUBSET cs : stored' = RemoveCreds(stored, ds)
           \/ \E c \in cs, valid \in BOOLEAN : stored' = SetValid(stored, c, valid),
           \/ UNCHANGED registered
           \/ \E ds \in SUBSET cs : registered' = RemoveCreds(registered, ds)
           \/ \E c \in cs, valid \in BOOLEAN : registered' = SetValid(registered, c, valid),
           \/ UNCHANGED objects
           \/ \E ds \in SUBSET cs : objects' = RemoveCreds(objects, ds)
           \/ \E c \in cs, valid \in BOOLEAN : objects' = SetValid(objects, c, valid),
           keyGap' \in BOOLEAN, keyGap' = keyGap \/ keyGap',
           UNCHANGED <<usedUsers, lastCred>>
    PROVE  AcctInv'
  <1> DEFINE Kept(old, new) == /\ new \in Layer /\ new.users = old.users
                               /\ IsFiniteSet(old.creds) => IsFiniteSet(new.creds)
                               /\ \A c \in new.creds : \E d \in AllCreds : Alike(c, d)
                               /\ SuperKeys(new) = SuperKeys(old)
  <1>1. ASSUME NEW layer \in {stored, registered, objects}
        PROVE  /\ Kept(layer, layer)
               /\ \A ds \in SUBSET cs : Kept(layer, RemoveCreds(layer, ds))
               /\ \A c \in cs, valid \in BOOLEAN : Kept(layer, SetValid(layer, c, valid))
    <2>1. Kept(layer, layer)
      <3>1. layer \in Layer /\ layer.creds \subseteq AllCreds
        BY DEF AcctInv, LayersOK, AllCreds
      <3> QED BY <3>1 DEF Alike, Same
    <2>2. ASSUME NEW ds \in SUBSET cs
          PROVE  Kept(layer, RemoveCreds(layer, ds))
      <3>1. ds \in SUBSET AllCreds /\ \A c \in ds : ~(c.user = Super /\ c.kind = "key")
        OBVIOUS
      <3>2. SuperKeys(RemoveCreds(layer, ds)) = SuperKeys(layer)
        BY <3>1, OtherCreds
      <3> QED BY <3>2, CredsAlike
    <2>3. ASSUME NEW c \in cs, NEW valid \in BOOLEAN
          PROVE  Kept(layer, SetValid(layer, c, valid))
      <3>1. SuperKeys(SetValid(layer, c, valid)) = SuperKeys(layer)
        BY OtherCreds
      <3>2. /\ SetValid(layer, c, valid) \in Layer
            /\ SetValid(layer, c, valid).users = layer.users
            /\ IsFiniteSet(layer.creds) => IsFiniteSet(SetValid(layer, c, valid).creds)
            /\ \A x \in SetValid(layer, c, valid).creds : \E d \in AllCreds : Alike(x, d)
        BY CredsAlike, Zenon
      <3> QED BY <3>1, <3>2, Zenon
    <2> QED BY <2>1, <2>2, <2>3
  <1> HIDE DEF Kept
  <1>2. Kept(stored, stored')
    BY <1>1
  <1>3. Kept(registered, registered')
    BY <1>1
  <1>4. Kept(objects, objects')
    BY <1>1
  <1>5. /\ stored' \in Layer /\ registered' \in Layer /\ objects' \in Layer
        /\ stored'.users = stored.users /\ registered'.users = registered.users
        /\ objects'.users = objects.users /\ IsFiniteSet(stored'.creds)
    BY <1>2, <1>3, <1>4 DEF Kept, AcctInv, LayersOK
  <1>6. \A c \in AllCreds' : \E d \in AllCreds : Alike(c, d)
    <2>1. AllCreds' = stored'.creds \cup registered'.creds \cup objects'.creds
      BY DEF AllCreds
    <2> QED BY <2>1, <1>2, <1>3, <1>4 DEF Kept
  <1>7. /\ SuperKeys(stored)' = SuperKeys(stored)
        /\ SuperKeys(registered)' = SuperKeys(registered)
        /\ SuperKeys(objects)' = SuperKeys(objects)
    BY <1>2, <1>3, <1>4 DEF Kept, SuperKeys
  <1> QED BY <1>5, <1>6, <1>7, OthersInv

\* updateUserToken() does not touch keys.
LEMMA AlterTokenInv ==
    ASSUME AcctInv, NEW u \in Users, NEW n, NEW valid \in BOOLEAN, AlterToken(u, n, valid)
    PROVE  AcctInv'
  <1>1. PICK c \in Named(registered, "token", u, n) :
            /\ UNCHANGED objects \/ objects' = SetValid(objects, c, valid)
            /\ UNCHANGED <<stored, keyGap>> \/ AlterRow(c, valid)
    BY DEF AlterToken
  <1>2. c \in registered.creds /\ c.kind = "token"
    BY DEF Named, CredsOf
  <1>3. UNCHANGED <<registered, usedUsers, lastCred>>
    BY DEF AlterToken
  <1>4. /\ UNCHANGED stored \/ stored' = SetValid(stored, c, valid)
        /\ keyGap' = keyGap
    BY <1>1, <1>2 DEF AlterRow, RowFails, AcctInv, LayersOK
  <1> DEFINE cs == {c}
  <1>5. cs \in SUBSET AllCreds /\ \A x \in cs : ~(x.user = Super /\ x.kind = "key")
    BY <1>2 DEF AllCreds
  <1>6. c \in cs /\ keyGap' \in BOOLEAN
    BY <1>4 DEF AcctInv, LayersOK
  <1> HIDE DEF cs
  <1> QED BY <1>1, <1>3, <1>4, <1>5, <1>6, OthersStep

\* createUserAccessKey() and createUserToken(): the ID is new, and the object
\* refuses a name that it has.
LEMMA CreateCredInv ==
    ASSUME AcctInv, NEW kind \in CredKinds, NEW u \in Users, NEW n \in CredNames[kind],
           NEW valid \in BOOLEAN, CreateCred(kind, u, n, valid)
    PROVE  AcctInv'
  <1> DEFINE c == Cred(kind, lastCred[kind] + 1, u, n, valid)
             isKey == u = Super /\ kind = "key"
  <1>1. /\ stored \in Layer /\ registered \in Layer /\ objects \in Layer
        /\ lastCred \in [CredKinds -> Nat] /\ keyGap \in BOOLEAN
    BY DEF AcctInv, LayersOK
  <1>2. /\ c \in CredType /\ c.kind = kind /\ c.id = lastCred[kind] + 1
        /\ c.user = u /\ c.name = n
    BY <1>1 DEF Cred, CredType
  <1>3. /\ lastCred' = [lastCred EXCEPT ![kind] = @ + 1] /\ usedUsers' = usedUsers
        /\ \/ UNCHANGED <<stored, registered, objects, keyGap>>
           \/ /\ Named(objects, kind, u, n) = {} /\ objects' = AddCred(objects, c)
              /\ registered' = AddCred(registered, c) \/ registered' = registered
              /\ \/ stored' = AddCred(stored, c) /\ keyGap' = keyGap
                 \/ stored' = stored /\ keyGap' = (keyGap \/ isKey)
    BY <1>2 DEF CreateCred, Inserted, RowFails
  <1>4. /\ lastCred' \in [CredKinds -> Nat] /\ lastCred'[kind] = lastCred[kind] + 1
        /\ \A k \in CredKinds : lastCred[k] <= lastCred'[k]
    BY <1>1, <1>3
  <1> HIDE DEF c, isKey
  <1>5. ASSUME NEW d \in AllCreds
        PROVE  /\ d.kind \in CredKinds /\ d.id \in Nat /\ d.id <= lastCred[d.kind]
               /\ d.id <= lastCred'[d.kind] /\ ~Same(c, d) /\ ~Same(d, c)
    <2>1. d \in CredType
      BY <1>1 DEF AllCreds, Layer
    <2>2. d.kind \in CredKinds /\ d.id \in Nat /\ d.id <= lastCred[d.kind]
      BY <2>1 DEF CredType, AcctInv, CredsApart
    <2> QED BY <1>1, <1>2, <1>4, <2>2 DEF Same
  <1>6. CASE UNCHANGED <<stored, registered, objects, keyGap>>
    <2>1. LayersOK'
      BY <1>4, <1>6 DEF AcctInv, LayersOK
    <2>2. UsersKnown' /\ SuperUserKnown' /\ KeysInStep'
      BY <1>3, <1>6 DEF AcctInv, UsersKnown, UsersOf, SuperUserKnown, KeysInStep
    <2>3. CredsApart'
      <3>1. AllCreds' = AllCreds
        BY <1>6 DEF AllCreds
      <3> QED BY <3>1, <1>5 DEF AcctInv, CredsApart
    <2> QED BY <2>1, <2>2, <2>3 DEF AcctInv
  <1>7. CASE ~UNCHANGED <<stored, registered, objects, keyGap>>
    <2>1. /\ Named(objects, kind, u, n) = {} /\ objects' = AddCred(objects, c)
          /\ registered' = AddCred(registered, c) \/ registered' = registered
          /\ \/ stored' = AddCred(stored, c) /\ keyGap' = keyGap
             \/ stored' = stored /\ keyGap' = (keyGap \/ isKey)
      BY <1>3, <1>7
    <2>2. /\ objects' \in Layer /\ registered' \in Layer /\ stored' \in Layer
          /\ objects'.users = objects.users /\ registered'.users = registered.users
          /\ stored'.users = stored.users
          /\ objects'.creds = objects.creds \cup {c}
          /\ registered'.creds = registered.creds \cup {c} \/ registered'.creds = registered.creds
          /\ \/ stored'.creds = stored.creds \cup {c} /\ keyGap' = keyGap
             \/ stored'.creds = stored.creds /\ keyGap' = (keyGap \/ isKey)
      BY <1>1, <1>2, <2>1, LayerOps
    <2>3. /\ \A d \in objects.creds : d \in AllCreds
          /\ \A d \in stored.creds : d \in AllCreds
          /\ \A d \in AllCreds' : d \in AllCreds \/ d = c
      BY <2>2 DEF AllCreds
    <2>4. SuperKeys(objects)' = IF isKey THEN SuperKeys(objects) \cup {c} ELSE SuperKeys(objects)
      BY <1>2, <2>2 DEF SuperKeys, isKey
    <2>5. LayersOK'
      <3>1. IsFiniteSet(stored'.creds)
        <4>1. IsFiniteSet(stored.creds) /\ IsFiniteSet(stored.creds \cup {c})
          BY FS_AddElement DEF AcctInv, LayersOK
        <4> QED BY <2>2, <4>1, Zenon
      <3>2. IsFiniteSet(SuperKeys(objects)')
        BY <2>4, FS_AddElement DEF AcctInv, LayersOK
      <3>3. keyGap' \in BOOLEAN
        BY <1>1, <2>2 DEF isKey
      <3> QED BY <1>4, <2>2, <3>1, <3>2, <3>3 DEF LayersOK
    <2>6. UsersKnown' /\ SuperUserKnown'
      BY <1>3, <2>2 DEF AcctInv, UsersKnown, UsersOf, SuperUserKnown
    <2>7. CredsApart'
      <3>1. c.id <= lastCred'[c.kind] /\ Alike(c, c)
        BY <1>1, <1>2, <1>4 DEF Alike, Same
      <3> QED BY <1>5, <2>3, <3>1 DEF AcctInv, CredsApart
    <2>8. KeysInStep'
      <3>1. CASE ~isKey
        <4>1. /\ SuperKeys(stored)' = SuperKeys(stored)
              /\ SuperKeys(registered)' = SuperKeys(registered)
              /\ SuperKeys(objects)' = SuperKeys(objects)
          BY <1>2, <2>2, <3>1 DEF SuperKeys, isKey
        <4>2. keyGap' = keyGap \/ keyGap'
          BY <1>1, <2>2, <3>1
        <4> QED BY <4>1, <4>2, KeysUntouched
      <3>2. CASE isKey
        <4>1. /\ SuperKeys(objects)' = SuperKeys(objects) \cup {c}
              /\ SuperKeys(registered)' \subseteq SuperKeys(registered) \cup {c}
              /\ \/ SuperKeys(stored)' = SuperKeys(stored) \cup {c} /\ keyGap' = keyGap
                 \/ SuperKeys(stored)' = SuperKeys(stored) /\ keyGap'
          BY <1>1, <1>2, <2>2, <3>2 DEF SuperKeys, isKey
        <4>2. \A d \in SuperKeys(objects) : d.name # c.name
          BY <1>2, <2>1, <3>2 DEF SuperKeys, Named, CredsOf, isKey
        <4>3. \A d \in SuperKeys(objects) \cup SuperKeys(stored) : d.id # c.id
          <5>1. \A d \in SuperKeys(objects) \cup SuperKeys(stored) : d \in AllCreds /\ d.kind = "key"
            BY <2>3 DEF SuperKeys
          <5> QED BY <5>1, <1>2, <1>5, <3>2 DEF Same, isKey
        <4>4. \A a, b \in SuperKeys(objects)' : a.name = b.name \/ a.id = b.id => a = b
          BY <4>1, <4>2, <4>3 DEF AcctInv, KeysInStep
        <4>5. \A a, b \in SuperKeys(stored)' : a.id = b.id => a = b
          BY <4>1, <4>3 DEF AcctInv, KeysInStep
        <4>6. SuperKeys(registered)' \subseteq SuperKeys(objects)'
          BY <4>1 DEF AcctInv, KeysInStep
        <4>7. ~keyGap' => /\ SuperKeys(stored)' = SuperKeys(objects)'
                          /\ \E d \in SuperKeys(objects)' : d.valid
          BY <4>1 DEF AcctInv, KeysInStep
        <4> QED BY <4>4, <4>5, <4>6, <4>7 DEF KeysInStep
      <3> QED BY <3>1, <3>2
    <2> QED BY <2>5, <2>6, <2>7, <2>8 DEF AcctInv
  <1> QED BY <1>6, <1>7

\* A change that concerns one key c of the superuser in the registry: the object
\* and the row lose it or get it updated together, unless the row fails.
LEMMA SuperKeyStep ==
    ASSUME AcctInv, NEW c \in SuperKeys(registered), NEW valid \in BOOLEAN,
           \/ /\ registered' = RemoveCreds(registered, {c})
              /\ objects' = RemoveCreds(objects, {c})
              /\ stored' = RemoveCreds(stored, {c}) \/ (stored' = stored /\ keyGap')
           \/ /\ registered' = SetValid(registered, c, valid)
              /\ objects' = SetValid(objects, c, valid)
              /\ stored' = SetValid(stored, c, valid) \/ (stored' = stored /\ keyGap'),
           keyGap' \in BOOLEAN, ~keyGap' => ~keyGap,
           ~keyGap' => \E d \in SuperKeys(objects)' : d.valid,
           UNCHANGED <<usedUsers, lastCred>>
    PROVE  AcctInv'
  <1> DEFINE Kept(old, new) == /\ new \in Layer /\ new.users = old.users
                               /\ IsFiniteSet(old.creds) => IsFiniteSet(new.creds)
                               /\ \A x \in new.creds : \E d \in AllCreds : Alike(x, d)
             change(d) == [d EXCEPT !.valid = valid]
  <1>1. ASSUME NEW layer \in {stored, registered, objects}
        PROVE  /\ Kept(layer, layer) /\ Kept(layer, RemoveCreds(layer, {c}))
               /\ Kept(layer, SetValid(layer, c, valid))
    <2>1. Kept(layer, layer)
      <3>1. layer \in Layer /\ layer.creds \subseteq AllCreds
        BY DEF AcctInv, LayersOK, AllCreds
      <3> QED BY <3>1 DEF Alike, Same
    <2>2. Kept(layer, RemoveCreds(layer, {c}))
      BY CredsAlike, Zenon
    <2>3. Kept(layer, SetValid(layer, c, valid))
      BY CredsAlike, Zenon
    <2> QED BY <2>1, <2>2, <2>3
  <1> HIDE DEF Kept
  <1>2. Kept(stored, stored') /\ Kept(registered, registered') /\ Kept(objects, objects')
    BY <1>1
  <1>3. ASSUME NEW layer \in {stored, registered, objects}
        PROVE  /\ SuperKeys(RemoveCreds(layer, {c})) = {d \in SuperKeys(layer) : d.id # c.id}
               /\ SuperKeys(SetValid(layer, c, valid)) =
                      {IF d.id = c.id THEN change(d) ELSE d : d \in SuperKeys(layer)}
               /\ \A d \in SuperKeys(layer) : change(d).id = d.id /\ change(d).name = d.name
    <2>1. layer \in Layer
      BY DEF AcctInv, LayersOK
    <2>2. c.kind = "key"
      BY DEF SuperKeys
    <2>3. SuperKeys(RemoveCreds(layer, {c})) = {d \in SuperKeys(layer) : d.id # c.id}
      BY <2>1, <2>2, LayerOps DEF SuperKeys, Same
    <2>4. /\ SetValid(layer, c, valid).creds =
                 {IF Same(c, d) THEN change(d) ELSE d : d \in layer.creds}
          /\ \A d \in layer.creds : Alike(change(d), d)
      BY <2>1, SetValidOps
    <2> HIDE DEF change
    <2>5. SuperKeys(SetValid(layer, c, valid)) =
              {IF d.id = c.id THEN change(d) ELSE d : d \in SuperKeys(layer)}
      BY <2>2, <2>4 DEF SuperKeys, Alike, Same
    <2> QED BY <2>3, <2>4, <2>5 DEF SuperKeys, Alike, Same
  <1> HIDE DEF change
  <1>4. /\ c \in SuperKeys(objects)
        /\ \A a, b \in SuperKeys(objects) : a.name = b.name \/ a.id = b.id => a = b
        /\ \A a, b \in SuperKeys(stored) : a.id = b.id => a = b
        /\ SuperKeys(registered) \subseteq SuperKeys(objects)
        /\ ~keyGap' => SuperKeys(stored) = SuperKeys(objects)
    BY DEF AcctInv, KeysInStep
  <1>5. LayersOK'
    <2>1. IsFiniteSet(SuperKeys(objects)')
      <3>1. IsFiniteSet(SuperKeys(objects))
        BY DEF AcctInv, LayersOK
      <3>2. CASE objects' = RemoveCreds(objects, {c})
        <4>1. SuperKeys(objects)' \subseteq SuperKeys(objects)
          BY <1>3, <3>2
        <4> QED BY <3>1, <4>1, FS_Subset
      <3>3. CASE objects' = SetValid(objects, c, valid)
        <4>1. SuperKeys(objects)' = {IF d.id = c.id THEN change(d) ELSE d : d \in SuperKeys(objects)}
          BY <1>3, <3>3
        <4>2. SuperKeys(objects)' \subseteq SuperKeys(objects) \cup {change(c)}
          BY <1>4, <4>1
        <4>3. IsFiniteSet(SuperKeys(objects) \cup {change(c)})
          BY <3>1, FS_AddElement
        <4> QED BY <4>2, <4>3, FS_Subset
      <3> QED BY <3>2, <3>3
    <2> QED BY <1>2, <2>1 DEF Kept, AcctInv, LayersOK
  <1>6. UsersKnown' /\ SuperUserKnown'
    BY <1>2 DEF Kept, AcctInv, UsersKnown, UsersOf, SuperUserKnown
  <1>7. CredsApart'
    <2>1. AllCreds' = stored'.creds \cup registered'.creds \cup objects'.creds
      BY DEF AllCreds
    <2>2. \A x \in AllCreds' : \E d \in AllCreds : Alike(x, d)
      BY <1>2, <2>1 DEF Kept
    <2> QED BY <1>5, <2>2, StillApart
  <1>8. KeysInStep'
    <2>1. CASE registered' = RemoveCreds(registered, {c}) /\ objects' = RemoveCreds(objects, {c})
               /\ (stored' = RemoveCreds(stored, {c}) \/ (stored' = stored /\ keyGap'))
      <3>1. /\ SuperKeys(registered)' = {d \in SuperKeys(registered) : d.id # c.id}
            /\ SuperKeys(objects)' = {d \in SuperKeys(objects) : d.id # c.id}
            /\ SuperKeys(stored)' = {d \in SuperKeys(stored) : d.id # c.id}
               \/ SuperKeys(stored)' = SuperKeys(stored)
            /\ ~keyGap' => SuperKeys(stored)' = {d \in SuperKeys(stored) : d.id # c.id}
        BY <1>3, <2>1
      <3> QED BY <1>4, <3>1 DEF KeysInStep
    <2>2. CASE registered' = SetValid(registered, c, valid) /\ objects' = SetValid(objects, c, valid)
               /\ (stored' = SetValid(stored, c, valid) \/ (stored' = stored /\ keyGap'))
      <3> DEFINE new(s) == {IF d.id = c.id THEN change(d) ELSE d : d \in s}
      <3>1. /\ SuperKeys(registered)' = new(SuperKeys(registered))
            /\ SuperKeys(objects)' = new(SuperKeys(objects))
            /\ SuperKeys(stored)' = new(SuperKeys(stored)) \/ SuperKeys(stored)' = SuperKeys(stored)
            /\ ~keyGap' => SuperKeys(stored)' = new(SuperKeys(stored))
        BY <1>3, <2>2
      <3>2. SuperKeys(registered)' \subseteq SuperKeys(objects)'
        BY <1>4, <3>1
      <3>3. \A a, b \in SuperKeys(objects)' : a.name = b.name \/ a.id = b.id => a = b
        BY <1>3, <1>4, <3>1
      <3>4. \A a, b \in SuperKeys(stored)' : a.id = b.id => a = b
        BY <1>3, <1>4, <3>1
      <3>5. ~keyGap' => SuperKeys(stored)' = SuperKeys(objects)'
        BY <1>4, <3>1
      <3> QED BY <3>2, <3>3, <3>4, <3>5 DEF KeysInStep
    <2> QED BY <2>1, <2>2
  <1> QED BY <1>5, <1>6, <1>7, <1>8 DEF AcctInv

\* The guards of the last active key count the active keys of the object: when
\* there is not exactly one, there is a second one.
LEMMA AnotherActiveKey ==
    ASSUME AcctInv, NEW c \in ActiveKeys(Super), Cardinality(ActiveKeys(Super)) # 1
    PROVE  \E d \in ActiveKeys(Super) : d # c
  <1>1. ActiveKeys(Super) \subseteq SuperKeys(objects)
    BY DEF ActiveKeys, SuperKeys, CredsOf
  <1>2. IsFiniteSet(ActiveKeys(Super))
    BY <1>1, FS_Subset DEF AcctInv, LayersOK
  <1>3. ActiveKeys(Super) # {c}
    BY <1>2, FS_Singleton
  <1> QED BY <1>3

\* dropUserAccessKey() and dropUserToken().
LEMMA DropCredInv ==
    ASSUME AcctInv, NEW kind \in CredKinds, NEW u \in Users, NEW n, DropCred(kind, u, n)
    PROVE  AcctInv'
  <1> DEFINE isKey == u = Super /\ kind = "key"
             others == Named(objects, kind, u, n)
             refused == /\ isKey /\ Cardinality(ActiveKeys(u)) = 1
                        /\ \E d \in ActiveKeys(u) : d.name = n
  <1>1. PICK c \in Named(registered, kind, u, n) :
            /\ registered' = RemoveCreds(registered, {c})
            /\ IF refused
               THEN UNCHANGED <<objects, stored, keyGap>>
               ELSE /\ objects' = RemoveCreds(objects, others)
                    /\ \/ stored' = RemoveCreds(stored, {c}) /\ keyGap' = keyGap
                       \/ stored' = stored /\ keyGap' = (keyGap \/ isKey)
    BY DEF DropCred, DroppedRow, RowFails
  <1>2. UNCHANGED <<usedUsers, lastCred>>
    BY DEF DropCred
  <1>3. c \in registered.creds /\ c.user = u /\ c.kind = kind /\ c.name = n
    BY DEF Named, CredsOf
  <1>4. \A d \in others : d \in objects.creds /\ d.user = u /\ d.kind = kind /\ d.name = n
    BY DEF Named, CredsOf
  <1>5. keyGap \in BOOLEAN
    BY DEF AcctInv, LayersOK
  <1>6. CASE ~isKey
    <2> DEFINE cs == {c} \cup others
    <2>1. cs \in SUBSET AllCreds /\ \A x \in cs : ~(x.user = Super /\ x.kind = "key")
      BY <1>3, <1>4, <1>6 DEF AllCreds
    <2>2. {c} \in SUBSET cs /\ others \in SUBSET cs
      OBVIOUS
    <2>3. keyGap' = keyGap
      BY <1>1, <1>5, <1>6
    <2>4. \E ds \in SUBSET cs : registered' = RemoveCreds(registered, ds)
      BY <1>1, <2>2
    <2>5. \E ds \in SUBSET cs : objects' = RemoveCreds(objects, ds)
      BY <1>1, <1>6, <2>2
    <2>6. UNCHANGED stored \/ \E ds \in SUBSET cs : stored' = RemoveCreds(stored, ds)
      BY <1>1, <1>6, <2>2
    <2> HIDE DEF cs, others, isKey, refused
    <2> QED BY <1>2, <1>5, <2>1, <2>3, <2>4, <2>5, <2>6, OthersStep
  <1>7. CASE isKey
    <2>1. c \in SuperKeys(registered) /\ c \in SuperKeys(objects)
      BY <1>3, <1>7 DEF SuperKeys, AcctInv, KeysInStep
    <2>2. others = {c}
      <3>1. c \in others
        BY <1>3, <1>7, <2>1 DEF SuperKeys, Named, CredsOf
      <3>2. \A d \in others : d = c
        BY <1>3, <1>4, <1>7, <2>1 DEF SuperKeys, AcctInv, KeysInStep
      <3> QED BY <3>1, <3>2
    <2>3. CASE refused
      <3>1. stored \in Layer /\ registered \in Layer /\ objects \in Layer
        BY DEF AcctInv, LayersOK
      <3>2. /\ registered' \in Layer /\ registered'.users = registered.users
            /\ registered'.creds \subseteq registered.creds
        BY <1>1, <3>1, LayerOps
      <3>3. UNCHANGED <<objects, stored, keyGap>>
        BY <1>1, <2>3
      <3>4. LayersOK'
        BY <1>2, <3>2, <3>3 DEF AcctInv, LayersOK
      <3>5. UsersKnown' /\ SuperUserKnown'
        BY <1>2, <3>2, <3>3 DEF AcctInv, UsersKnown, UsersOf, SuperUserKnown
      <3>6. CredsApart'
        <4>1. AllCreds' \subseteq AllCreds
          BY <3>2, <3>3 DEF AllCreds
        <4> QED BY <1>2, <3>4, <4>1, StillApart DEF Alike, Same
      <3>7. KeysInStep'
        BY <3>2, <3>3 DEF AcctInv, KeysInStep, SuperKeys
      <3> QED BY <3>4, <3>5, <3>6, <3>7 DEF AcctInv
    <2>4. CASE ~refused
      <3>1. /\ objects' = RemoveCreds(objects, {c})
            /\ \/ stored' = RemoveCreds(stored, {c}) /\ keyGap' = keyGap
               \/ stored' = stored /\ keyGap'
        BY <1>1, <1>5, <1>7, <2>2, <2>4
      <3>2. ASSUME ~keyGap'
            PROVE  \E d \in SuperKeys(objects)' : d.valid
        <4>1. ~keyGap
          BY <3>1, <3>2
        <4>2. PICK d \in SuperKeys(objects) : d.valid
          BY <4>1 DEF AcctInv, KeysInStep
        <4>3. SuperKeys(objects)' = {x \in SuperKeys(objects) : x.id # c.id}
          <5>1. objects \in Layer /\ c.kind = "key"
            BY <2>1 DEF AcctInv, LayersOK, SuperKeys
          <5> QED BY <3>1, <5>1, LayerOps DEF SuperKeys, Same
        <4>4. \A x \in SuperKeys(objects) : x # c => x \in SuperKeys(objects)'
          BY <2>1, <4>3 DEF AcctInv, KeysInStep
        <4>5. \A x : x \in ActiveKeys(Super) <=> x \in SuperKeys(objects) /\ x.valid
          BY DEF ActiveKeys, SuperKeys, CredsOf
        <4>6. CASE c \in ActiveKeys(Super)
          <5>1. Cardinality(ActiveKeys(Super)) # 1
            BY <1>3, <1>7, <2>4, <4>6
          <5> QED BY <4>4, <4>5, <4>6, <5>1, AnotherActiveKey
        <4>7. CASE c \notin ActiveKeys(Super)
          BY <2>1, <4>2, <4>4, <4>5, <4>7
        <4> QED BY <4>6, <4>7
      <3>3. /\ keyGap' \in BOOLEAN
            /\ ~keyGap' => ~keyGap
        <4>1. keyGap' = keyGap \/ keyGap' = (keyGap \/ isKey)
          BY <1>1, <2>4
        <4> QED BY <1>5, <4>1
      <3> HIDE DEF others, isKey, refused
      <3>4. TRUE \in BOOLEAN
        OBVIOUS
      <3>5. /\ registered' = RemoveCreds(registered, {c})
            /\ objects' = RemoveCreds(objects, {c})
            /\ stored' = RemoveCreds(stored, {c}) \/ (stored' = stored /\ keyGap')
        BY <1>1, <3>1
      <3> QED BY <1>2, <2>1, <3>2, <3>3, <3>4, <3>5, SuperKeyStep
    <2> QED BY <2>3, <2>4
  <1> QED BY <1>6, <1>7

\* updateUserAccessKey().
LEMMA AlterKeyInv ==
    ASSUME AcctInv, NEW u \in Users, NEW n, NEW valid \in BOOLEAN, AlterKey(u, n, valid)
    PROVE  AcctInv'
  <1>1. PICK c \in Named(registered, "key", u, n) :
            /\ c.valid # valid
            /\ ~(u = Super /\ ~valid /\ Cardinality(ActiveKeys(u)) = 1)
            /\ registered' = SetValid(registered, c, valid)
            /\ objects' = SetValid(objects, c, valid)
            /\ AlterRow(c, valid)
    BY DEF AlterKey
  <1>2. UNCHANGED <<usedUsers, lastCred>>
    BY DEF AlterKey
  <1>3. c \in registered.creds /\ c.user = u /\ c.kind = "key"
    BY DEF Named, CredsOf
  <1>4. keyGap \in BOOLEAN
    BY DEF AcctInv, LayersOK
  <1>5. \/ stored' = SetValid(stored, c, valid) /\ keyGap' = keyGap
        \/ stored' = stored /\ keyGap' = (keyGap \/ u = Super)
    BY <1>1, <1>3 DEF AlterRow, RowFails
  <1>6. CASE u # Super
    <2> DEFINE cs == {c}
    <2>1. cs \in SUBSET AllCreds /\ \A x \in cs : ~(x.user = Super /\ x.kind = "key")
      BY <1>3, <1>6 DEF AllCreds
    <2>2. c \in cs /\ keyGap' = keyGap
      BY <1>4, <1>5, <1>6
    <2> HIDE DEF cs
    <2>3. \E x \in cs, v \in BOOLEAN : registered' = SetValid(registered, x, v)
      BY <1>1, <2>2
    <2>4. \E x \in cs, v \in BOOLEAN : objects' = SetValid(objects, x, v)
      BY <1>1, <2>2
    <2>5. UNCHANGED stored \/ \E x \in cs, v \in BOOLEAN : stored' = SetValid(stored, x, v)
      BY <1>5, <2>2
    <2> QED BY <1>2, <1>4, <2>1, <2>2, <2>3, <2>4, <2>5, OthersStep
  <1>7. CASE u = Super
    <2>1. c \in SuperKeys(registered) /\ c \in SuperKeys(objects)
      BY <1>3, <1>7 DEF SuperKeys, AcctInv, KeysInStep
    <2>2. /\ keyGap' \in BOOLEAN
          /\ ~keyGap' => ~keyGap
      BY <1>4, <1>5, <1>7
    <2>3. stored' = SetValid(stored, c, valid) \/ (stored' = stored /\ keyGap')
      BY <1>5, <1>7
    <2>4. ASSUME ~keyGap'
          PROVE  \E d \in SuperKeys(objects)' : d.valid
      <3> DEFINE change(x) == [x EXCEPT !.valid = valid]
      <3>1. objects \in Layer /\ objects' = SetValid(objects, c, valid)
        BY <1>1 DEF AcctInv, LayersOK
      <3>2. /\ objects'.creds = {IF Same(c, d) THEN change(d) ELSE d : d \in objects.creds}
            /\ \A d \in objects.creds : Alike(change(d), d) /\ change(d).valid = valid
        BY <3>1, SetValidOps
      <3> HIDE DEF change
      <3>3. change(c) \in SuperKeys(objects)' /\ change(c).valid = valid
        <4>1. c \in objects.creds /\ Same(c, c) /\ c.user = Super /\ c.kind = "key"
          BY <2>1 DEF SuperKeys, Same
        <4>2. change(c) \in objects'.creds
          BY <3>2, <4>1
        <4>3. change(c).user = Super /\ change(c).kind = "key"
          BY <3>2, <4>1 DEF Alike, Same
        <4> QED BY <3>2, <4>1, <4>2, <4>3 DEF SuperKeys
      <3>4. ASSUME NEW x \in SuperKeys(objects), x # c
            PROVE  x \in SuperKeys(objects)'
        <4>1. x.id # c.id
          BY <2>1, <3>4 DEF AcctInv, KeysInStep
        <4>2. x \in objects.creds /\ ~Same(c, x) /\ x.user = Super /\ x.kind = "key"
          BY <4>1 DEF SuperKeys, Same
        <4>3. x \in objects'.creds
          BY <3>2, <4>2
        <4> QED BY <4>2, <4>3 DEF SuperKeys
      <3>5. CASE valid
        BY <3>3, <3>5
      <3>6. CASE ~valid
        <4>1. \A x : x \in ActiveKeys(Super) <=> x \in SuperKeys(objects) /\ x.valid
          BY DEF ActiveKeys, SuperKeys, CredsOf
        <4>2. c.valid \in BOOLEAN
          BY <2>1, <3>1 DEF SuperKeys, Layer, CredType
        <4>3. c \in ActiveKeys(Super)
          BY <1>1, <2>1, <3>6, <4>1, <4>2
        <4>4. Cardinality(ActiveKeys(Super)) # 1
          BY <1>1, <1>7, <3>6
        <4>5. PICK d \in ActiveKeys(Super) : d # c
          BY <4>3, <4>4, AnotherActiveKey
        <4> QED BY <3>4, <4>1, <4>5
      <3> QED BY <3>5, <3>6
    <2> QED BY <1>1, <1>2, <2>1, <2>2, <2>3, <2>4, SuperKeyStep
  <1> QED BY <1>6, <1>7

\* A start: of two rows with one name the one with the smaller ID is taken, which
\* never concerns the superuser, nor its keys unless one was not written.
LEMMA AccountsRestartInv ==
    ASSUME AcctInv, AccountsRestart
    PROVE  AcctInv'
  <1> DEFINE read == ReadAccounts
             doubtful == {u \in Users : Only(stored, {u}) # Only(read, {u})}
  <1>1. /\ registered' = read /\ objects' = Only(read, {Super})
        /\ keyGap' = (keyGap /\ (Super \in doubtful
                                  \/ \A c \in CredsOf(read, Super) : c.kind = "token" \/ ~c.valid))
        /\ UNCHANGED <<stored, usedUsers, lastCred>>
    BY DEF AccountsRestart
  <1>2. /\ stored \in Layer /\ keyGap \in BOOLEAN
        /\ \A c \in stored.creds : c \in CredType
        /\ \A r \in stored.users : r \in UserType
    BY DEF AcctInv, LayersOK, Layer
  <1>3. /\ read.users = {r \in stored.users : \A x \in stored.users : x.name = r.name => x.id >= r.id}
        /\ read.creds = {c \in stored.creds :
                            /\ c.user \in {r.id : r \in read.users}
                            /\ \A d \in Named(stored, c.kind, c.user, c.name) : d.id >= c.id}
        /\ read \in Layer
    BY <1>2 DEF ReadAccounts, Layer
  <1> HIDE DEF read
  <1>4. /\ objects' \in Layer /\ objects'.users = {r \in read.users : r.id = Super}
        /\ objects'.creds = {c \in read.creds : c.user = Super}
    BY <1>1, <1>3, LayerOps
  <1>5. SuperRow.id = Super /\ SuperRow.name = "root" /\ Super \in Nat
    BY PermissionsAssumption, AccountsAssumption DEF SuperRow, UserRow
  <1>6. SuperRow \in read.users
    BY <1>3, <1>5 DEF AcctInv, SuperUserKnown, HasSuper
  <1>7. SuperUserKnown'
    BY <1>1, <1>3, <1>4, <1>5, <1>6 DEF AcctInv, SuperUserKnown, HasSuper
  <1>8. UsersKnown'
    BY <1>1, <1>3 DEF AcctInv, UsersKnown, UsersOf
  <1>9. SuperKeys(objects)' = SuperKeys(read) /\ SuperKeys(registered)' = SuperKeys(read)
        /\ SuperKeys(stored)' = SuperKeys(stored) /\ SuperKeys(read) \subseteq SuperKeys(stored)
    BY <1>1, <1>3, <1>4 DEF SuperKeys
  <1>10. LayersOK'
    <2>1. IsFiniteSet(SuperKeys(objects)')
      <3>1. SuperKeys(objects)' \subseteq stored.creds
        BY <1>9 DEF SuperKeys
      <3> QED BY <3>1, FS_Subset DEF AcctInv, LayersOK
    <2>2. keyGap' \in BOOLEAN
      BY <1>1, <1>2
    <2> QED BY <1>1, <1>3, <1>4, <2>1, <2>2 DEF AcctInv, LayersOK
  <1>11. CredsApart'
    <2>1. AllCreds' \subseteq AllCreds
      BY <1>1, <1>3, <1>4 DEF AllCreds
    <2> QED BY <1>1, <1>10, <2>1, StillApart DEF Alike, Same
  <1>12. \A c, d \in SuperKeys(stored) : c.id = d.id => c = d
    BY DEF AcctInv, KeysInStep
  <1>13. \A c, d \in SuperKeys(read) : c.name = d.name \/ c.id = d.id => c = d
    <2> SUFFICES ASSUME NEW c \in SuperKeys(read), NEW d \in SuperKeys(read), c.name = d.name
                 PROVE  c = d
      BY <1>9, <1>12
    <2>1. /\ c \in read.creds /\ d \in read.creds /\ c \in stored.creds /\ d \in stored.creds
          /\ c.user = d.user /\ c.kind = d.kind
      BY <1>3 DEF SuperKeys
    <2>2. c \in Named(stored, d.kind, d.user, d.name) /\ d \in Named(stored, c.kind, c.user, c.name)
      BY <2>1 DEF Named, CredsOf
    <2>3. c.id \in Nat /\ d.id \in Nat /\ c.id >= d.id /\ d.id >= c.id
      BY <1>2, <1>3, <2>1, <2>2 DEF CredType
    <2> QED BY <1>9, <1>12, <2>3
  <1>14. ~keyGap' => SuperKeys(read) = SuperKeys(stored) /\ \E c \in SuperKeys(read) : c.valid
    <2>1. CASE ~keyGap
      <3>1. /\ \A c, d \in SuperKeys(stored) : c.name = d.name => c = d
            /\ \E c \in SuperKeys(stored) : c.valid
        BY <2>1 DEF AcctInv, KeysInStep
      <3>2. ASSUME NEW c \in SuperKeys(stored)
            PROVE  c \in SuperKeys(read)
        <4>1. c \in stored.creds /\ c.user = Super /\ c.kind = "key" /\ c.id \in Nat
          BY <1>2 DEF SuperKeys, CredType
        <4>2. c.user \in {r.id : r \in read.users}
          BY <1>5, <1>6, <4>1
        <4>3. \A d \in Named(stored, c.kind, c.user, c.name) : d = c
          BY <3>1, <4>1 DEF Named, CredsOf, SuperKeys
        <4> QED BY <1>3, <4>1, <4>2, <4>3 DEF SuperKeys
      <3> QED BY <1>9, <3>1, <3>2
    <2>2. CASE keyGap /\ ~keyGap'
      <3>1. /\ Super \notin doubtful
            /\ \E c \in CredsOf(read, Super) : ~(c.kind = "token" \/ ~c.valid)
        BY <1>1, <2>2
      <3>2. Only(stored, {Super}) = Only(read, {Super})
        BY <3>1, PermissionsAssumption
      <3>3. {c \in stored.creds : c.user \in {Super}} = {c \in read.creds : c.user \in {Super}}
        <4>0. stored \in Layer /\ read \in Layer
          BY <1>2, <1>3, Zenon
        <4>1. Only(stored, {Super}).creds = {c \in stored.creds : c.user \in {Super}}
          BY <4>0, OnlyCreds
        <4>2. Only(read, {Super}).creds = {c \in read.creds : c.user \in {Super}}
          BY <4>0, OnlyCreds
        <4> QED BY <3>2, <4>1, <4>2, Zenon
      <3>4. SuperKeys(read) = SuperKeys(stored)
        BY <3>3 DEF SuperKeys
      <3>5. \E c \in SuperKeys(read) : c.valid
        BY <1>2, <1>3, <3>1 DEF CredsOf, SuperKeys, CredType, CredKinds
      <3> QED BY <3>4, <3>5
    <2> QED BY <1>2, <2>1, <2>2
  <1>15. KeysInStep'
    BY <1>9, <1>12, <1>13, <1>14 DEF KeysInStep
  <1> QED BY <1>7, <1>8, <1>10, <1>11, <1>15 DEF AcctInv

------------------------------------------------------------------------------
(***************************************************************************)
(* The invariant of the specification.                                     *)
(***************************************************************************)
IInv == PermInv /\ AcctInv /\ StatementOK /\ TablesKnown /\ BudgetOK

\* It implies the properties.
LEMMA InvImpliesProperties ==
    ASSUME IInv
    PROVE  PermissionsAreStored /\ NewTableIsUnshared /\ SuperUserCanLogIn
  <1>1. PermissionsAreStored
    BY DEF IInv, PermInv
  <1>2. NewTableIsUnshared
    <2> SUFFICES ASSUME stmt.kind = "create"
                 PROVE  /\ \A u \in Users : RowsOfKey(u, stmt.table) = {}
                        /\ \A u \in cached : stmt.table \notin DOMAIN granted[u]
      BY DEF NewTableIsUnshared
    <2>1. stmt.table = lastTable /\ lastTable \in Nat
      BY DEF IInv, StatementOK, TablesKnown, Idle
    <2>2. stmt.table \notin PermTables
      BY <2>1 DEF IInv, TablesKnown, Given
    <2>3. cached \subseteq Users
      BY DEF IInv, PermInv, UsersOK
    <2> QED BY <2>2, <2>3 DEF PermTables, RowsOfKey
  <1>3. SuperUserCanLogIn
    <2> SUFFICES ASSUME ~keyGap, NEW layer \in {objects, stored}
                 PROVE  /\ \E r \in layer.users : r.id = Super /\ r.active
                        /\ \E c \in CredsOf(layer, Super) : c.kind = "key" /\ c.valid
      BY DEF SuperUserCanLogIn
    <2>1. SuperRow \in layer.users /\ SuperRow.id = Super /\ SuperRow.active
      BY DEF IInv, AcctInv, SuperUserKnown, HasSuper, SuperRow, UserRow
    <2>2. \E c \in SuperKeys(layer) : c.valid
      BY DEF IInv, AcctInv, KeysInStep
    <2> QED BY <2>1, <2>2 DEF SuperKeys, CredsOf
  <1> QED BY <1>1, <1>2, <1>3

\* What a statement that is not about permissions or accounts leaves alone.
LEMMA SameAccounts ==
    ASSUME AcctInv, UNCHANGED <<stored, registered, objects, usedUsers, lastCred, keyGap>>
    PROVE  AcctInv'
  BY DEF AcctInv, LayersOK, UsersKnown, SuperUserKnown, CredsApart, AllCreds, KeysInStep,
         SuperKeys, UsersOf

\* The same for the permissions.
LEMMA SamePerms ==
    ASSUME PermInv, UNCHANGED permVars, UNCHANGED usedUsers
    PROVE  PermInv' /\ PermTables' = PermTables
  <1>1. DOMAIN granted' = Users
    BY DEF PermInv, GrantedOK, permVars
  <1>2. PermInv'
    BY <1>1, SamePermissions DEF permVars
  <1> QED BY <1>2 DEF PermTables, permVars

\* There is a first user beside the superuser.
LEMMA OtherUser ==
    \E u \in Users \ {Super} : \A x \in Users \ {Super} : u <= x
  <1> DEFINE us == Users \ {Super}
             R == OpToRel(<, Nat)
  <1>1. us \subseteq Nat /\ us # {}
    BY PermissionsAssumption, AccountsAssumption
  <1>2. IsWellFoundedOn(R, Nat)
    BY NatLessThanWellFounded
  <1>3. PICK u \in us : \A x \in us : ~(<<x, u>> \in R)
    BY <1>1, <1>2, WFMin, Zenon
  <1>4. \A x \in us : ~(x < u)
    BY <1>1, <1>3 DEF OpToRel
  <1> HIDE DEF R
  <1>5. \A x \in us : u <= x
    BY <1>1, <1>4
  <1> QED BY <1>5

\* A new instance.
LEMMA InitInv == Init => IInv
  <1> SUFFICES ASSUME Init
               PROVE  IInv
    OBVIOUS
  <1>1. /\ permRows = {} /\ lastPermId = 0 /\ cached = {Super} /\ drifted = {}
        /\ granted = [u \in Users |-> [t \in {} |-> NoEntry]]
        /\ rows = {} /\ lastTable = 0 /\ registry = {} /\ stmt = Idle /\ budget \in Budgets
    BY DEF Init, PermissionsInit
  <1> DEFINE other == CHOOSE u \in Users \ {Super} : \A x \in Users \ {Super} : u <= x
             name(kind) == CHOOSE n \in CredNames[kind] : TRUE
             first == CHOOSE n \in UserNames \ {"root"} : TRUE
             k1 == Cred("key", 1, Super, name("key"), TRUE)
             k2 == Cred("key", 2, other, name("key"), TRUE)
             t1 == Cred("token", 1, other, name("token"), TRUE)
             ro == UserRow(other, first, TRUE)
             all == [users |-> {SuperRow, ro}, creds |-> {k1, k2, t1}]
  <1>2. /\ stored = all /\ registered = all /\ objects = Only(all, {Super})
        /\ usedUsers = {Super, other}
        /\ lastCred = [key |-> 2, token |-> 1] /\ keyGap = FALSE
    BY DEF Init, AccountsInit, SuperRow
  <1>3. other \in Users /\ other # Super
    BY OtherUser
  <1>4. first \in UserNames /\ first # "root"
    BY AccountsAssumption
  <1>5. \A kind \in CredKinds : name(kind) \in CredNames[kind]
    BY AccountsAssumption
  <1> HIDE DEF other, first, name
  <1>6. /\ SuperRow \in UserType /\ SuperRow.id = Super /\ SuperRow.name = "root"
        /\ ro \in UserType /\ ro.id = other /\ ro.name = first
    BY <1>3, <1>4, PermissionsAssumption DEF SuperRow, UserRow, UserType
  <1>7. name("key") \in CredNames["key"] /\ name("token") \in CredNames["token"]
    BY <1>5 DEF CredKinds
  <1>8. /\ k1 \in CredType /\ k1.kind = "key" /\ k1.id = 1 /\ k1.user = Super /\ k1.valid
        /\ k2 \in CredType /\ k2.kind = "key" /\ k2.id = 2 /\ k2.user = other
        /\ t1 \in CredType /\ t1.kind = "token" /\ t1.id = 1 /\ t1.user = other
    BY <1>3, <1>7, PermissionsAssumption DEF Cred, CredType, CredKinds
  <1> HIDE DEF k1, k2, t1, ro
  <1>9. all \in Layer /\ all.users = {SuperRow, ro} /\ all.creds = {k1, k2, t1}
    BY <1>6, <1>8 DEF Layer
  <1> HIDE DEF all
  <1>10. /\ objects \in Layer /\ objects.users = {SuperRow} /\ objects.creds = {k1}
    <2>1. /\ objects \in Layer /\ objects.users = {r \in all.users : r.id \in {Super}}
          /\ objects.creds = {c \in all.creds : c.user \in {Super}}
      BY <1>2, <1>9, LayerOps
    <2> QED BY <2>1, <1>3, <1>6, <1>8, <1>9
  <1>11. SuperKeys(stored) = {k1} /\ SuperKeys(registered) = {k1} /\ SuperKeys(objects) = {k1}
    BY <1>2, <1>3, <1>8, <1>9, <1>10 DEF SuperKeys
  <1>12. PermInv
    <2>1. UsersOK
      BY <1>1, <1>2, <1>3, PermissionsAssumption DEF UsersOK
    <2>2. GrantedOK
      BY <1>1 DEF GrantedOK
    <2>3. PermRowsOK
      BY <1>1, FS_EmptySet DEF PermRowsOK
    <2>4. EntriesOwnTheirRow /\ OneRowPerKey
      BY <1>1 DEF EntriesOwnTheirRow, OneRowPerKey
    <2>5. PermissionsAreStored
      BY <1>1, PermissionsAssumption DEF PermissionsAreStored, RowsOfKey
    <2> QED BY <2>1, <2>2, <2>3, <2>4, <2>5 DEF PermInv
  <1>13. AcctInv
    <2>1. LayersOK
      <3>1. IsFiniteSet({k1})
        BY FS_Singleton
      <3>2. IsFiniteSet({k1} \cup {k2} \cup {t1})
        BY <3>1, FS_AddElement
      <3>3. {k1} \cup {k2} \cup {t1} = {k1, k2, t1}
        OBVIOUS
      <3>4. lastCred \in [CredKinds -> Nat]
        BY <1>2 DEF CredKinds
      <3> QED BY <1>2, <1>9, <1>10, <1>11, <3>1, <3>2, <3>3, <3>4 DEF LayersOK
    <2>2. UsersKnown
      BY <1>2, <1>6, <1>9 DEF UsersKnown, UsersOf
    <2>3. SuperUserKnown
      BY <1>2, <1>3, <1>4, <1>6, <1>9, <1>10 DEF SuperUserKnown, HasSuper
    <2>4. CredsApart
      <3>1. AllCreds = {k1, k2, t1}
        BY <1>2, <1>9, <1>10 DEF AllCreds
      <3> QED BY <3>1, <1>2, <1>8 DEF CredsApart, Alike, Same
    <2>5. KeysInStep
      BY <1>2, <1>8, <1>11 DEF KeysInStep
    <2> QED BY <2>1, <2>2, <2>3, <2>4, <2>5 DEF AcctInv
  <1>14. StatementOK /\ BudgetOK
    BY <1>1, CatalogAssumption DEF StatementOK, BudgetOK
  <1>15. TablesKnown
    <2>1. PermTables = {}
      BY <1>1 DEF PermTables
    <2> QED BY <1>1, <2>1, PermissionsAssumption DEF TablesKnown
  <1> QED BY <1>12, <1>13, <1>14, <1>15 DEF IInv

------------------------------------------------------------------------------
(***************************************************************************)
(* The steps.                                                              *)
(***************************************************************************)

\* A statement that has ended, or no new one: every table is given out.
LEMMA EndedTables ==
    ASSUME IInv, UNCHANGED lastTable, PermTables' \subseteq PermTables \cup {stmt.table},
           PermTables' \subseteq PermTables \/ stmt.kind = "create",
           stmt' = Idle, rows' \subseteq rows, registry' \subseteq registry \cup rows
    PROVE  StatementOK' /\ TablesKnown'
  <1>1. lastTable \in 0..MaxTables /\ stmt'.kind = "none"
    BY DEF IInv, TablesKnown, Idle
  <1>2. Given' = 1..lastTable
    BY <1>1 DEF Given
  <1>3. stmt.kind = "create" => stmt.table = lastTable /\ lastTable \in 1..lastTable
    BY <1>1 DEF IInv, StatementOK, Idle
  <1>4. PermTables \subseteq 1..lastTable
    BY <1>1 DEF IInv, TablesKnown, Given
  <1>5. PermTables' \subseteq 1..lastTable
    BY <1>3, <1>4
  <1>6. \A t \in Tables : <<"table", t>> \in rows' \cup registry' => t <= lastTable'
    BY DEF IInv, TablesKnown
  <1> QED BY <1>1, <1>2, <1>5, <1>6 DEF StatementOK, TablesKnown, Tables

\* The budget of a behaviour only shrinks.
LEMMA EventBudget ==
    ASSUME BudgetOK, Event \/ UNCHANGED budget
    PROVE  BudgetOK'
  <1>1. CASE Event
    BY <1>1 DEF BudgetOK, Event
  <1>2. CASE UNCHANGED budget
    BY <1>2 DEF BudgetOK
  <1> QED BY <1>1, <1>2

\* CREATE TABLE, in memory: the ID is one that was never given out.
LEMMA CreateStep ==
    ASSUME IInv, NEW u \in Users, NEW n \in Names, NEW d \in Contents,
           BeginCreate(u, n, d) \/ BeginCreateFails(u, n, d)
    PROVE  IInv'
  <1> DEFINE t == lastTable + 1
  <1>1. /\ stmt = Idle /\ t \in 1..budget.tables /\ u \in cached /\ lastTable' = t
        /\ UNCHANGED rows /\ UNCHANGED permVars /\ UNCHANGED acctVars
    BY DEF BeginCreate, BeginCreateFails, CreateChecks, Ready, NextTableId
  <1>2. /\ lastTable \in 0..MaxTables /\ budget.tables \in 0..MaxTables
        /\ PermTables \subseteq 1..lastTable
    BY <1>1 DEF IInv, TablesKnown, BudgetOK, Given, Idle
  <1>3. t \in Tables
    BY <1>1, <1>2, PermissionsAssumption DEF Tables
  <1>4. PermInv' /\ PermTables' = PermTables
    BY <1>1, SamePerms DEF IInv, acctVars
  <1>5. AcctInv'
    BY <1>1, SameAccounts DEF IInv, acctVars
  <1>6. BudgetOK'
    BY EventBudget DEF IInv, BeginCreate, BeginCreateFails
  <1>7. \A x \in Tables : <<"table", x>> \in registry' => <<"table", x>> \in registry \/ x = t
    <2>1. ASSUME BeginCreate(u, n, d)
          PROVE  \A x : <<"table", x>> \in registry' => <<"table", x>> \in registry \/ x = t
      BY <2>1, MemoryTables DEF BeginCreate, NextTableId
    <2>2. ASSUME BeginCreateFails(u, n, d)
          PROVE  \A x : <<"table", x>> \in registry' => <<"table", x>> \in registry \/ x = t
      BY <2>2, MemoryTables DEF BeginCreateFails, NextTableId
    <2> QED BY <2>1, <2>2
  <1>8. \A x \in Tables : <<"table", x>> \in rows' \cup registry' => x <= lastTable'
    BY <1>1, <1>2, <1>7 DEF IInv, TablesKnown, Tables
  <1>9. CASE BeginCreate(u, n, d)
    <2>1. stmt' = [kind |-> "create", table |-> t, user |-> u, todo |-> RecordOrder(t, d)]
      BY <1>9 DEF BeginCreate, NextTableId
    <2>2. RecordOrder(t, d) \in Seq(RecordedObjects(t))
      BY RecordOrderType
    <2>3. StatementOK'
      BY <1>1, <1>2, <2>1, <2>2 DEF StatementOK, permVars
    <2>4. Given' = 1..lastTable
      BY <1>1, <1>2, <2>1 DEF Given
    <2>5. TablesKnown'
      BY <1>1, <1>2, <1>3, <1>4, <1>8, <2>4 DEF TablesKnown, Tables
    <2> QED BY <1>4, <1>5, <1>6, <2>3, <2>5 DEF IInv
  <1>10. CASE BeginCreateFails(u, n, d)
    <2>1. stmt' = Idle
      BY <1>1, <1>10 DEF BeginCreateFails
    <2>2. Given' = 1..(lastTable + 1)
      BY <1>1, <2>1 DEF Given, Idle
    <2>3. StatementOK'
      BY <2>1 DEF StatementOK
    <2>4. TablesKnown'
      BY <1>1, <1>2, <1>3, <1>4, <1>8, <2>2 DEF TablesKnown, Tables
    <2> QED BY <1>4, <1>5, <1>6, <2>3, <2>4 DEF IInv
  <1> QED BY <1>9, <1>10

\* One row of a CREATE TABLE.
LEMMA RecordStep ==
    ASSUME IInv, RecordRow
    PROVE  IInv'
  <1>1. /\ stmt.kind = "create" /\ stmt.todo # <<>> /\ rows' = rows \cup {Head(stmt.todo)}
        /\ stmt' = [stmt EXCEPT !.todo = Tail(@)]
        /\ UNCHANGED <<lastTable, registry, budget>> /\ UNCHANGED permVars /\ UNCHANGED acctVars
    BY DEF RecordRow, Todo, Row
  <1>2. /\ DOMAIN stmt = {"kind", "table", "user", "todo"} /\ stmt.table = lastTable
        /\ lastTable > 0 /\ stmt.user \in cached /\ stmt.todo \in Seq(RecordedObjects(lastTable))
    BY <1>1 DEF IInv, StatementOK, Idle
  <1>3. /\ Head(stmt.todo) \in RecordedObjects(lastTable)
        /\ Tail(stmt.todo) \in Seq(RecordedObjects(lastTable))
    BY <1>1, <1>2
  <1>4. /\ DOMAIN stmt' = {"kind", "table", "user", "todo"} /\ stmt'.kind = "create"
        /\ stmt'.table = stmt.table /\ stmt'.user = stmt.user /\ stmt'.todo = Tail(stmt.todo)
    BY <1>1, <1>2
  <1>5. StatementOK'
    BY <1>1, <1>2, <1>3, <1>4 DEF StatementOK, permVars
  <1>6. PermInv' /\ PermTables' = PermTables
    BY <1>1, SamePerms DEF IInv, acctVars
  <1>7. TablesKnown'
    <2>1. Given' = Given
      BY <1>1, <1>4 DEF Given
    <2>2. \A x \in Tables : <<"table", x>> \in rows' => <<"table", x>> \in rows \/ x = lastTable
      BY <1>1, <1>3, RecordedTables
    <2>3. lastTable \in 0..MaxTables
      BY DEF IInv, TablesKnown
    <2> QED BY <1>1, <1>6, <2>1, <2>2, <2>3 DEF IInv, TablesKnown, Tables
  <1>8. AcctInv' /\ BudgetOK'
    BY <1>1, SameAccounts DEF IInv, acctVars, BudgetOK
  <1> QED BY <1>5, <1>6, <1>7, <1>8 DEF IInv

\* The end of a CREATE TABLE: its creator is the first to know the table.
LEMMA EndCreateStep ==
    ASSUME IInv, RecordRowFails \/ EndCreate \/ EndCreateFails
    PROVE  IInv'
  <1>1. /\ stmt.kind = "create" /\ stmt' = Idle
        /\ UNCHANGED <<lastTable, rows, registry>> /\ UNCHANGED acctVars
    BY DEF RecordRowFails, EndCreate, EndCreateFails
  <1>2. \/ UNCHANGED permVars
        \/ GrantRecords(stmt.user, stmt.table, Perms, TRUE)
        \/ GrantThrows(stmt.user, stmt.table, Perms, TRUE)
    BY DEF RecordRowFails, EndCreate, EndCreateFails
  <1>3. stmt.user \in cached /\ stmt.table \in Tables
    BY <1>1 DEF IInv, StatementOK, TablesKnown, Tables, Idle
  <1>4. PermInv' /\ PermTables' \subseteq PermTables \cup {stmt.table}
    <2>1. CASE UNCHANGED permVars
      BY <1>1, <2>1, SamePerms DEF IInv, acctVars
    <2>2. CASE GrantRecords(stmt.user, stmt.table, Perms, TRUE)
      BY <1>1, <1>3, <2>2, GrantRecordsInv, GrantTables DEF IInv, acctVars
    <2>3. CASE GrantThrows(stmt.user, stmt.table, Perms, TRUE)
      BY <1>1, <1>3, <2>3, GrantThrowsInv, GrantTables DEF IInv, acctVars
    <2> QED BY <1>2, <2>1, <2>2, <2>3
  <1>5. StatementOK' /\ TablesKnown'
    BY <1>1, <1>4, EndedTables
  <1>6. AcctInv'
    BY <1>1, SameAccounts DEF IInv, acctVars
  <1>7. BudgetOK'
    BY EventBudget DEF IInv, RecordRowFails, EndCreate, EndCreateFails
  <1> QED BY <1>4, <1>5, <1>6, <1>7 DEF IInv

\* DROP TABLE.
LEMMA DropStep ==
    ASSUME IInv,
           \/ \E u \in Users, t \in Tables : BeginDrop(u, t)
           \/ EraseRow
    PROVE  IInv'
  <1>1. /\ rows' \subseteq rows /\ UNCHANGED <<lastTable, registry, budget>>
        /\ UNCHANGED permVars /\ UNCHANGED acctVars
    BY DEF BeginDrop, EraseRow
  <1>2. stmt.kind # "create"
    <2>1. stmt = Idle \/ stmt.kind = "drop"
      BY DEF BeginDrop, Ready, EraseRow
    <2> QED BY <2>1 DEF Idle
  <1>3. /\ DOMAIN stmt' = {"kind", "table", "todo", "definitions"} /\ stmt'.kind = "drop"
        /\ stmt'.table \in Tables
    <2>1. ASSUME NEW u \in Users, NEW t \in Tables, BeginDrop(u, t)
          PROVE  /\ DOMAIN stmt' = {"kind", "table", "todo", "definitions"} /\ stmt'.kind = "drop"
                 /\ stmt'.table \in Tables
      <3>1. PICK ds : stmt' = [kind |-> "drop", table |-> t, todo |-> EraseOrder(t, ds),
                               definitions |-> ToSet(ds)]
        BY <2>1 DEF BeginDrop
      <3> QED BY <3>1
    <2>2. ASSUME EraseRow
          PROVE  /\ DOMAIN stmt' = {"kind", "table", "todo", "definitions"} /\ stmt'.kind = "drop"
                 /\ stmt'.table \in Tables
      <3>1. stmt.kind = "drop" /\ stmt' = [stmt EXCEPT !.todo = Tail(@)]
        BY <2>2 DEF EraseRow
      <3>2. DOMAIN stmt = {"kind", "table", "todo", "definitions"} /\ stmt.table \in Tables
        BY <3>1 DEF IInv, StatementOK, Idle
      <3> QED BY <3>1, <3>2
    <2> QED BY <2>1, <2>2
  <1>4. StatementOK'
    BY <1>3 DEF StatementOK, Tables
  <1>5. PermInv' /\ PermTables' = PermTables
    BY <1>1, SamePerms DEF IInv, acctVars
  <1>6. TablesKnown'
    BY <1>1, <1>2, <1>3, <1>5 DEF IInv, TablesKnown, Given, Tables
  <1>7. AcctInv' /\ BudgetOK'
    BY <1>1, SameAccounts DEF IInv, acctVars, BudgetOK
  <1> QED BY <1>4, <1>5, <1>6, <1>7 DEF IInv

\* The end of a DROP TABLE, by an error or by the removal from memory.
LEMMA EndDropStep ==
    ASSUME IInv, EraseRowFails \/ EndDrop \/ EndDropFails
    PROVE  IInv'
  <1>1. /\ stmt.kind = "drop" /\ stmt' = Idle /\ registry' \subseteq registry
        /\ UNCHANGED <<lastTable, rows>> /\ UNCHANGED acctVars
    BY DEF EraseRowFails, EndDrop, EndDropFails, Unregister
  <1>2. UNCHANGED permVars \/ RevokeAll(stmt.table) \/ RevokeAllThrows(stmt.table)
    BY DEF EraseRowFails, EndDrop, EndDropFails
  <1>3. stmt.table \in Tables
    BY <1>1 DEF IInv, StatementOK, Idle
  <1>4. PermInv' /\ PermTables' \subseteq PermTables
    <2>1. CASE UNCHANGED permVars
      BY <1>1, <2>1, SamePerms DEF IInv, acctVars
    <2>2. CASE RevokeAll(stmt.table) \/ RevokeAllThrows(stmt.table)
      BY <1>1, <1>3, <2>2, RevokeAllInv, RevokeTables DEF IInv, acctVars
    <2> QED BY <1>2, <2>1, <2>2
  <1>5. StatementOK' /\ TablesKnown'
    BY <1>1, <1>4, EndedTables
  <1>6. AcctInv'
    BY <1>1, SameAccounts DEF IInv, acctVars
  <1>7. BudgetOK'
    BY EventBudget DEF IInv, EraseRowFails, EndDrop, EndDropFails
  <1> QED BY <1>4, <1>5, <1>6, <1>7 DEF IInv

\* A start.
LEMMA RestartStep ==
    ASSUME IInv, Restart
    PROVE  IInv'
  <1>1. /\ stmt' = Idle /\ registry' \subseteq registry \cup rows
        /\ UNCHANGED <<lastTable, rows>> /\ UNCHANGED usedUsers
    BY DEF Restart, ReadRegistry, AccountsRestart
  <1>2. PermissionsRestart /\ AccountsRestart
    BY DEF Restart
  <1>3. PermInv' /\ PermTables' \subseteq PermTables
    BY <1>1, <1>2, PermissionsRestartInv, RestartTables DEF IInv
  <1>4. AcctInv'
    BY <1>2, AccountsRestartInv DEF IInv
  <1>5. StatementOK' /\ TablesKnown'
    BY <1>1, <1>3, EndedTables
  <1>6. BudgetOK'
    BY EventBudget DEF IInv, Restart
  <1> QED BY <1>3, <1>4, <1>5, <1>6 DEF IInv

\* A lookup.
LEMMA LookUpStep ==
    ASSUME IInv, NEW u \in Users, LookUp(u)
    PROVE  IInv'
  <1>1. /\ stmt = Idle /\ UNCHANGED <<stmt, lastTable, rows, registry, budget, usedUsers>>
        /\ u \in UsersOf(registered) /\ LookUpUser(u) /\ LookUpAccount(u)
    BY DEF LookUp, LookUpAccount, Ready, catVars
  <1>2. u \in usedUsers
    BY <1>1 DEF IInv, AcctInv, UsersKnown
  <1>3. PermInv' /\ PermTables' \subseteq PermTables
    BY <1>1, <1>2, LookUpUserInv, LookUpTables DEF IInv
  <1>4. AcctInv'
    BY <1>1, LookUpAccountInv DEF IInv
  <1>5. StatementOK' /\ TablesKnown'
    BY <1>1, <1>3, EndedTables
  <1>6. BudgetOK'
    BY <1>1 DEF IInv, BudgetOK
  <1> QED BY <1>3, <1>4, <1>5, <1>6 DEF IInv

\* GRANT and REVOKE concern tables that are registered.
LEMMA PermissionStep ==
    ASSUME IInv, NEW by \in Users, NEW u, NEW t \in Tables, NEW ps \in SUBSET Perms,
           \/ \E o \in BOOLEAN : Grant(by, u, t, ps, o)
           \/ Revoke(by, u, t, ps)
    PROVE  IInv'
  <1>1. /\ stmt = Idle /\ u \in cached /\ <<"table", t>> \in registry /\ Event
        /\ UNCHANGED <<stmt, lastTable, rows, registry>> /\ UNCHANGED acctVars
    BY DEF Grant, Revoke, PermissionStatement, Ready, catVars
  <1>2. /\ PermInv' /\ PermTables' \subseteq PermTables \cup {t}
    <2>1. ASSUME NEW o \in BOOLEAN, Grant(by, u, t, ps, o)
          PROVE  PermInv' /\ PermTables' \subseteq PermTables \cup {t}
      <3>1. GrantRecords(u, t, ps, o) \/ GrantThrows(u, t, ps, o)
        BY <2>1 DEF Grant
      <3> QED BY <1>1, <3>1, GrantRecordsInv, GrantThrowsInv, GrantTables DEF IInv, acctVars
    <2>2. ASSUME Revoke(by, u, t, ps)
          PROVE  PermInv' /\ PermTables' \subseteq PermTables
      <3>1. RevokeErases(u, t, ps) \/ RevokeThrows(u, t, ps)
        BY <2>2 DEF Revoke
      <3> QED BY <1>1, <3>1, RevokeErasesInv, RevokeThrowsInv, RevokeTables DEF IInv, acctVars
    <2> QED BY <2>1, <2>2
  <1>3. lastTable \in 0..MaxTables /\ t \in 1..lastTable /\ PermTables \subseteq 1..lastTable
    BY <1>1 DEF IInv, TablesKnown, Given, Idle, Tables
  <1>4. Given' = 1..lastTable
    BY <1>1 DEF Given, Idle
  <1>5. StatementOK' /\ TablesKnown'
    BY <1>1, <1>2, <1>3, <1>4 DEF IInv, StatementOK, TablesKnown, Tables
  <1>6. AcctInv'
    BY <1>1, SameAccounts DEF IInv, acctVars
  <1>7. BudgetOK'
    BY <1>1, EventBudget DEF IInv
  <1> QED BY <1>2, <1>5, <1>6, <1>7 DEF IInv

\* A statement on an account that leaves the permissions alone.
OnCreds(u) ==
    \/ \E active \in BOOLEAN : AlterUser(u, active)
    \/ \E kind \in CredKinds : \E n \in CredNames[kind] :
        DropCred(kind, u, n) \/ \E valid \in BOOLEAN : CreateCred(kind, u, n, valid)
    \/ \E valid \in BOOLEAN :
        \/ \E n \in CredNames["key"] : AlterKey(u, n, valid)
        \/ \E n \in CredNames["token"] : AlterToken(u, n, valid)

\* Statements on users, keys and tokens.
LEMMA AccountsStep ==
    ASSUME IInv, ManageAccounts
    PROVE  IInv'
  <1>1. /\ stmt = Idle /\ UNCHANGED <<stmt, lastTable, rows, registry>> /\ AccountStatement
        /\ budget.accounts > 0 /\ budget.events > 0
        /\ budget' = [budget EXCEPT !.accounts = @ - 1, !.events = @ - 1]
    BY DEF ManageAccounts, Ready, catVars
  <1>2. PICK u \in Users : \/ OnCreds(u)
                           \/ DropUser(u)
                           \/ \E active \in BOOLEAN : \E n \in UserNames : CreateUser(u, n, active)
    BY <1>1 DEF AccountStatement, OnCreds
  <1>3. PermInv' /\ AcctInv' /\ PermTables' \subseteq PermTables
    <2>1. CASE OnCreds(u)
      <3>1. UNCHANGED permVars /\ UNCHANGED usedUsers
        BY <2>1 DEF OnCreds, AlterUser, DropCred, CreateCred, AlterKey, AlterToken
      <3>2. PermInv' /\ PermTables' = PermTables
        BY <3>1, SamePerms DEF IInv
      <3>3. AcctInv'
        BY <2>1, AlterUserAccount, DropCredInv, CreateCredInv, AlterKeyInv, AlterTokenInv
           DEF IInv, OnCreds
      <3> QED BY <3>2, <3>3
    <2>2. CASE DropUser(u)
      <3>1. PermInv' /\ AcctInv'
        BY <2>2, DropUserInv, DropUserAccount DEF IInv
      <3>2. UNCHANGED permRows /\ granted' = [granted EXCEPT ![u] = [t \in {} |-> NoEntry]]
        BY <2>2 DEF DropUser
      <3>3. DOMAIN granted = Users
        BY DEF IInv, PermInv, GrantedOK
      <3>4. \A x \in Users : DOMAIN granted'[x] \subseteq DOMAIN granted[x]
        BY <3>2, <3>3
      <3> QED BY <3>1, <3>2, <3>4, LoadTables DEF IInv
    <2>3. ASSUME NEW active \in BOOLEAN, NEW n \in UserNames, CreateUser(u, n, active)
          PROVE  PermInv' /\ AcctInv' /\ PermTables' \subseteq PermTables
      <3>1. PermInv' /\ AcctInv'
        BY <2>3, CreateUserInv, CreateUserAccount DEF IInv, PermInv, UsersOK
      <3>2. UNCHANGED <<permRows, granted>>
        BY <2>3 DEF CreateUser
      <3> QED BY <3>1, <3>2 DEF PermTables
    <2> QED BY <1>2, <2>1, <2>2, <2>3
  <1>4. StatementOK' /\ TablesKnown'
    BY <1>1, <1>3, EndedTables
  <1>5. BudgetOK'
    <2>1. /\ budget \in [tables : 0..MaxTables, accounts : Nat, events : Nat, logins : BOOLEAN]
          /\ budget.accounts - 1 \in Nat /\ budget.events - 1 \in Nat
      BY <1>1 DEF IInv, BudgetOK
    <2>2. budget' \in [tables : 0..MaxTables, accounts : Nat, events : Nat, logins : BOOLEAN]
      BY <1>1, <2>1
    <2> QED BY <2>2 DEF BudgetOK
  <1> QED BY <1>3, <1>4, <1>5 DEF IInv

\* Every step keeps the invariant.
LEMMA NextInv == IInv /\ [Next]_vars => IInv'
  <1> SUFFICES ASSUME IInv, [Next]_vars
               PROVE  IInv'
    OBVIOUS
  <1>1. CASE Next
    BY <1>1, CreateStep, RecordStep, EndCreateStep, DropStep, EndDropStep, RestartStep, LookUpStep,
       PermissionStep, AccountsStep DEF Next
  <1>2. CASE UNCHANGED vars
    <2>1. UNCHANGED <<rows, lastTable, registry, stmt, budget>> /\ UNCHANGED permVars
          /\ UNCHANGED <<stored, registered, objects, usedUsers, lastCred, keyGap>>
      BY <1>2 DEF vars, catVars, acctVars
    <2>2. PermInv' /\ PermTables' = PermTables
      BY <2>1, SamePerms DEF IInv
    <2>3. AcctInv'
      BY <2>1, SameAccounts DEF IInv
    <2>4. StatementOK' /\ TablesKnown' /\ BudgetOK'
      BY <2>1, <2>2 DEF IInv, StatementOK, TablesKnown, Given, BudgetOK, permVars
    <2> QED BY <2>2, <2>3, <2>4 DEF IInv
  <1> QED BY <1>1, <1>2

\* The inductive invariant holds in every reachable state.
THEOREM CatalogInvariant == Spec => []IInv
  BY InitInv, NextInv, PTL DEF Spec

------------------------------------------------------------------------------
(***************************************************************************)
(* The theorems.                                                           *)
(***************************************************************************)

\* For every number of users, tables and statements, what a user in memory may
\* do is what its row in SYS_USER_PERMISSIONS says, except for the keys that are
\* known to have drifted (grant and revoke in Instance_UserPermissions.cpp).
THEOREM PermissionsStayStored == Spec => []PermissionsAreStored
  BY CatalogInvariant, InvImpliesProperties, PTL

\* The table of a CREATE TABLE is one on which nobody holds a permission, in
\* memory or in a row, whatever was dropped before (generateNextTableId()).
THEOREM NewTablesAreUnshared == Spec => []NewTableIsUnshared
  BY CatalogInvariant, InvImpliesProperties, PTL

\* The superuser keeps an active key, in its object and in the rows, through any
\* statements and restarts, unless the row of one of its keys was not written
\* (User::deleteAccessKey() and updateUserAccessKey()).
THEOREM SuperUserNeverLockedOut == Spec => []SuperUserCanLogIn
  BY CatalogInvariant, InvImpliesProperties, PTL
------------------------------------------------------------------------------
(***************************************************************************)
(* What the statements have made of the accounts.                          *)
(*                                                                         *)
(* Two layers agree on a user when they have the same row and, up to the   *)
(* expiration of the tokens ts, the same credentials.  Agreement is kept   *)
(* by an operation on both layers; operations on the account of one user   *)
(* leave the accounts of the others alone because an ID belongs to one     *)
(* user.                                                                   *)
(***************************************************************************)
Rows(layer, u) == {r \in layer.users : r.id = u}

Loose(c, d, ts) ==
    /\ Alike(c, d)
    /\ c.valid = d.valid \/ (c.kind = "token" /\ c.id \in ts)

Agree(a, b, u, ts) ==
    /\ Rows(a, u) = Rows(b, u)
    /\ \A c \in CredsOf(a, u) : \E d \in CredsOf(b, u) : Loose(c, d, ts)
    /\ \A d \in CredsOf(b, u) : \E c \in CredsOf(a, u) : Loose(c, d, ts)

SameView(a, b, u) == Rows(a, u) = Rows(b, u) /\ CredsOf(a, u) = CredsOf(b, u)

\* Wherever a credential stands, it has an ID that was given out, and a user who
\* has been created; no ID stands for two.
KnownCreds == AllCreds \cup want.creds

KnownOK ==
    /\ want \in Layer /\ ignored \subseteq 1..MaxCredId
    /\ \A kind \in CredKinds : lastCred[kind] <= MaxCredId
    /\ \A c \in KnownCreds : c.id \in 1..lastCred[c.kind] /\ c.user \in usedUsers
    /\ \A c, d \in KnownCreds : Same(c, d) => Alike(c, d)
    /\ UsersOf(want) \subseteq usedUsers

\* Only users that have been looked up have an object.
ObjectsOK ==
    /\ UsersOf(objects) \subseteq cached
    /\ \A c \in objects.creds : c.user \in cached

\* The three places follow the statements.  The registry may lag behind on the
\* expiration of tokens, but only once the object is there.
OneName(layer, u) ==
    \A c, d \in CredsOf(layer, u) : c.kind = d.kind /\ c.name = d.name => Same(c, d)

Follows(u) ==
    /\ Agree(stored, want, u, ignored)
    /\ Agree(registered, want, u, 1..MaxCredId)
    /\ u \in cached => Agree(objects, want, u, ignored)
    /\ u \notin cached => Agree(registered, want, u, ignored)
    /\ OneName(want, u)

FollowInv == KnownOK /\ ObjectsOK /\ \A u \in Users \ uncertain : Follows(u)

\* Agreement is about the rows and the credentials of one user, and about the
\* expiration of fewer tokens it is stronger.
LEMMA AgreeView ==
    ASSUME NEW a, NEW b, NEW x, NEW y, NEW u, NEW ts, NEW us,
           Agree(a, b, u, ts), SameView(x, a, u), SameView(y, b, u),
           \A c \in CredsOf(b, u) : c.kind = "token" /\ c.id \in ts => c.id \in us
    PROVE  Agree(x, y, u, us)
  <1>1. ASSUME NEW c, NEW d \in CredsOf(b, u), Loose(c, d, ts)
        PROVE  Loose(c, d, us)
    BY <1>1 DEF Loose, Alike, Same
  <1> QED BY <1>1 DEF Agree, SameView

LEMMA AgreeSelf ==
    ASSUME NEW a, NEW b, NEW u, NEW ts, SameView(a, b, u)
    PROVE  Agree(a, b, u, ts)
  BY DEF Agree, SameView, Loose, Alike, Same

LEMMA SameViewSelf == \A a, u : SameView(a, a, u)
  BY DEF SameView

\* New rows and credentials, on both sides.
LEMMA AgreeAdd ==
    ASSUME NEW a \in Layer, NEW b \in Layer, NEW u, NEW ts, Agree(a, b, u, ts)
    PROVE  /\ \A r \in UserType : Agree(AddUser(a, r), AddUser(b, r), u, ts)
           /\ \A c \in CredType : Agree(AddCred(a, c), AddCred(b, c), u, ts)
  <1>1. ASSUME NEW r \in UserType
        PROVE  Agree(AddUser(a, r), AddUser(b, r), u, ts)
    <2>1. /\ AddUser(a, r).users = a.users \cup {r} /\ AddUser(a, r).creds = a.creds
          /\ AddUser(b, r).users = b.users \cup {r} /\ AddUser(b, r).creds = b.creds
      BY LayerOps
    <2>2. Rows(AddUser(a, r), u) = Rows(AddUser(b, r), u)
      BY <2>1 DEF Agree, Rows
    <2>3. CredsOf(AddUser(a, r), u) = CredsOf(a, u) /\ CredsOf(AddUser(b, r), u) = CredsOf(b, u)
      BY <2>1 DEF CredsOf
    <2> QED BY <2>2, <2>3 DEF Agree
  <1>2. ASSUME NEW c \in CredType
        PROVE  Agree(AddCred(a, c), AddCred(b, c), u, ts)
    <2>1. /\ AddCred(a, c).users = a.users /\ AddCred(a, c).creds = a.creds \cup {c}
          /\ AddCred(b, c).users = b.users /\ AddCred(b, c).creds = b.creds \cup {c}
      BY LayerOps
    <2>2. Rows(AddCred(a, c), u) = Rows(AddCred(b, c), u)
      BY <2>1 DEF Agree, Rows
    <2>3. /\ CredsOf(AddCred(a, c), u) = CredsOf(a, u) \cup {d \in {c} : d.user = u}
          /\ CredsOf(AddCred(b, c), u) = CredsOf(b, u) \cup {d \in {c} : d.user = u}
      BY <2>1 DEF CredsOf
    <2>4. Loose(c, c, ts)
      BY DEF Loose, Alike, Same
    <2> QED BY <2>2, <2>3, <2>4 DEF Agree
  <1> QED BY <1>1, <1>2

\* Removals of credentials and changes of the state of a user, on both sides.
LEMMA AgreeRemove ==
    ASSUME NEW a \in Layer, NEW b \in Layer, NEW u, NEW ts, Agree(a, b, u, ts), NEW cs
    PROVE  Agree(RemoveCreds(a, cs), RemoveCreds(b, cs), u, ts)
  <1>1. /\ RemoveCreds(a, cs).users = a.users
        /\ RemoveCreds(a, cs).creds = {d \in a.creds : \A c \in cs : ~Same(c, d)}
        /\ RemoveCreds(b, cs).users = b.users
        /\ RemoveCreds(b, cs).creds = {d \in b.creds : \A c \in cs : ~Same(c, d)}
    BY LayerOps
  <1>2. Rows(RemoveCreds(a, cs), u) = Rows(RemoveCreds(b, cs), u)
    BY <1>1 DEF Agree, Rows
  <1>3. /\ CredsOf(RemoveCreds(a, cs), u) = {d \in CredsOf(a, u) : \A c \in cs : ~Same(c, d)}
        /\ CredsOf(RemoveCreds(b, cs), u) = {d \in CredsOf(b, u) : \A c \in cs : ~Same(c, d)}
    BY <1>1 DEF CredsOf
  <1>4. \A d, e : Loose(d, e, ts) => \A c \in cs : Same(c, d) <=> Same(c, e)
    BY DEF Loose, Alike, Same
  <1> QED BY <1>2, <1>3, <1>4 DEF Agree

LEMMA AgreeActive ==
    ASSUME NEW a \in Layer, NEW b \in Layer, NEW u, NEW ts, Agree(a, b, u, ts),
           NEW x, NEW active \in BOOLEAN
    PROVE  Agree(SetActive(a, x, active), SetActive(b, x, active), u, ts)
  <1> DEFINE new(r) == IF r.id = x THEN [r EXCEPT !.active = active] ELSE r
  <1>1. /\ SetActive(a, x, active).users = {new(r) : r \in a.users}
        /\ SetActive(b, x, active).users = {new(r) : r \in b.users}
        /\ SetActive(a, x, active).creds = a.creds /\ SetActive(b, x, active).creds = b.creds
    BY DEF SetActive, Layer
  <1>2. \A r \in a.users \cup b.users : new(r).id = r.id
    BY DEF Layer, UserType
  <1> HIDE DEF new
  <1>3. /\ Rows(SetActive(a, x, active), u) = {new(r) : r \in Rows(a, u)}
        /\ Rows(SetActive(b, x, active), u) = {new(r) : r \in Rows(b, u)}
    BY <1>1, <1>2 DEF Rows
  <1>4. Rows(SetActive(a, x, active), u) = Rows(SetActive(b, x, active), u)
    BY <1>3 DEF Agree
  <1>5. /\ CredsOf(SetActive(a, x, active), u) = CredsOf(a, u)
        /\ CredsOf(SetActive(b, x, active), u) = CredsOf(b, u)
    BY <1>1 DEF CredsOf
  <1> QED BY <1>4, <1>5 DEF Agree
\* The validity of a credential, set on both sides: it agrees then whatever was
\* known of it before.
LEMMA AgreeValid ==
    ASSUME NEW a \in Layer, NEW b \in Layer, NEW u, NEW ts, Agree(a, b, u, ts),
           NEW x, NEW valid \in BOOLEAN, NEW us,
           \A c \in CredsOf(b, u) :
               c.kind = "token" /\ c.id \in ts => c.id \in us \/ Same(x, c)
    PROVE  Agree(SetValid(a, x, valid), SetValid(b, x, valid), u, us)
  <1> DEFINE new(d) == IF Same(x, d) THEN [d EXCEPT !.valid = valid] ELSE d
             sa == SetValid(a, x, valid)
             sb == SetValid(b, x, valid)
  <1>1. /\ sa.users = a.users /\ sa.creds = {new(d) : d \in a.creds}
        /\ sb.users = b.users /\ sb.creds = {new(d) : d \in b.creds}
    BY SetValidOps
  <1>2. ASSUME NEW d \in a.creds \cup b.creds
        PROVE  Alike(new(d), d) /\ new(d).valid = IF Same(x, d) THEN valid ELSE d.valid
    <2>1. /\ Alike([d EXCEPT !.valid = valid], d) /\ [d EXCEPT !.valid = valid].valid = valid
      BY SetValidOps
    <2> QED BY <2>1 DEF Alike, Same
  <1>3. ASSUME NEW c \in CredsOf(a, u), NEW d \in CredsOf(b, u), Loose(c, d, ts)
        PROVE  Loose(new(c), new(d), us)
    <2>1. c \in a.creds /\ d \in b.creds
      BY DEF CredsOf
    <2>2. Alike(new(c), c) /\ Alike(new(d), d) /\ Alike(c, d) /\ (Same(x, c) <=> Same(x, d))
      BY <1>2, <1>3, <2>1 DEF Loose, Alike, Same
    <2>3. /\ new(c).valid = (IF Same(x, c) THEN valid ELSE c.valid)
          /\ new(d).valid = (IF Same(x, d) THEN valid ELSE d.valid)
      BY <1>2, <2>1
    <2> HIDE DEF new
    <2>4. Alike(new(c), new(d)) /\ new(c).kind = c.kind /\ new(c).id = c.id
      BY <2>2 DEF Alike, Same
    <2>5. new(c).valid = new(d).valid \/ (c.kind = "token" /\ c.id \in us)
      <3>1. CASE Same(x, c)
        BY <2>2, <2>3, <3>1
      <3>2. CASE ~Same(x, c)
        BY <1>3, <2>2, <2>3, <3>2 DEF Loose, Alike, Same
      <3> QED BY <3>1, <3>2
    <2> QED BY <2>4, <2>5 DEF Loose
  <1>4. \A d \in a.creds \cup b.creds : new(d).user = d.user
    BY <1>2 DEF Alike
  <1> HIDE DEF new, sa, sb
  <1>5. /\ CredsOf(sa, u) = {new(d) : d \in CredsOf(a, u)}
        /\ CredsOf(sb, u) = {new(d) : d \in CredsOf(b, u)}
    BY <1>1, <1>4 DEF CredsOf
  <1>6. Rows(sa, u) = Rows(sb, u)
    BY <1>1 DEF Agree, Rows
  <1> QED BY <1>3, <1>5, <1>6 DEF Agree, sa, sb

\* The expiration of a token that is not looked at may be set on one side.
LEMMA AgreeIgnored ==
    ASSUME NEW a \in Layer, NEW b \in Layer, NEW u, NEW ts, Agree(a, b, u, ts),
           NEW x, x.kind = "token", x.id \in ts, NEW valid \in BOOLEAN
    PROVE  Agree(a, SetValid(b, x, valid), u, ts)
  <1> DEFINE new(d) == IF Same(x, d) THEN [d EXCEPT !.valid = valid] ELSE d
             sb == SetValid(b, x, valid)
  <1>1. sb.users = b.users /\ sb.creds = {new(d) : d \in b.creds}
    BY SetValidOps
  <1>2. ASSUME NEW d \in b.creds
        PROVE  Alike(new(d), d) /\ (Same(x, d) \/ new(d) = d)
    <2>1. Alike([d EXCEPT !.valid = valid], d)
      BY SetValidOps
    <2> QED BY <2>1 DEF Alike, Same
  <1> HIDE DEF new, sb
  <1>3. ASSUME NEW c, NEW d \in b.creds, Loose(c, d, ts)
        PROVE  Loose(c, new(d), ts)
    BY <1>2, <1>3 DEF Loose, Alike, Same
  <1>4. CredsOf(sb, u) = {new(d) : d \in CredsOf(b, u)}
    BY <1>1, <1>2 DEF CredsOf, Alike
  <1>5. CredsOf(b, u) \subseteq b.creds
    BY DEF CredsOf
  <1>6. Rows(a, u) = Rows(sb, u)
    BY <1>1 DEF Agree, Rows
  <1> QED BY <1>3, <1>4, <1>5, <1>6 DEF Agree, sb

\* What concerns the account of one user leaves the others alone.
LEMMA OtherViews ==
    ASSUME NEW layer \in Layer, NEW u, NEW y, y # u
    PROVE  /\ \A r \in UserType : r.id = u => SameView(AddUser(layer, r), layer, y)
           /\ \A c \in CredType : c.user = u => SameView(AddCred(layer, c), layer, y)
           /\ SameView(Without(layer, u), layer, y)
           /\ \A active \in BOOLEAN : SameView(SetActive(layer, u, active), layer, y)
           /\ \A cs : (\A c \in cs, d \in layer.creds : Same(c, d) => d.user = u)
                          => SameView(RemoveCreds(layer, cs), layer, y)
           /\ \A x : \A valid \in BOOLEAN : (\A d \in layer.creds : Same(x, d) => d.user = u)
                          => SameView(SetValid(layer, x, valid), layer, y)
  <1>1. ASSUME NEW r \in UserType, r.id = u
        PROVE  SameView(AddUser(layer, r), layer, y)
    BY <1>1, LayerOps DEF SameView, Rows, CredsOf
  <1>2. ASSUME NEW c \in CredType, c.user = u
        PROVE  SameView(AddCred(layer, c), layer, y)
    BY <1>2, LayerOps DEF SameView, Rows, CredsOf
  <1>3. SameView(Without(layer, u), layer, y)
    BY LayerOps DEF SameView, Rows, CredsOf
  <1>4. ASSUME NEW active \in BOOLEAN
        PROVE  SameView(SetActive(layer, u, active), layer, y)
    <2> DEFINE new(r) == IF r.id = u THEN [r EXCEPT !.active = active] ELSE r
    <2>1. /\ SetActive(layer, u, active).users = {new(r) : r \in layer.users}
          /\ SetActive(layer, u, active).creds = layer.creds
      BY DEF SetActive, Layer
    <2>2. \A r \in layer.users : new(r).id = r.id /\ (r.id = u \/ new(r) = r)
      BY DEF Layer, UserType
    <2> HIDE DEF new
    <2>3. Rows(SetActive(layer, u, active), y) = Rows(layer, y)
      BY <2>1, <2>2 DEF Rows
    <2> QED BY <2>1, <2>3 DEF SameView, CredsOf
  <1>5. ASSUME NEW cs, \A c \in cs, d \in layer.creds : Same(c, d) => d.user = u
        PROVE  SameView(RemoveCreds(layer, cs), layer, y)
    <2>1. /\ RemoveCreds(layer, cs).users = layer.users
          /\ RemoveCreds(layer, cs).creds = {d \in layer.creds : \A c \in cs : ~Same(c, d)}
      BY LayerOps
    <2> QED BY <1>5, <2>1 DEF SameView, Rows, CredsOf
  <1>6. ASSUME NEW x, NEW valid \in BOOLEAN, \A d \in layer.creds : Same(x, d) => d.user = u
        PROVE  SameView(SetValid(layer, x, valid), layer, y)
    <2> DEFINE new(d) == IF Same(x, d) THEN [d EXCEPT !.valid = valid] ELSE d
    <2>1. /\ SetValid(layer, x, valid).users = layer.users
          /\ SetValid(layer, x, valid).creds = {new(d) : d \in layer.creds}
      BY SetValidOps
    <2>2. ASSUME NEW d \in layer.creds
          PROVE  new(d).user = d.user /\ (d.user = u \/ new(d) = d)
      <3>1. Alike([d EXCEPT !.valid = valid], d)
        BY SetValidOps
      <3> QED BY <1>6, <3>1 DEF Alike
    <2> HIDE DEF new
    <2>3. CredsOf(SetValid(layer, x, valid), y) = CredsOf(layer, y)
      BY <2>1, <2>2 DEF CredsOf
    <2> QED BY <2>1, <2>3 DEF SameView, Rows
  <1> QED BY <1>1, <1>2, <1>3, <1>4, <1>5, <1>6

\* A step that leaves the account of y alone, and forgets no ignored token of y.
LEMMA OthersFollow ==
    ASSUME NEW y \in Users, Follows(y),
           SameView(stored', stored, y), SameView(registered', registered, y),
           SameView(objects', objects, y), SameView(want', want, y),
           y \in cached' <=> y \in cached,
           \A c \in CredsOf(want, y) : c.kind = "token" /\ c.id \in ignored => c.id \in ignored'
    PROVE  Follows(y)'
  <1>1. Agree(stored', want', y, ignored')
    BY AgreeView DEF Follows
  <1>2. Agree(registered', want', y, 1..MaxCredId)
    BY AgreeView DEF Follows
  <1>3. y \in cached => Agree(objects', want', y, ignored')
    BY AgreeView DEF Follows
  <1>4. y \notin cached => Agree(registered', want', y, ignored')
    BY AgreeView DEF Follows
  <1>5. OneName(want', y)
    BY DEF Follows, OneName, SameView
  <1> QED BY <1>1, <1>2, <1>3, <1>4, <1>5 DEF Follows
\* The credentials of a layer come from another one.
From(new, old) == \A c \in new.creds : \E d \in old.creds : Alike(c, d)

LEMMA FromOps ==
    ASSUME NEW layer \in Layer
    PROVE  /\ From(layer, layer)
           /\ \A r \in UserType : From(AddUser(layer, r), layer)
           /\ \A cs : From(RemoveCreds(layer, cs), layer)
           /\ \A u : From(Without(layer, u), layer)
           /\ \A u, active : From(SetActive(layer, u, active), layer)
           /\ \A x : \A valid \in BOOLEAN : From(SetValid(layer, x, valid), layer)
  <1>1. \A c : Alike(c, c)
    BY DEF Alike, Same
  <1>2. \A new : new.creds \subseteq layer.creds => From(new, layer)
    BY <1>1 DEF From
  <1>3. \A r \in UserType : AddUser(layer, r).creds = layer.creds
    BY LayerOps
  <1>4. \A cs : RemoveCreds(layer, cs).creds \subseteq layer.creds
    BY LayerOps
  <1>5. \A u : Without(layer, u).creds \subseteq layer.creds
    BY LayerOps
  <1>6. \A u, active : SetActive(layer, u, active).creds = layer.creds
    BY DEF SetActive, Layer
  <1>7. ASSUME NEW x, NEW valid \in BOOLEAN
        PROVE  From(SetValid(layer, x, valid), layer)
    <2>1. /\ SetValid(layer, x, valid).creds =
                 {IF Same(x, d) THEN [d EXCEPT !.valid = valid] ELSE d : d \in layer.creds}
          /\ \A d \in layer.creds : Alike([d EXCEPT !.valid = valid], d)
      BY SetValidOps
    <2> QED BY <1>1, <2>1 DEF From
  <1> QED BY <1>2, <1>3, <1>4, <1>5, <1>6, <1>7

\* Without new credentials all that is known of them stays.
LEMMA StillKnown ==
    ASSUME FollowInv, want' \in Layer, lastCred' = lastCred, usedUsers \subseteq usedUsers',
           UsersOf(want)' \subseteq usedUsers', ignored' \subseteq 1..MaxCredId,
           \A c \in KnownCreds' : \E d \in KnownCreds : Alike(c, d)
    PROVE  KnownOK'
  <1>1. \A kind \in CredKinds : lastCred'[kind] <= MaxCredId
    BY DEF FollowInv, KnownOK
  <1>2. \A c \in KnownCreds' : c.id \in 1..lastCred'[c.kind] /\ c.user \in usedUsers'
    BY DEF FollowInv, KnownOK, Alike, Same
  <1>3. ASSUME NEW c \in KnownCreds', NEW d \in KnownCreds', Same(c, d)
        PROVE  Alike(c, d)
    <2>1. PICK a \in KnownCreds : Alike(c, a)
      OBVIOUS
    <2>2. PICK b \in KnownCreds : Alike(d, b)
      OBVIOUS
    <2>3. Same(a, b)
      BY <1>3, <2>1, <2>2 DEF Alike, Same
    <2>4. Alike(a, b)
      BY <2>3 DEF FollowInv, KnownOK
    <2> QED BY <1>3, <2>1, <2>2, <2>4 DEF Alike, Same
  <1> QED BY <1>1, <1>2, <1>3 DEF KnownOK

\* The same, place by place.
LEMMA FromKnown ==
    ASSUME FollowInv, want' \in Layer, lastCred' = lastCred, usedUsers \subseteq usedUsers',
           UsersOf(want)' \subseteq usedUsers', ignored' \subseteq 1..MaxCredId,
           From(stored', stored), From(registered', registered), From(objects', objects),
           From(want', want)
    PROVE  KnownOK'
  <1>1. KnownCreds = stored.creds \cup registered.creds \cup objects.creds \cup want.creds
    BY DEF KnownCreds, AllCreds
  <1>2. KnownCreds' = stored'.creds \cup registered'.creds \cup objects'.creds \cup want'.creds
    BY DEF KnownCreds, AllCreds
  <1>3. \A c \in KnownCreds' : \E d \in KnownCreds : Alike(c, d)
    BY <1>1, <1>2 DEF From
  <1> QED BY <1>3, StillKnown

\* A statement on u: the others are left alone, and u follows unless the statement
\* failed half-way.
LEMMA OneUser ==
    ASSUME FollowInv, NEW u, KnownOK', ObjectsOK', uncertain \subseteq uncertain',
           \A y \in Users \ {u} :
               /\ SameView(stored', stored, y) /\ SameView(registered', registered, y)
               /\ SameView(objects', objects, y) /\ SameView(want', want, y)
               /\ y \in cached' <=> y \in cached
               /\ \A c \in CredsOf(want, y) :
                      c.kind = "token" /\ c.id \in ignored => c.id \in ignored',
           u \in Users \ uncertain' => Follows(u)'
    PROVE  FollowInv'
  <1> SUFFICES ASSUME NEW y \in Users \ uncertain'
               PROVE  Follows(y)'
    BY DEF FollowInv
  <1>1. CASE y = u
    BY <1>1
  <1>2. CASE y # u
    <2>1. Follows(y)
      BY DEF FollowInv
    <2> QED BY <1>2, <2>1, OthersFollow
  <1> QED BY <1>1, <1>2

\* The layers are layers.
LEMMA AllLayers ==
    ASSUME AcctInv, FollowInv
    PROVE  /\ stored \in Layer /\ registered \in Layer /\ objects \in Layer /\ want \in Layer
           /\ \A layer \in {stored, registered, objects, want} : layer.creds \subseteq KnownCreds
           /\ \A c, d \in KnownCreds : Same(c, d) => d.user = c.user
  BY DEF AcctInv, LayersOK, FollowInv, KnownOK, KnownCreds, AllCreds, Alike

\* updateUser().
LEMMA AlterUserFollows ==
    ASSUME AcctInv, FollowInv, NEW u \in Users, NEW active \in BOOLEAN, AlterUser(u, active)
    PROVE  FollowInv'
  <1>1. /\ registered' = SetActive(registered, u, active) /\ objects' = SetActive(objects, u, active)
        /\ UNCHANGED <<usedUsers, lastCred, ignored, cached>> /\ u \in cached
        /\ \/ /\ stored' = SetActive(stored, u, active) /\ want' = SetActive(want, u, active)
              /\ uncertain' = uncertain
           \/ UNCHANGED <<stored, want>> /\ uncertain' = uncertain \cup {u}
    BY DEF AlterUser, RowFails, permVars
  <1>2. stored \in Layer /\ registered \in Layer /\ objects \in Layer /\ want \in Layer
    BY AllLayers
  <1>3. ASSUME NEW layer \in Layer
        PROVE  /\ SetActive(layer, u, active) \in Layer
               /\ UsersOf(SetActive(layer, u, active)) = UsersOf(layer)
               /\ SetActive(layer, u, active).creds = layer.creds
               /\ From(SetActive(layer, u, active), layer) /\ From(layer, layer)
    BY FromOps, SetActiveOps
  <1>4. /\ want' \in Layer /\ UsersOf(want)' = UsersOf(want)
        /\ From(stored', stored) /\ From(registered', registered)
        /\ From(objects', objects) /\ From(want', want)
    BY <1>1, <1>2, <1>3 DEF UsersOf
  <1>5. KnownOK'
    BY <1>1, <1>4, FromKnown DEF FollowInv, KnownOK
  <1>6. ObjectsOK'
    <2>1. UsersOf(objects)' = UsersOf(objects) /\ objects'.creds = objects.creds
      BY <1>1, <1>2, <1>3 DEF UsersOf
    <2> QED BY <1>1, <2>1 DEF FollowInv, ObjectsOK
  <1>7. ASSUME NEW y \in Users \ {u}
        PROVE  /\ SameView(stored', stored, y) /\ SameView(registered', registered, y)
               /\ SameView(objects', objects, y) /\ SameView(want', want, y)
    <2>1. \A layer \in Layer : /\ SameView(SetActive(layer, u, active), layer, y)
                               /\ SameView(layer, layer, y)
      BY OtherViews, SameViewSelf
    <2> QED BY <1>1, <1>2, <2>1
  <1>8. ASSUME u \in Users \ uncertain'
        PROVE  Follows(u)'
    <2>1. /\ stored' = SetActive(stored, u, active) /\ want' = SetActive(want, u, active)
          /\ Follows(u)
      BY <1>1, <1>8 DEF FollowInv
    <2>2. Agree(stored', want', u, ignored')
      BY <1>1, <1>2, <2>1, AgreeActive DEF Follows
    <2>3. Agree(registered', want', u, 1..MaxCredId)
      BY <1>1, <1>2, <2>1, AgreeActive DEF Follows
    <2>4. Agree(objects', want', u, ignored')
      BY <1>1, <1>2, <2>1, AgreeActive DEF Follows
    <2>5. OneName(want', u)
      <3>1. CredsOf(want', u) = CredsOf(want, u)
        BY <1>2, <1>3, <2>1 DEF CredsOf
      <3> QED BY <2>1, <3>1 DEF Follows, OneName
    <2> QED BY <1>1, <2>2, <2>3, <2>4, <2>5 DEF Follows
  <1> QED BY <1>1, <1>5, <1>6, <1>7, <1>8, OneUser
\* Removals and updates of credentials of u, place by place: what is known of
\* credentials stays, and the others are left alone.
Trimmed(old, new, cs) ==
    \/ new = old
    \/ \E ds \in SUBSET cs : new = RemoveCreds(old, ds)
    \/ \E c \in cs, valid \in BOOLEAN : new = SetValid(old, c, valid)

LEMMA TrimmedLayer ==
    ASSUME NEW old \in Layer, NEW new, NEW u, NEW cs, Trimmed(old, new, cs),
           \A c \in cs, d \in old.creds : Same(c, d) => d.user = u
    PROVE  /\ new \in Layer /\ new.users = old.users /\ From(new, old)
           /\ \A y : y # u => SameView(new, old, y)
  <1>1. CASE new = old
    BY <1>1, FromOps, SameViewSelf
  <1>2. ASSUME NEW ds \in SUBSET cs, new = RemoveCreds(old, ds)
        PROVE  /\ new \in Layer /\ new.users = old.users /\ From(new, old)
               /\ \A y : y # u => SameView(new, old, y)
    <2>1. new \in Layer /\ new.users = old.users /\ From(new, old)
      BY <1>2, FromOps, LayerOps
    <2>2. ASSUME NEW y, y # u
          PROVE  SameView(new, old, y)
      BY <1>2, <2>2, OtherViews
    <2> QED BY <2>1, <2>2
  <1>3. ASSUME NEW c \in cs, NEW valid \in BOOLEAN, new = SetValid(old, c, valid)
        PROVE  /\ new \in Layer /\ new.users = old.users /\ From(new, old)
               /\ \A y : y # u => SameView(new, old, y)
    <2>1. new \in Layer /\ new.users = old.users
      BY <1>3, SetValidOps
    <2>2. From(new, old)
      BY <1>3, FromOps
    <2>3. ASSUME NEW y, y # u
          PROVE  SameView(new, old, y)
      BY <1>3, <2>3, OtherViews
    <2> QED BY <2>1, <2>2, <2>3
  <1> QED BY <1>1, <1>2, <1>3 DEF Trimmed

\* So for a statement on credentials of u it remains to show that u follows.
LEMMA TrimmedFollows ==
    ASSUME AcctInv, FollowInv, NEW u \in Users, NEW cs \in SUBSET KnownCreds,
           \A c \in cs : c.user = u,
           Trimmed(stored, stored', cs), Trimmed(registered, registered', cs),
           Trimmed(objects, objects', cs), Trimmed(want, want', cs),
           UNCHANGED <<usedUsers, lastCred, cached>>, uncertain \subseteq uncertain',
           ignored' \subseteq 1..MaxCredId,
           \A c \in KnownCreds : c.kind = "token" /\ c.id \in ignored /\ c.user # u =>
                                     c.id \in ignored',
           u \notin uncertain' => Follows(u)'
    PROVE  FollowInv'
  <1>1. /\ stored \in Layer /\ registered \in Layer /\ objects \in Layer /\ want \in Layer
        /\ \A layer \in {stored, registered, objects, want} : layer.creds \subseteq KnownCreds
        /\ \A c, d \in KnownCreds : Same(c, d) => d.user = c.user
    BY AllLayers
  <1>2. ASSUME NEW old \in {stored, registered, objects, want}, NEW new, Trimmed(old, new, cs)
        PROVE  /\ new \in Layer /\ new.users = old.users /\ From(new, old)
               /\ \A y : y # u => SameView(new, old, y)
    <2>1. old \in Layer /\ \A c \in cs, d \in old.creds : Same(c, d) => d.user = u
      BY <1>1
    <2> QED BY <1>2, <2>1, TrimmedLayer
  <1>3. /\ want' \in Layer /\ want'.users = want.users /\ objects'.users = objects.users
        /\ From(stored', stored) /\ From(registered', registered)
        /\ From(objects', objects) /\ From(want', want)
    BY <1>2
  <1>4. KnownOK'
    <2>1. UsersOf(want)' = UsersOf(want)
      BY <1>3 DEF UsersOf
    <2> QED BY <1>3, <2>1, FromKnown DEF FollowInv, KnownOK
  <1>5. ObjectsOK'
    BY <1>3 DEF FollowInv, ObjectsOK, UsersOf, From, Alike
  <1>6. \A y \in Users \ {u} :
            /\ SameView(stored', stored, y) /\ SameView(registered', registered, y)
            /\ SameView(objects', objects, y) /\ SameView(want', want, y)
    BY <1>2
  <1>7. ASSUME NEW y \in Users \ {u}, NEW c \in CredsOf(want, y), c.kind = "token", c.id \in ignored
        PROVE  c.id \in ignored'
    <2>1. c \in KnownCreds /\ c.user # u
      BY <1>1 DEF CredsOf
    <2> QED BY <1>7, <2>1
  <1> QED BY <1>4, <1>5, <1>6, <1>7, OneUser

\* A name stands for one credential after a removal or an update, too.
LEMMA OneNameFrom ==
    ASSUME NEW old, NEW new, NEW u, OneName(old, u), From(new, old)
    PROVE  OneName(new, u)
  BY DEF OneName, From, Alike, Same, CredsOf

\* updateUserAccessKey().
LEMMA AlterKeyFollows ==
    ASSUME AcctInv, FollowInv, NEW u \in Users, NEW n, NEW valid \in BOOLEAN, AlterKey(u, n, valid)
    PROVE  FollowInv'
  <1>1. PICK c \in Named(registered, "key", u, n) :
            /\ registered' = SetValid(registered, c, valid)
            /\ objects' = SetValid(objects, c, valid)
            /\ AlterRow(c, valid)
    BY DEF AlterKey
  <1>2. c \in registered.creds /\ c.kind = "key" /\ c.user = u
    BY DEF Named, CredsOf
  <1>3. UNCHANGED <<usedUsers, lastCred, ignored, cached>> /\ u \in cached
    BY DEF AlterKey, permVars
  <1>4. \/ /\ stored' = SetValid(stored, c, valid) /\ want' = SetValid(want, c, valid)
           /\ uncertain' = uncertain
        \/ UNCHANGED <<stored, want>> /\ uncertain' = uncertain \cup {u}
    BY <1>1, <1>2 DEF AlterRow, RowFails
  <1>5. /\ stored \in Layer /\ registered \in Layer /\ objects \in Layer /\ want \in Layer
        /\ c \in KnownCreds
    BY <1>2, AllLayers
  <1> DEFINE cs == {c}
  <1>6. /\ cs \in SUBSET KnownCreds /\ c \in cs /\ \A x \in cs : x.user = u
    BY <1>2, <1>5
  <1> HIDE DEF cs
  <1>7. /\ Trimmed(stored, stored', cs) /\ Trimmed(registered, registered', cs)
        /\ Trimmed(objects, objects', cs) /\ Trimmed(want, want', cs)
    BY <1>1, <1>4, <1>6 DEF Trimmed
  <1>8. ASSUME u \notin uncertain'
        PROVE  Follows(u)'
    <2>1. /\ stored' = SetValid(stored, c, valid) /\ want' = SetValid(want, c, valid)
          /\ Follows(u)
      BY <1>4, <1>8 DEF FollowInv
    <2>2. ASSUME NEW layer \in Layer, NEW ts, Agree(layer, want, u, ts)
          PROVE  Agree(SetValid(layer, c, valid), want', u, ts)
      BY <1>5, <2>1, <2>2, AgreeValid
    <2>3. Agree(stored', want', u, ignored')
      BY <1>3, <1>5, <2>1, <2>2 DEF Follows
    <2>4. Agree(registered', want', u, 1..MaxCredId)
      BY <1>1, <1>5, <2>1, <2>2 DEF Follows
    <2>5. Agree(objects', want', u, ignored')
      BY <1>1, <1>3, <1>5, <2>1, <2>2 DEF Follows
    <2>6. OneName(want', u)
      BY <1>5, <2>1, FromOps, OneNameFrom DEF Follows
    <2> QED BY <1>3, <2>3, <2>4, <2>5, <2>6 DEF Follows
  <1>9. uncertain \subseteq uncertain' /\ ignored' \subseteq 1..MaxCredId
    BY <1>3, <1>4 DEF FollowInv, KnownOK
  <1> QED BY <1>3, <1>6, <1>7, <1>8, <1>9, TrimmedFollows

\* updateUserToken(): the registry is left behind, which shows at most when the
\* object is made again, and then it has been read from the rows.
LEMMA AlterTokenFollows ==
    ASSUME AcctInv, FollowInv, NEW u \in Users, NEW n, NEW valid \in BOOLEAN,
           AlterToken(u, n, valid)
    PROVE  FollowInv'
  <1>1. PICK c \in Named(registered, "token", u, n) :
            \/ /\ \/ /\ want' = SetValid(want, c, valid)
                     /\ UNCHANGED <<stored, uncertain>>
                  \/ AlterRow(c, valid)
               /\ ignored' = ignored \cup {c.id} /\ UNCHANGED objects
            \/ /\ objects' = SetValid(objects, c, valid)
               /\ AlterRow(c, valid)
               /\ ignored' = ignored \ {c.id}
    BY DEF AlterToken
  <1>2. c \in registered.creds /\ c.kind = "token" /\ c.user = u
    BY DEF Named, CredsOf
  <1>3. UNCHANGED <<registered, usedUsers, lastCred, cached>> /\ u \in cached
    BY DEF AlterToken, permVars
  <1>4. ASSUME AlterRow(c, valid)
        PROVE  \/ /\ stored' = SetValid(stored, c, valid) /\ want' = SetValid(want, c, valid)
                  /\ uncertain' = uncertain
               \/ UNCHANGED <<stored, want>> /\ uncertain' = uncertain \cup {u}
    BY <1>2, <1>4 DEF AlterRow, RowFails
  <1>5. /\ stored \in Layer /\ registered \in Layer /\ objects \in Layer /\ want \in Layer
        /\ c \in KnownCreds
        /\ \A layer \in {stored, registered, objects, want} : layer.creds \subseteq KnownCreds
    BY <1>2, AllLayers
  <1>6. c.id \in 1..MaxCredId
    <2>1. c \in CredType
      BY <1>2, <1>5 DEF Layer
    <2>2. /\ c.id \in 1..lastCred[c.kind] /\ lastCred[c.kind] <= MaxCredId
          /\ lastCred[c.kind] \in Nat /\ MaxCredId \in Nat
      BY <1>5, <2>1, AccountsAssumption DEF FollowInv, KnownOK, CredType, AcctInv, LayersOK
    <2> QED BY <2>2
  <1> DEFINE cs == {c}
  <1>7. /\ cs \in SUBSET KnownCreds /\ c \in cs /\ \A x \in cs : x.user = u
    BY <1>2, <1>5
  <1> HIDE DEF cs
  <1>8. /\ Trimmed(stored, stored', cs) /\ Trimmed(registered, registered', cs)
        /\ Trimmed(objects, objects', cs) /\ Trimmed(want, want', cs)
    BY <1>1, <1>3, <1>4, <1>7 DEF Trimmed
  <1>9. ASSUME u \notin uncertain'
        PROVE  Follows(u)'
    <2>1. /\ want' = SetValid(want, c, valid)
          /\ stored' = SetValid(stored, c, valid) \/ (stored' = stored /\ c.id \in ignored')
          /\ uncertain' = uncertain /\ Follows(u)
      BY <1>1, <1>4, <1>9 DEF FollowInv
    <2>2. /\ objects' = SetValid(objects, c, valid) \/ (objects' = objects /\ c.id \in ignored')
          /\ ignored \ {c.id} \subseteq ignored'
      BY <1>1
    <2>3. \A x \in CredsOf(want, u) : x.kind = "token" /\ x.id \in ignored =>
                                          x.id \in ignored' \/ Same(c, x)
      BY <1>2, <2>2 DEF Same
    <2>4. ASSUME NEW layer \in Layer, Agree(layer, want, u, ignored)
          PROVE  /\ Agree(SetValid(layer, c, valid), want', u, ignored')
                 /\ c.id \in ignored' => Agree(layer, want', u, ignored')
      <3>1. Agree(SetValid(layer, c, valid), want', u, ignored')
        BY <1>5, <2>1, <2>3, <2>4, AgreeValid
      <3>2. ASSUME c.id \in ignored'
            PROVE  Agree(layer, want', u, ignored')
        <4>1. \A x \in CredsOf(want, u) : x.kind = "token" /\ x.id \in ignored => x.id \in ignored'
          BY <2>2, <3>2
        <4>2. Agree(layer, want, u, ignored')
          BY <2>4, <4>1, AgreeView, SameViewSelf
        <4> QED BY <1>2, <1>5, <2>1, <3>2, <4>2, AgreeIgnored
      <3> QED BY <3>1, <3>2
    <2>5. Agree(stored', want', u, ignored')
      BY <1>5, <2>1, <2>4 DEF Follows
    <2>6. Agree(objects', want', u, ignored')
      BY <1>3, <1>5, <2>1, <2>2, <2>4 DEF Follows
    <2>7. Agree(registered', want', u, 1..MaxCredId)
      BY <1>2, <1>3, <1>5, <1>6, <2>1, AgreeIgnored DEF Follows
    <2>8. OneName(want', u)
      BY <1>5, <2>1, FromOps, OneNameFrom DEF Follows
    <2> QED BY <1>3, <2>5, <2>6, <2>7, <2>8 DEF Follows
  <1>10. uncertain \subseteq uncertain' /\ ignored' \subseteq 1..MaxCredId
    BY <1>1, <1>4, <1>6 DEF FollowInv, KnownOK
  <1>11. ASSUME NEW x \in KnownCreds, x.kind = "token", x.id \in ignored, x.user # u
         PROVE  x.id \in ignored'
    <2>1. ~Same(c, x)
      BY <1>2, <1>5, <1>11 DEF FollowInv, KnownOK, Alike
    <2>2. x.id # c.id
      BY <1>2, <1>11, <2>1 DEF Same
    <2> QED BY <1>1, <1>11, <2>2
  <1> QED BY <1>3, <1>7, <1>8, <1>9, <1>10, <1>11, TrimmedFollows
\* dropUserAccessKey() and dropUserToken(): what the object has under the name is
\* what the registry has under it.
LEMMA DropCredFollows ==
    ASSUME AcctInv, FollowInv, NEW u \in Users, NEW kind, NEW n, DropCred(kind, u, n)
    PROVE  FollowInv'
  <1> DEFINE mine == Named(objects, kind, u, n)
  <1>1. PICK c \in Named(registered, kind, u, n) :
            /\ registered' = RemoveCreds(registered, {c})
            /\ \/ uncertain' = uncertain \cup {u} /\ UNCHANGED <<objects, stored, want>>
               \/ /\ objects' = RemoveCreds(objects, mine)
                  /\ \/ /\ stored' = RemoveCreds(stored, {c}) /\ want' = RemoveCreds(want, {c})
                        /\ uncertain' = uncertain
                     \/ UNCHANGED <<stored, want>> /\ uncertain' = uncertain \cup {u}
    BY DEF DropCred, RowFails, DroppedRow
  <1>2. c \in registered.creds /\ c.kind = kind /\ c.user = u /\ c.name = n
    BY DEF Named, CredsOf
  <1>3. UNCHANGED <<usedUsers, lastCred, ignored, cached>> /\ u \in cached
    BY DEF DropCred, permVars
  <1>4. /\ stored \in Layer /\ registered \in Layer /\ objects \in Layer /\ want \in Layer
        /\ c \in KnownCreds /\ objects.creds \subseteq KnownCreds
    BY <1>2, AllLayers
  <1>5. mine = {d \in objects.creds : d.user = u /\ d.kind = kind /\ d.name = n}
    BY DEF Named, CredsOf
  <1> HIDE DEF mine
  <1> DEFINE cs == {c} \cup mine
  <1>6. /\ cs \in SUBSET KnownCreds /\ {c} \in SUBSET cs /\ mine \in SUBSET cs
        /\ \A x \in cs : x.user = u
    BY <1>2, <1>4, <1>5
  <1> HIDE DEF cs
  <1>7. /\ Trimmed(stored, stored', cs) /\ Trimmed(registered, registered', cs)
        /\ Trimmed(objects, objects', cs) /\ Trimmed(want, want', cs)
    BY <1>1, <1>6 DEF Trimmed
  <1>8. ASSUME u \notin uncertain'
        PROVE  Follows(u)'
    <2>1. /\ stored' = RemoveCreds(stored, {c}) /\ want' = RemoveCreds(want, {c})
          /\ objects' = RemoveCreds(objects, mine) /\ Follows(u)
      BY <1>1, <1>8 DEF FollowInv
    <2>2. ASSUME NEW d \in objects.creds
          PROVE  (\E e \in mine : Same(e, d)) <=> Same(c, d)
      <3>1. ASSUME NEW e \in mine, Same(e, d)
            PROVE  Same(c, d)
        <4>1. e \in CredsOf(objects, u) /\ c \in CredsOf(registered, u)
          BY <1>2, <1>5 DEF CredsOf
        <4>2. PICK x \in CredsOf(want, u) : Alike(e, x)
          BY <1>3, <2>1, <4>1 DEF Follows, Agree, Loose
        <4>3. PICK y \in CredsOf(want, u) : Alike(c, y)
          BY <2>1, <4>1 DEF Follows, Agree, Loose
        <4>4. x.kind = y.kind /\ x.name = y.name
          BY <1>2, <1>5, <4>2, <4>3 DEF Alike, Same
        <4>5. Same(x, y)
          BY <2>1, <4>4 DEF Follows, OneName
        <4> QED BY <3>1, <4>2, <4>3, <4>5 DEF Alike, Same
      <3>2. ASSUME Same(c, d)
            PROVE  d \in mine /\ Same(d, d)
        <4>1. Alike(c, d)
          BY <1>4, <3>2 DEF FollowInv, KnownOK
        <4> QED BY <1>2, <1>5, <4>1 DEF Alike, Same
      <3> QED BY <3>1, <3>2
    <2>3. objects' = RemoveCreds(objects, {c})
      <3>1. {d \in objects.creds : \A e \in mine : ~Same(e, d)}
              = {d \in objects.creds : \A e \in {c} : ~Same(e, d)}
        BY <2>2
      <3> QED BY <2>1, <3>1 DEF RemoveCreds
    <2>4. ASSUME NEW layer \in Layer, NEW ts, Agree(layer, want, u, ts)
          PROVE  Agree(RemoveCreds(layer, {c}), want', u, ts)
      BY <1>4, <2>1, <2>4, AgreeRemove
    <2>5. Agree(stored', want', u, ignored')
      BY <1>3, <1>4, <2>1, <2>4 DEF Follows
    <2>6. Agree(registered', want', u, 1..MaxCredId)
      BY <1>1, <1>4, <2>1, <2>4 DEF Follows
    <2>7. Agree(objects', want', u, ignored')
      BY <1>3, <1>4, <2>1, <2>3, <2>4 DEF Follows
    <2>8. OneName(want', u)
      BY <1>4, <2>1, FromOps, OneNameFrom DEF Follows
    <2> QED BY <1>3, <2>5, <2>6, <2>7, <2>8 DEF Follows
  <1>9. uncertain \subseteq uncertain' /\ ignored' \subseteq 1..MaxCredId
    BY <1>1, <1>3 DEF FollowInv, KnownOK
  <1> QED BY <1>3, <1>6, <1>7, <1>8, <1>9, TrimmedFollows

\* createUserAccessKey() and createUserToken(): the ID is new, and so is the name
\* wherever the user's credentials stand.
LEMMA CreateCredFollows ==
    ASSUME AcctInv, FollowInv, NEW kind \in CredKinds, NEW u \in Users, NEW n \in CredNames[kind],
           NEW valid \in BOOLEAN, CreateCred(kind, u, n, valid)
    PROVE  FollowInv'
  <1>1. PICK c : c = Cred(kind, lastCred[kind] + 1, u, n, valid)
    OBVIOUS
  <1>2. /\ u \in UsersOf(registered) /\ u \in cached
        /\ lastCred[kind] < MaxCredId
        /\ lastCred' = [lastCred EXCEPT ![kind] = @ + 1]
        /\ UNCHANGED <<usedUsers, ignored, cached>>
    BY DEF CreateCred, permVars
  <1>3. \/ UNCHANGED <<stored, registered, objects, want, uncertain>>
        \/ /\ Named(objects, kind, u, n) = {}
           /\ objects' = AddCred(objects, c) /\ registered' = Inserted(registered, c)
           /\ \/ /\ stored' = AddCred(stored, c) /\ want' = AddCred(want, c)
                 /\ uncertain' = uncertain
              \/ UNCHANGED <<stored, want>> /\ uncertain' = uncertain \cup {u}
    BY <1>1 DEF CreateCred, RowFails
  <1>4. /\ stored \in Layer /\ registered \in Layer /\ objects \in Layer /\ want \in Layer
        /\ \A layer \in {stored, registered, objects, want} : layer.creds \subseteq KnownCreds
        /\ KnownCreds = stored.creds \cup registered.creds \cup objects.creds \cup want.creds
    BY AllLayers DEF KnownCreds, AllCreds
  <1>5. /\ lastCred \in [CredKinds -> Nat] /\ lastCred[kind] + 1 \in Nat /\ MaxCredId \in Nat
        /\ \A k \in CredKinds : lastCred[k] <= MaxCredId
    BY AccountsAssumption DEF AcctInv, LayersOK, FollowInv, KnownOK
  <1>6. /\ c \in CredType /\ c.kind = kind /\ c.id = lastCred[kind] + 1 /\ c.user = u
        /\ c.name = n
    BY <1>1, <1>5 DEF Cred, CredType
  <1>7. ASSUME NEW d \in KnownCreds
        PROVE  /\ d.id \in 1..lastCred[d.kind] /\ d.kind \in CredKinds /\ d.user \in usedUsers
               /\ ~Same(c, d) /\ ~Same(d, c)
    <2>1. d.id \in 1..lastCred[d.kind] /\ d.user \in usedUsers
      BY DEF FollowInv, KnownOK
    <2>2. d.kind \in CredKinds
      BY <1>4 DEF Layer, CredType
    <2>3. d.kind = kind => d.id # c.id
      BY <1>5, <1>6, <2>1
    <2> QED BY <1>6, <2>1, <2>2, <2>3 DEF Same
  <1>8. ASSUME NEW old \in {stored, registered, objects, want}, NEW new,
               new = old \/ new = AddCred(old, c)
        PROVE  /\ new \in Layer /\ new.users = old.users /\ new.creds \subseteq old.creds \cup {c}
               /\ \A y : y # u => SameView(new, old, y)
    <2>1. old \in Layer
      BY <1>4
    <2>2. CASE new = old
      BY <2>1, <2>2, SameViewSelf
    <2>3. CASE new = AddCred(old, c)
      <3>1. new \in Layer /\ new.users = old.users /\ new.creds \subseteq old.creds \cup {c}
        BY <1>6, <2>1, <2>3, LayerOps
      <3>2. \A y : y # u => SameView(new, old, y)
        BY <1>6, <2>1, <2>3, OtherViews
      <3> QED BY <3>1, <3>2
    <2> QED BY <1>8, <2>2, <2>3
  <1>9. /\ stored' = stored \/ stored' = AddCred(stored, c)
        /\ registered' = registered \/ registered' = AddCred(registered, c)
        /\ objects' = objects \/ objects' = AddCred(objects, c)
        /\ want' = want \/ want' = AddCred(want, c)
    BY <1>3 DEF Inserted
  <1>10. /\ want' \in Layer /\ want'.users = want.users /\ objects'.users = objects.users
         /\ objects'.creds \subseteq objects.creds \cup {c}
    BY <1>8, <1>9
  <1>11. KnownCreds' \subseteq KnownCreds \cup {c}
    <2>1. KnownCreds' = stored'.creds \cup registered'.creds \cup objects'.creds \cup want'.creds
      BY DEF KnownCreds, AllCreds
    <2> QED BY <1>4, <1>8, <1>9, <2>1
  <1>12. KnownOK'
    <2>1. \A k \in CredKinds : lastCred'[k] <= MaxCredId /\ lastCred[k] <= lastCred'[k]
      BY <1>2, <1>5
    <2>2. ASSUME NEW d \in KnownCreds'
          PROVE  d.id \in 1..lastCred'[d.kind] /\ d.user \in usedUsers'
      <3>1. CASE d = c
        BY <1>2, <1>5, <1>6, <3>1 DEF AcctInv, UsersKnown
      <3>2. CASE d \in KnownCreds
        <4>1. lastCred[d.kind] \in Nat /\ lastCred'[d.kind] \in Nat
          BY <1>2, <1>5, <1>7, <3>2
        <4> QED BY <1>2, <1>7, <2>1, <3>2, <4>1
      <3> QED BY <1>11, <3>1, <3>2
    <2>3. ASSUME NEW d \in KnownCreds', NEW e \in KnownCreds', Same(d, e)
          PROVE  Alike(d, e)
      <3>1. CASE d = c /\ e = c
        BY <3>1 DEF Alike, Same
      <3>2. CASE d \in KnownCreds /\ e \in KnownCreds
        BY <2>3, <3>2 DEF FollowInv, KnownOK
      <3> QED BY <1>7, <1>11, <2>3, <3>1, <3>2
    <2>4. UsersOf(want)' \subseteq usedUsers' /\ ignored' \subseteq 1..MaxCredId
      BY <1>2, <1>10 DEF UsersOf, FollowInv, KnownOK
    <2> QED BY <1>10, <2>1, <2>2, <2>3, <2>4 DEF KnownOK
  <1>13. ObjectsOK'
    BY <1>2, <1>6, <1>10 DEF FollowInv, ObjectsOK, UsersOf
  <1>14. \A y \in Users \ {u} :
            /\ SameView(stored', stored, y) /\ SameView(registered', registered, y)
            /\ SameView(objects', objects, y) /\ SameView(want', want, y)
    BY <1>8, <1>9
  <1>15. ASSUME u \in Users \ uncertain'
         PROVE  Follows(u)'
    <2>1. CASE UNCHANGED <<stored, registered, objects, want, uncertain>>
      <3>1. Follows(u)
        BY <1>15, <2>1 DEF FollowInv
      <3> QED BY <1>2, <2>1, <3>1, OthersFollow, SameViewSelf
    <2>2. CASE /\ Named(objects, kind, u, n) = {}
               /\ objects' = AddCred(objects, c) /\ registered' = Inserted(registered, c)
               /\ stored' = AddCred(stored, c) /\ want' = AddCred(want, c)
               /\ uncertain' = uncertain
      <3>1. Follows(u)
        BY <1>15, <2>2 DEF FollowInv
      <3>2. ASSUME NEW x \in CredsOf(want, u), x.kind = kind, x.name = n
            PROVE  FALSE
        <4>1. PICK e \in CredsOf(objects, u) : Alike(e, x)
          BY <1>2, <3>1 DEF Follows, Agree, Loose
        <4>2. e \in Named(objects, kind, u, n)
          BY <3>2, <4>1 DEF Named, Alike, Same
        <4> QED BY <2>2, <4>2
      <3>3. registered' = AddCred(registered, c)
        <4>1. ASSUME NEW e \in Named(registered, kind, u, n)
              PROVE  FALSE
          <5>1. e \in CredsOf(registered, u) /\ e.kind = kind /\ e.name = n
            BY DEF Named
          <5>2. PICK x \in CredsOf(want, u) : Alike(e, x)
            BY <3>1, <5>1 DEF Follows, Agree, Loose
          <5> QED BY <3>2, <5>1, <5>2 DEF Alike, Same
        <4>2. Named(registered, c.kind, c.user, c.name) = {}
          BY <1>6, <4>1
        <4> QED BY <2>2, <4>2 DEF Inserted
      <3>4. ASSUME NEW layer \in Layer, NEW ts, Agree(layer, want, u, ts)
            PROVE  Agree(AddCred(layer, c), want', u, ts)
        BY <1>4, <1>6, <2>2, <3>4, AgreeAdd
      <3>5. Agree(stored', want', u, ignored')
        BY <1>2, <1>4, <2>2, <3>1, <3>4 DEF Follows
      <3>6. Agree(registered', want', u, 1..MaxCredId)
        BY <1>4, <3>1, <3>3, <3>4 DEF Follows
      <3>7. Agree(objects', want', u, ignored')
        BY <1>2, <1>4, <2>2, <3>1, <3>4 DEF Follows
      <3>8. OneName(want', u)
        <4>1. CredsOf(want', u) = CredsOf(want, u) \cup {c}
          BY <1>4, <1>6, <2>2, LayerOps DEF CredsOf
        <4>2. Same(c, c)
          BY DEF Same
        <4>3. \A x \in CredsOf(want, u) : ~(x.kind = c.kind /\ x.name = c.name)
          BY <1>6, <3>2
        <4> QED BY <3>1, <4>1, <4>2, <4>3 DEF Follows, OneName
      <3> QED BY <1>2, <3>5, <3>6, <3>7, <3>8 DEF Follows
    <2> QED BY <1>3, <1>15, <2>1, <2>2
  <1>16. uncertain \subseteq uncertain'
    BY <1>3
  <1> QED BY <1>2, <1>12, <1>13, <1>14, <1>15, <1>16, OneUser
\* createUser(): nothing is left of a user whose ID is new.
LEMMA CreateUserFollows ==
    ASSUME AcctInv, PermInv, FollowInv, NEW u \in Users, NEW n \in UserNames,
           NEW active \in BOOLEAN, CreateUser(u, n, active)
    PROVE  FollowInv'
  <1>1. PICK r : r = UserRow(u, n, active)
    OBVIOUS
  <1>2. /\ u \notin usedUsers /\ usedUsers' = usedUsers \cup {u}
        /\ registered' = AddUser(registered, r) /\ UNCHANGED <<lastCred, ignored>>
        /\ \/ /\ stored' = AddUser(stored, r) /\ want' = AddUser(want, r)
              /\ objects' = AddUser(objects, r) /\ cached' = cached \cup {u}
              /\ uncertain' = uncertain
           \/ /\ UNCHANGED <<stored, want, objects, cached>>
              /\ uncertain' = uncertain \cup {u}
    BY <1>1 DEF CreateUser, RowFails
  <1>3. r \in UserType /\ r.id = u
    BY <1>1 DEF UserRow, UserType
  <1>4. stored \in Layer /\ registered \in Layer /\ objects \in Layer /\ want \in Layer
    BY AllLayers
  <1>5. ASSUME NEW layer \in Layer
        PROVE  /\ AddUser(layer, r) \in Layer /\ From(AddUser(layer, r), layer) /\ From(layer, layer)
               /\ AddUser(layer, r).users = layer.users \cup {r}
               /\ AddUser(layer, r).creds = layer.creds
               /\ \A y : y # u => SameView(AddUser(layer, r), layer, y) /\ SameView(layer, layer, y)
    BY <1>3, LayerOps, FromOps, OtherViews, SameViewSelf
  <1>6. /\ want' \in Layer /\ want'.users \subseteq want.users \cup {r}
        /\ From(stored', stored) /\ From(registered', registered)
        /\ From(objects', objects) /\ From(want', want)
    BY <1>2, <1>4, <1>5
  <1>7. KnownOK'
    <2>1. UsersOf(want)' \subseteq usedUsers'
      BY <1>2, <1>3, <1>6 DEF UsersOf, FollowInv, KnownOK
    <2>2. ignored' \subseteq 1..MaxCredId /\ usedUsers \subseteq usedUsers'
      BY <1>2 DEF FollowInv, KnownOK
    <2> QED BY <1>2, <1>6, <2>1, <2>2, FromKnown
  <1>8. ObjectsOK'
    <2>1. \/ /\ objects'.users = objects.users \cup {r} /\ objects'.creds = objects.creds
             /\ cached' = cached \cup {u}
          \/ UNCHANGED <<objects, cached>>
      BY <1>2, <1>4, <1>5
    <2> QED BY <1>3, <2>1 DEF FollowInv, ObjectsOK, UsersOf
  <1>9. \A y \in Users \ {u} :
            /\ SameView(stored', stored, y) /\ SameView(registered', registered, y)
            /\ SameView(objects', objects, y) /\ SameView(want', want, y)
    BY <1>2, <1>4, <1>5
  <1>10. ASSUME u \in Users \ uncertain'
         PROVE  Follows(u)'
    <2>1. /\ stored' = AddUser(stored, r) /\ want' = AddUser(want, r)
          /\ objects' = AddUser(objects, r) /\ cached' = cached \cup {u} /\ Follows(u)
      BY <1>2, <1>10 DEF FollowInv
    <2>2. ASSUME NEW layer \in Layer, NEW ts, Agree(layer, want, u, ts)
          PROVE  Agree(AddUser(layer, r), want', u, ts)
      BY <1>3, <1>4, <2>1, <2>2, AgreeAdd
    <2>3. Agree(stored', want', u, ignored')
      BY <1>2, <1>4, <2>1, <2>2 DEF Follows
    <2>4. Agree(registered', want', u, 1..MaxCredId)
      BY <1>2, <1>4, <2>1, <2>2 DEF Follows
    <2>5. Agree(objects', want', u, ignored')
      <3>1. u \notin cached
        BY <1>2 DEF PermInv, UsersOK
      <3>2. Rows(objects, u) = {} /\ CredsOf(objects, u) = {}
        BY <3>1 DEF FollowInv, ObjectsOK, Rows, CredsOf, UsersOf
      <3>3. Rows(want, u) = {}
        BY <1>2 DEF FollowInv, KnownOK, Rows, UsersOf
      <3>4. CredsOf(want, u) = {}
        BY <1>2 DEF FollowInv, KnownOK, KnownCreds, CredsOf
      <3>5. Agree(objects, want, u, ignored)
        BY <3>2, <3>3, <3>4, AgreeSelf DEF SameView
      <3> QED BY <1>2, <1>4, <2>1, <2>2, <3>5
    <2>6. OneName(want', u)
      <3>1. CredsOf(want', u) = CredsOf(want, u)
        BY <1>4, <1>5, <2>1 DEF CredsOf
      <3> QED BY <2>1, <3>1 DEF Follows, OneName
    <2> QED BY <2>1, <2>3, <2>4, <2>5, <2>6 DEF Follows
  <1>11. /\ uncertain \subseteq uncertain'
         /\ \A y \in Users \ {u} : y \in cached' <=> y \in cached
    BY <1>2
  <1> QED BY <1>2, <1>7, <1>8, <1>9, <1>10, <1>11, OneUser

\* dropUser(): the object knows every key and token of which there is a row.
LEMMA DropUserFollows ==
    ASSUME AcctInv, FollowInv, NEW u \in Users, DropUser(u)
    PROVE  FollowInv'
  <1> DEFINE mine == CredsOf(objects, u)
  <1>1. /\ u \in cached /\ registered' = Without(registered, u) /\ objects' = Without(objects, u)
        /\ cached' = cached \ {u} /\ UNCHANGED <<usedUsers, lastCred, ignored>>
        /\ \/ /\ stored' = [RemoveCreds(stored, mine) EXCEPT !.users = {r \in @ : r.id # u}]
              /\ want' = Without(want, u) /\ uncertain' = uncertain
           \/ /\ \E gone \in SUBSET mine : stored' = RemoveCreds(stored, gone)
              /\ uncertain' = uncertain \cup {u} /\ want' = want
    BY DEF DropUser
  <1>2. /\ stored \in Layer /\ registered \in Layer /\ objects \in Layer /\ want \in Layer
        /\ \A layer \in {stored, registered, objects, want} : layer.creds \subseteq KnownCreds
        /\ \A c, d \in KnownCreds : Same(c, d) => d.user = c.user
    BY AllLayers
  <1>3. mine = {d \in objects.creds : d.user = u}
    BY DEF CredsOf
  <1> HIDE DEF mine
  <1>4. ASSUME NEW layer \in Layer
        PROVE  /\ Without(layer, u) \in Layer /\ From(Without(layer, u), layer) /\ From(layer, layer)
               /\ Without(layer, u).users = {r \in layer.users : r.id # u}
               /\ Without(layer, u).creds = {c \in layer.creds : c.user # u}
               /\ \A y : y # u => SameView(Without(layer, u), layer, y) /\ SameView(layer, layer, y)
    BY LayerOps, FromOps, OtherViews, SameViewSelf
  <1>5. ASSUME NEW gone \in SUBSET mine
        PROVE  /\ RemoveCreds(stored, gone) \in Layer
               /\ RemoveCreds(stored, gone).users = stored.users
               /\ RemoveCreds(stored, gone).creds = {d \in stored.creds : \A c \in gone : ~Same(c, d)}
               /\ From(RemoveCreds(stored, gone), stored)
               /\ \A y : y # u => SameView(RemoveCreds(stored, gone), stored, y)
    <2>1. \A c \in gone, d \in stored.creds : Same(c, d) => d.user = u
      BY <1>2, <1>3
    <2>2. /\ RemoveCreds(stored, gone) \in Layer /\ RemoveCreds(stored, gone).users = stored.users
          /\ RemoveCreds(stored, gone).creds = {d \in stored.creds : \A c \in gone : ~Same(c, d)}
      BY <1>2, LayerOps
    <2>3. From(RemoveCreds(stored, gone), stored)
      BY <1>2, FromOps
    <2>4. \A y : y # u => SameView(RemoveCreds(stored, gone), stored, y)
      BY <1>2, <2>1, OtherViews
    <2> QED BY <2>2, <2>3, <2>4
  <1>6. /\ From(stored', stored)
        /\ \A y : y # u => SameView(stored', stored, y)
    <2>1. CASE \E gone \in SUBSET mine : stored' = RemoveCreds(stored, gone)
      BY <1>5, <2>1
    <2>2. CASE stored' = [RemoveCreds(stored, mine) EXCEPT !.users = {r \in @ : r.id # u}]
      <3>1. PICK l \in Layer : l = RemoveCreds(stored, mine)
        BY <1>5
      <3>2. stored' = [l EXCEPT !.users = {r \in @ : r.id # u}]
        BY <2>2, <3>1
      <3>3. stored'.users = {r \in l.users : r.id # u} /\ stored'.creds = l.creds
        BY <3>2 DEF Layer
      <3>4. From(l, stored) /\ \A y : y # u => SameView(l, stored, y)
        BY <1>5, <3>1
      <3> QED BY <3>3, <3>4 DEF From, SameView, Rows, CredsOf
    <2> QED BY <1>1, <2>1, <2>2
  <1>7. /\ want' \in Layer /\ want'.users \subseteq want.users
        /\ From(registered', registered) /\ From(objects', objects) /\ From(want', want)
    BY <1>1, <1>2, <1>4
  <1>8. KnownOK'
    <2>1. UsersOf(want)' \subseteq usedUsers'
      BY <1>1, <1>7 DEF UsersOf, FollowInv, KnownOK
    <2>2. ignored' \subseteq 1..MaxCredId
      BY <1>1 DEF FollowInv, KnownOK
    <2> QED BY <1>1, <1>6, <1>7, <2>1, <2>2, FromKnown
  <1>9. ObjectsOK'
    <2>1. /\ objects'.users = {r \in objects.users : r.id # u}
          /\ objects'.creds = {c \in objects.creds : c.user # u}
      BY <1>1, <1>2, <1>4
    <2> QED BY <1>1, <2>1 DEF FollowInv, ObjectsOK, UsersOf
  <1>10. \A y \in Users \ {u} :
            /\ SameView(stored', stored, y) /\ SameView(registered', registered, y)
            /\ SameView(objects', objects, y) /\ SameView(want', want, y)
    BY <1>1, <1>2, <1>4, <1>6
  <1>11. ASSUME u \in Users \ uncertain'
         PROVE  Follows(u)'
    <2>1. /\ stored' = [RemoveCreds(stored, mine) EXCEPT !.users = {r \in @ : r.id # u}]
          /\ want' = Without(want, u) /\ Follows(u)
      BY <1>1, <1>11 DEF FollowInv
    <2>2. Rows(want', u) = {} /\ CredsOf(want', u) = {}
      BY <1>2, <1>4, <2>1 DEF Rows, CredsOf
    <2>3. Rows(registered', u) = {} /\ CredsOf(registered', u) = {}
      BY <1>1, <1>2, <1>4 DEF Rows, CredsOf
    <2>4. Rows(stored', u) = {} /\ CredsOf(stored', u) = {}
      <3>1. PICK l \in Layer : l = RemoveCreds(stored, mine)
        BY <1>5
      <3>2. stored' = [l EXCEPT !.users = {r \in @ : r.id # u}]
        BY <2>1, <3>1
      <3>3. stored'.users = {r \in l.users : r.id # u} /\ stored'.creds = l.creds
        BY <3>2 DEF Layer
      <3>4. l.creds = {d \in stored.creds : \A c \in mine : ~Same(c, d)}
        BY <1>5, <3>1
      <3>5. ASSUME NEW d \in stored.creds, d.user = u
            PROVE  \E c \in mine : Same(c, d)
        <4>1. d \in CredsOf(stored, u)
          BY <3>5 DEF CredsOf
        <4>2. PICK x \in CredsOf(want, u) : Alike(d, x)
          BY <2>1, <4>1 DEF Follows, Agree, Loose
        <4>3. PICK c \in CredsOf(objects, u) : Alike(c, x)
          BY <1>1, <2>1 DEF Follows, Agree, Loose
        <4> QED BY <4>2, <4>3 DEF mine, Alike, Same
      <3> QED BY <3>3, <3>4, <3>5 DEF Rows, CredsOf
    <2>5. SameView(stored', want', u) /\ SameView(registered', want', u)
      BY <2>2, <2>3, <2>4 DEF SameView
    <2>6. /\ Agree(stored', want', u, ignored') /\ Agree(registered', want', u, 1..MaxCredId)
          /\ Agree(registered', want', u, ignored')
      BY <2>5, AgreeSelf
    <2>7. OneName(want', u)
      BY <2>2 DEF OneName
    <2> QED BY <1>1, <2>6, <2>7 DEF Follows
  <1>12. /\ uncertain \subseteq uncertain'
         /\ \A y \in Users \ {u} : y \in cached' <=> y \in cached
    BY <1>1
  <1> QED BY <1>1, <1>8, <1>9, <1>10, <1>11, <1>12, OneUser

\* A lookup: the object is made of what the registry has, which has not been left
\* behind yet.
LEMMA LookUpFollows ==
    ASSUME AcctInv, FollowInv, NEW u \in Users, LookUpAccount(u)
    PROVE  FollowInv'
  <1>1. /\ u \notin cached /\ cached' = cached \cup {u}
        /\ objects' = [users |-> objects.users \cup Only(registered, {u}).users,
                       creds |-> objects.creds \cup CredsOf(registered, u)]
        /\ UNCHANGED <<stored, registered, usedUsers, lastCred, want, uncertain, ignored>>
    BY DEF LookUpAccount, LookUpUser
  <1>2. stored \in Layer /\ registered \in Layer /\ objects \in Layer /\ want \in Layer
    BY AllLayers
  <1>3. /\ objects'.users = objects.users \cup {r \in registered.users : r.id = u}
        /\ objects'.creds = objects.creds \cup {c \in registered.creds : c.user = u}
    <2>1. Only(registered, {u}).users = {r \in registered.users : r.id \in {u}}
      BY <1>2, LayerOps
    <2> QED BY <1>1, <2>1 DEF CredsOf
  <1>4. KnownOK'
    <2>1. KnownCreds' \subseteq KnownCreds
      BY <1>1, <1>3 DEF KnownCreds, AllCreds
    <2>2. \A c \in KnownCreds' : \E d \in KnownCreds : Alike(c, d)
      BY <2>1 DEF Alike, Same
    <2>3. want' \in Layer /\ UsersOf(want)' \subseteq usedUsers' /\ ignored' \subseteq 1..MaxCredId
      BY <1>1, <1>2 DEF UsersOf, FollowInv, KnownOK
    <2> QED BY <1>1, <2>2, <2>3, StillKnown
  <1>5. ObjectsOK'
    BY <1>1, <1>3 DEF FollowInv, ObjectsOK, UsersOf
  <1>6. \A y \in Users \ {u} :
            /\ SameView(stored', stored, y) /\ SameView(registered', registered, y)
            /\ SameView(objects', objects, y) /\ SameView(want', want, y)
    BY <1>1, <1>3 DEF SameView, Rows, CredsOf
  <1>7. ASSUME u \in Users \ uncertain'
        PROVE  Follows(u)'
    <2>1. Follows(u)
      BY <1>1, <1>7 DEF FollowInv
    <2>2. Rows(objects, u) = {} /\ CredsOf(objects, u) = {}
      BY <1>1 DEF FollowInv, ObjectsOK, Rows, CredsOf, UsersOf
    <2>3. SameView(objects', registered, u)
      BY <1>3, <2>2 DEF SameView, Rows, CredsOf
    <2>4. Agree(registered, want, u, ignored)
      BY <1>1, <2>1 DEF Follows
    <2>5. Agree(objects', want', u, ignored')
      BY <1>1, <2>3, <2>4, AgreeView, SameViewSelf
    <2> QED BY <1>1, <2>1, <2>5 DEF Follows
  <1> QED BY <1>1, <1>4, <1>5, <1>6, <1>7, OneUser
\* A start: of a user without rows that were not taken the registry has what the
\* rows have, and of one whose statements all succeeded these are the wanted ones.
LEMMA RestartFollows ==
    ASSUME AcctInv, FollowInv, AccountsRestart, cached' = {Super}
    PROVE  FollowInv'
  <1> DEFINE read == ReadAccounts
             kept == Users \ uncertain
  <1>1. /\ registered' = read /\ objects' = Only(read, {Super})
        /\ want' = [users |-> Only(want, kept).users \cup Only(read, uncertain).users,
                    creds |-> Only(want, kept).creds \cup Only(read, uncertain).creds]
        /\ uncertain' = {u \in Users : Only(stored, {u}) # Only(read, {u})}
        /\ UNCHANGED <<stored, usedUsers, lastCred, ignored>>
    BY DEF AccountsRestart
  <1>2. /\ stored \in Layer /\ want \in Layer
        /\ KnownCreds = stored.creds \cup registered.creds \cup objects.creds \cup want.creds
    BY AllLayers DEF KnownCreds, AllCreds
  <1>3. /\ read.users \subseteq stored.users
        /\ read.creds \subseteq stored.creds
        /\ \A c \in read.creds : \A d \in Named(stored, c.kind, c.user, c.name) : d.id >= c.id
        /\ read \in Layer
    BY <1>2 DEF ReadAccounts, Layer
  <1> HIDE DEF read
  <1>4. /\ objects'.users = {r \in read.users : r.id = Super}
        /\ objects'.creds = {c \in read.creds : c.user = Super}
    BY <1>1, <1>3, LayerOps
  <1>5. /\ want'.users = {r \in want.users : r.id \in kept} \cup {r \in read.users : r.id \in uncertain}
        /\ want'.creds = {c \in want.creds : c.user \in kept}
                           \cup {c \in read.creds : c.user \in uncertain}
    BY <1>1, <1>2, <1>3, LayerOps
  <1>6. want' \in Layer
    <2>1. want'.users \in SUBSET UserType /\ want'.creds \in SUBSET CredType
      BY <1>2, <1>3, <1>5 DEF Layer
    <2>2. want' = [users |-> want'.users, creds |-> want'.creds]
      BY <1>1
    <2> QED BY <2>1, <2>2 DEF Layer
  <1>7. KnownOK'
    <2>1. KnownCreds' = stored'.creds \cup registered'.creds \cup objects'.creds \cup want'.creds
      BY DEF KnownCreds, AllCreds
    <2>2. KnownCreds' \subseteq KnownCreds
      BY <1>1, <1>2, <1>3, <1>4, <1>5, <2>1
    <2>3. \A c \in KnownCreds' : \E d \in KnownCreds : Alike(c, d)
      BY <2>2 DEF Alike, Same
    <2>4. UsersOf(want)' \subseteq usedUsers'
      BY <1>1, <1>3, <1>5 DEF UsersOf, FollowInv, KnownOK, AcctInv, UsersKnown
    <2>5. ignored' \subseteq 1..MaxCredId
      BY <1>1 DEF FollowInv, KnownOK
    <2> QED BY <1>1, <1>6, <2>3, <2>4, <2>5, StillKnown
  <1>8. ObjectsOK'
    BY <1>4 DEF ObjectsOK, UsersOf
  <1>9. ASSUME NEW u \in Users \ uncertain'
        PROVE  Follows(u)'
    <2>1. SameView(read, stored, u)
      <3>1. Only(stored, {u}) = Only(read, {u})
        BY <1>1
      <3>2. /\ Only(stored, {u}).users = {r \in stored.users : r.id \in {u}}
            /\ Only(stored, {u}).creds = {c \in stored.creds : c.user \in {u}}
        BY <1>2, LayerOps
      <3>3. /\ Only(read, {u}).users = {r \in read.users : r.id \in {u}}
            /\ Only(read, {u}).creds = {c \in read.creds : c.user \in {u}}
        BY <1>3, LayerOps
      <3>4. /\ {r \in stored.users : r.id \in {u}} = {r \in read.users : r.id \in {u}}
            /\ {c \in stored.creds : c.user \in {u}} = {c \in read.creds : c.user \in {u}}
        BY <3>1, <3>2, <3>3, Zenon
      <3> QED BY <3>4 DEF SameView, Rows, CredsOf
    <2>2. u = Super => SameView(objects', read, u)
      BY <1>4 DEF SameView, Rows, CredsOf
    <2>3. Agree(stored, want', u, ignored) /\ OneName(want', u)
      <3>1. CASE u \in uncertain
        <4>1. SameView(want', read, u)
          BY <1>5, <3>1 DEF SameView, Rows, CredsOf
        <4>2. Agree(stored, want', u, ignored)
          BY <2>1, <4>1, AgreeSelf DEF SameView
        <4>3. ASSUME NEW c \in CredsOf(read, u), NEW d \in CredsOf(read, u),
                     c.kind = d.kind, c.name = d.name
              PROVE  Same(c, d)
          <5>1. /\ c \in read.creds /\ d \in read.creds /\ c \in CredsOf(stored, u)
                /\ d \in CredsOf(stored, u) /\ c.user = d.user /\ c.user = u
            BY <1>3 DEF CredsOf
          <5>2. /\ d \in Named(stored, c.kind, c.user, c.name)
                /\ c \in Named(stored, d.kind, d.user, d.name)
            BY <4>3, <5>1 DEF Named
          <5>3. c.id \in Nat /\ d.id \in Nat
            BY <1>3, <5>1 DEF Layer, CredType
          <5>4. d.id >= c.id /\ c.id >= d.id
            BY <1>3, <5>1, <5>2
          <5> QED BY <4>3, <5>3, <5>4 DEF Same
        <4> QED BY <4>1, <4>2, <4>3 DEF OneName, SameView
      <3>2. CASE u \notin uncertain
        <4>1. SameView(want', want, u)
          BY <1>5, <3>2 DEF SameView, Rows, CredsOf
        <4>2. Follows(u)
          BY <3>2 DEF FollowInv
        <4>3. Agree(stored, want', u, ignored)
          BY <4>1, <4>2, AgreeView, SameViewSelf DEF Follows
        <4> QED BY <4>1, <4>2, <4>3 DEF Follows, OneName, SameView
      <3> QED BY <3>1, <3>2
    <2>4. SameView(want', want', u)
      BY SameViewSelf
    <2>5. Agree(read, want', u, ignored)
      BY <2>1, <2>3, <2>4, AgreeView
    <2>6. Agree(read, want', u, 1..MaxCredId)
      <3>1. \A c \in CredsOf(want', u) :
                c.kind = "token" /\ c.id \in ignored => c.id \in 1..MaxCredId
        BY DEF FollowInv, KnownOK
      <3> QED BY <2>1, <2>3, <2>4, <3>1, AgreeView
    <2>7. u = Super => Agree(objects', want', u, ignored)
      BY <2>2, <2>4, <2>5, AgreeView
    <2> QED BY <1>1, <2>3, <2>5, <2>6, <2>7 DEF Follows
  <1> QED BY <1>7, <1>8, <1>9 DEF FollowInv

\* Steps that are not about accounts.
LEMMA SameFollows ==
    ASSUME FollowInv, UNCHANGED acctVars, UNCHANGED cached
    PROVE  FollowInv'
  <1>1. KnownOK' /\ ObjectsOK'
    BY DEF FollowInv, KnownOK, KnownCreds, AllCreds, UsersOf, ObjectsOK, acctVars
  <1>2. ASSUME NEW u \in Users \ uncertain'
        PROVE  Follows(u)'
    <2>1. Follows(u) /\ UNCHANGED <<stored, registered, objects, want, ignored>>
      BY DEF FollowInv, acctVars
    <2> QED BY <2>1, OthersFollow, SameViewSelf
  <1> QED BY <1>1, <1>2 DEF FollowInv

\* What the invariant says about a user.
LEMMA AgreeAccount ==
    ASSUME NEW a \in Layer, NEW b \in Layer, NEW u, NEW ts, Agree(a, b, u, ts)
    PROVE  Account(a, u, ts) = Account(b, u, ts)
  <1> DEFINE Seen(c) == IF c.kind = "token" /\ c.id \in ts THEN [c EXCEPT !.valid = TRUE] ELSE c
  <1>1. ASSUME NEW c \in CredsOf(a, u), NEW d \in CredsOf(b, u), Loose(c, d, ts)
        PROVE  Seen(c) = Seen(d)
    <2>1. c \in CredType /\ d \in CredType
      BY DEF CredsOf, Layer
    <2>2. /\ c.kind = d.kind /\ c.id = d.id /\ c.user = d.user /\ c.name = d.name
          /\ c.valid = d.valid \/ (c.kind = "token" /\ c.id \in ts)
      BY <1>1 DEF Loose, Alike, Same
    <2>3. \A e \in CredType : e = [kind |-> e.kind, id |-> e.id, user |-> e.user,
                                   name |-> e.name, valid |-> e.valid]
      BY DEF CredType
    <2>4. ASSUME NEW e \in CredType
          PROVE  /\ [e EXCEPT !.valid = TRUE] \in CredType /\ [e EXCEPT !.valid = TRUE].valid = TRUE
                 /\ [e EXCEPT !.valid = TRUE].kind = e.kind /\ [e EXCEPT !.valid = TRUE].id = e.id
                 /\ [e EXCEPT !.valid = TRUE].user = e.user
                 /\ [e EXCEPT !.valid = TRUE].name = e.name
      BY DEF CredType
    <2>5. CASE c.kind = "token" /\ c.id \in ts
      <3>1. PICK x \in CredType : x = [c EXCEPT !.valid = TRUE]
        BY <2>1, <2>4
      <3>2. PICK y \in CredType : y = [d EXCEPT !.valid = TRUE]
        BY <2>1, <2>4
      <3>3. /\ x.kind = y.kind /\ x.id = y.id /\ x.user = y.user /\ x.name = y.name
            /\ x.valid = y.valid
        BY <2>1, <2>2, <2>4, <3>1, <3>2
      <3>4. x = y
        BY <2>3, <3>3
      <3> QED BY <2>2, <2>5, <3>1, <3>2, <3>4
    <2>6. CASE ~(c.kind = "token" /\ c.id \in ts)
      BY <2>1, <2>2, <2>3, <2>6
    <2> QED BY <2>5, <2>6
  <1>2. Account(a, u, ts) = [user |-> Rows(a, u), creds |-> {Seen(c) : c \in CredsOf(a, u)}]
    BY DEF Account, Rows
  <1>3. Account(b, u, ts) = [user |-> Rows(b, u), creds |-> {Seen(c) : c \in CredsOf(b, u)}]
    BY DEF Account, Rows
  <1> HIDE DEF Seen
  <1>4. {Seen(c) : c \in CredsOf(a, u)} = {Seen(c) : c \in CredsOf(b, u)}
    BY <1>1 DEF Agree
  <1> QED BY <1>2, <1>3, <1>4 DEF Agree

LEMMA FollowInvImplies ==
    ASSUME AcctInv, FollowInv
    PROVE  AccountsFollowStatements
  <1> SUFFICES ASSUME NEW u \in Users \ uncertain
               PROVE  /\ Account(stored, u, ignored) = Account(want, u, ignored)
                      /\ Account(registered, u, 1..MaxCredId) = Account(want, u, 1..MaxCredId)
                      /\ u \in cached => Account(objects, u, ignored) = Account(want, u, ignored)
    BY DEF AccountsFollowStatements
  <1>1. Follows(u)
    BY DEF FollowInv
  <1>2. stored \in Layer /\ registered \in Layer /\ objects \in Layer /\ want \in Layer
    BY AllLayers
  <1> QED BY <1>1, <1>2, AgreeAccount DEF Follows

\* The first accounts.
LEMMA InitFollows ==
    ASSUME Init, AcctInv
    PROVE  FollowInv
  <1>1. /\ registered = stored /\ want = stored /\ objects = Only(stored, {Super})
        /\ lastCred = [key |-> 2, token |-> 1] /\ ignored = {} /\ cached = {Super}
    BY DEF Init, AccountsInit, PermissionsInit
  <1> DEFINE other == CHOOSE u \in Users \ {Super} : \A x \in Users \ {Super} : u <= x
             name(kind) == CHOOSE n \in CredNames[kind] : TRUE
             k1 == Cred("key", 1, Super, name("key"), TRUE)
             k2 == Cred("key", 2, other, name("key"), TRUE)
             t1 == Cred("token", 1, other, name("token"), TRUE)
  <1>2. /\ stored.creds = {k1, k2, t1} /\ usedUsers = {Super, other}
    BY DEF Init, AccountsInit
  <1> HIDE DEF other, name
  <1>3. /\ k1.kind = "key" /\ k1.id = 1 /\ k1.user = Super
        /\ k2.kind = "key" /\ k2.id = 2 /\ k2.user = other
        /\ t1.kind = "token" /\ t1.id = 1 /\ t1.user = other
    BY DEF Cred
  <1>4. other # Super
    BY OtherUser DEF other
  <1> HIDE DEF k1, k2, t1
  <1>5. stored \in Layer
    BY DEF AcctInv, LayersOK
  <1>6. /\ objects.users = {r \in stored.users : r.id \in {Super}}
        /\ objects.creds = {c \in stored.creds : c.user \in {Super}}
    BY <1>1, <1>5, LayerOps
  <1>7. KnownCreds = {k1, k2, t1}
    BY <1>1, <1>2, <1>6 DEF KnownCreds, AllCreds
  <1>8. KnownOK
    <2>1. \A kind \in CredKinds : lastCred[kind] <= MaxCredId
      BY <1>1, AccountsAssumption DEF CredKinds
    <2>2. \A c \in KnownCreds : c.id \in 1..lastCred[c.kind] /\ c.user \in usedUsers
      BY <1>1, <1>2, <1>3, <1>7
    <2>3. \A c, d \in KnownCreds : Same(c, d) => Alike(c, d)
      BY <1>3, <1>7 DEF Same, Alike
    <2>4. UsersOf(want) \subseteq usedUsers
      BY <1>1 DEF AcctInv, UsersKnown
    <2> QED BY <1>1, <1>5, <2>1, <2>2, <2>3, <2>4 DEF KnownOK
  <1>9. ObjectsOK
    BY <1>1, <1>6 DEF ObjectsOK, UsersOf
  <1>10. ASSUME NEW u \in Users
         PROVE  Follows(u)
    <2>1. SameView(stored, stored, u)
      BY SameViewSelf
    <2>2. u = Super => SameView(objects, stored, u)
      BY <1>6 DEF SameView, Rows, CredsOf
    <2>3. OneName(want, u)
      BY <1>1, <1>2, <1>3, <1>4 DEF OneName, CredsOf, Same
    <2> QED BY <1>1, <2>1, <2>2, <2>3, AgreeSelf DEF Follows
  <1> QED BY <1>8, <1>9, <1>10 DEF FollowInv

\* Every step keeps the accounts in step with the statements.
LEMMA NextFollows ==
    ASSUME IInv, FollowInv, [Next]_vars
    PROVE  FollowInv'
  <1>1. AcctInv /\ PermInv
    BY DEF IInv
  <1>2. CASE Restart
    BY <1>1, <1>2, RestartFollows DEF Restart, PermissionsRestart
  <1>3. CASE \E u \in Users : LookUp(u)
    BY <1>1, <1>3, LookUpFollows DEF LookUp
  <1>4. CASE ManageAccounts
    <2>1. PICK u \in Users : \/ OnCreds(u)
                             \/ DropUser(u)
                             \/ \E active \in BOOLEAN : \E n \in UserNames : CreateUser(u, n, active)
      BY <1>4 DEF ManageAccounts, AccountStatement, OnCreds
    <2>2. CASE OnCreds(u)
      BY <1>1, <2>2, AlterUserFollows, DropCredFollows, CreateCredFollows, AlterKeyFollows,
         AlterTokenFollows DEF OnCreds
    <2> QED BY <1>1, <2>1, <2>2, DropUserFollows, CreateUserFollows
  <1>5. CASE UNCHANGED acctVars /\ UNCHANGED cached
    BY <1>5, SameFollows
  <1>6. CASE \/ \E u \in Users, n \in Names, d \in Contents :
                    BeginCreate(u, n, d) \/ BeginCreateFails(u, n, d)
             \/ RecordRow \/ RecordRowFails \/ EndCreate \/ EndCreateFails
             \/ \E u \in Users, t \in Tables : BeginDrop(u, t)
             \/ EraseRow \/ EraseRowFails \/ EndDrop \/ EndDropFails
             \/ \E by \in Users, u \in Grantees, t \in Tables, ps \in (SUBSET Perms) \ {{}} :
                    \/ \E o \in BOOLEAN : Grant(by, u, t, ps, o)
                    \/ Revoke(by, u, t, ps)
    <2>1. UNCHANGED acctVars /\ UNCHANGED cached
      <3>1. ASSUME NEW u \in Users, NEW n \in Names, NEW d \in Contents,
                   BeginCreate(u, n, d) \/ BeginCreateFails(u, n, d)
            PROVE  UNCHANGED acctVars /\ UNCHANGED cached
        BY <3>1 DEF BeginCreate, BeginCreateFails, CreateChecks, permVars
      <3>2. ASSUME RecordRow \/ RecordRowFails \/ EraseRow \/ EraseRowFails
            PROVE  UNCHANGED acctVars /\ UNCHANGED cached
        BY <3>2 DEF RecordRow, RecordRowFails, EraseRow, EraseRowFails, permVars
      <3>3. ASSUME EndCreate \/ EndCreateFails \/ EndDrop \/ EndDropFails
            PROVE  UNCHANGED acctVars /\ UNCHANGED cached
        BY <3>3 DEF EndCreate, EndCreateFails, EndDrop, EndDropFails, Unregister, GrantRecords,
                    GrantThrows, RevokeAll, RevokeAllThrows, RevokeFrom, permVars
      <3>4. ASSUME NEW u \in Users, NEW t \in Tables, BeginDrop(u, t)
            PROVE  UNCHANGED acctVars /\ UNCHANGED cached
        BY <3>4 DEF BeginDrop, permVars
      <3>5. ASSUME NEW by, NEW u, NEW t, NEW ps,
                   (\E o \in BOOLEAN : Grant(by, u, t, ps, o)) \/ Revoke(by, u, t, ps)
            PROVE  UNCHANGED acctVars /\ UNCHANGED cached
        BY <3>5 DEF Grant, Revoke, PermissionStatement, GrantRecords, GrantThrows, RevokeErases,
                    RevokeThrows
      <3> QED BY <1>6, <3>1, <3>2, <3>3, <3>4, <3>5
    <2> QED BY <2>1, SameFollows
  <1>7. CASE UNCHANGED vars
    BY <1>5, <1>7 DEF vars, permVars
  <1> QED BY <1>2, <1>3, <1>4, <1>6, <1>7 DEF Next

\* Users, keys and tokens are, in the rows, in the registry and in the objects,
\* what the statements that succeeded have made of them, over lookups and
\* restarts in any order and for every number of users and credentials, except
\* after a half-done statement and for expirations that the registry's stale
\* copy swallows (Instance_User.cpp, Instance_UserAccessKey.cpp,
\* Instance_UserToken.cpp).
THEOREM AccountsStayInStep == Spec => []AccountsFollowStatements
  <1>1. Init => FollowInv
    BY InitInv, InitFollows DEF IInv
  <1>2. IInv /\ FollowInv /\ [Next]_vars => FollowInv'
    BY NextFollows
  <1>3. IInv /\ FollowInv => AccountsFollowStatements
    BY FollowInvImplies DEF IInv
  <1> QED BY <1>1, <1>2, <1>3, CatalogInvariant, PTL DEF Spec

------------------------------------------------------------------------------
(***************************************************************************)
(* The rows of the system tables and the registries.                       *)
(*                                                                         *)
(* A table is whole, or gone up to rows that no start minds, or its        *)
(* statement is in the window, or it is torn.  What keeps this true is the *)
(* order in which rows are recorded and erased, as ranks.                  *)
(***************************************************************************)
OwnKinds == {"column", "coldef", "setcol", "constraint", "defconst"}

\* Nothing is left that a start minds, or everything is there.
Gone(t) == rows \cap VitalRows(t) = {}
Whole(t) ==
    /\ OwnRows(t) \subseteq rows
    /\ \A c \in Columns : <<"constdef", Content(t, c)>> \in rows

\* All of the table is registered; the index column has another key at first.
Known(t) == OwnRows(t) \ {<<"indexcol", t>>} \subseteq registry

\* The rank of a row in recordTableDefinition().
RecordRank(r) ==
    CASE r[1] = "table" -> 1
      [] r[1] \in {"column", "coldef", "set", "setcol"} -> 2
      [] r[1] \in {"constdef", "constraint", "defconst"} -> 3
      [] r[1] = "index" -> 4
      [] OTHER -> 5

RecordSorted(s) == \A i, j \in DOMAIN s : i < j => RecordRank(s[i]) <= RecordRank(s[j])

\* The rank of a row in dropTable(): the last vital one has rank 7.
EraseRank(r) ==
    CASE r[1] \in {"index", "indexcol"} -> 1
      [] r[1] \in {"set", "setcol", "table"} -> 2
      [] r[1] \in {"defconst", "constraint"} -> IF r[3] = 0 THEN 3 ELSE 6
      [] r[1] = "coldef" -> IF r[3] = 0 THEN 4 ELSE 7
      [] r[1] = "column" -> IF r[3] = 0 THEN 5 ELSE 8
      [] OTHER -> 9

Before(x, y) ==
    \/ EraseRank(x) < EraseRank(y)
    \/ EraseRank(x) = EraseRank(y) /\ EraseRank(x) # 7

EraseSorted(s) == \A i, j \in DOMAIN s : i < j => Before(s[i], s[j])

------------------------------------------------------------------------------
CatTypes ==
    /\ DOMAIN contentOf = Tables
    /\ complete \subseteq 1..lastTable
    /\ \A t \in Tables : t > lastTable => (rows \cup registry) \cap OwnRows(t) = {}

\* The definition of a registered constraint is registered, and that of a
\* constraint that CREATE TABLE has recorded is recorded.
DefinitionsThere ==
    /\ \A t \in Tables, c \in Columns :
          <<"constraint", t, c>> \in registry => <<"constdef", Content(t, c)>> \in registry
    /\ stmt.kind = "create" /\ stmt.table \notin torn =>
          \A c \in Columns : <<"constraint", stmt.table, c>> \in rows =>
              <<"constdef", Content(stmt.table, c)>> \in rows

\* A table that has rows is registered as a whole, unless it is torn.
RowsRegistered ==
    status = "up" =>
        \A t \in Tables \ torn :
            /\ <<"table", t>> \in rows => <<"table", t>> \in registry
            /\ <<"table", t>> \in registry => Known(t) \/ rows \cap OwnRows(t) = {}

CompleteRecorded == \A t \in complete : OwnRows(t) \subseteq rows

WholeOrGone ==
    \A t \in Tables \ torn :
        \/ Gone(t)
        \/ Whole(t)
        \/ stmt # Idle /\ stmt.table = t /\ InWindow

\* CREATE TABLE: what is not recorded is still to do, in the right order.
CreateOK ==
    stmt.kind = "create" =>
        /\ OwnRows(stmt.table) \subseteq rows \cup ToSet(stmt.todo)
        /\ RecordSorted(stmt.todo)
        /\ rows \cap OwnRows(stmt.table) = {} \/ <<"table", stmt.table>> \in rows
        /\ <<"indexcol", stmt.table>> \in rows => OwnRows(stmt.table) \subseteq rows
        /\ Known(stmt.table)

\* DROP TABLE: a vital row that is not yet erased is still to do, or left behind,
\* and the last one is there until it is erased.
DropOrder(t) ==
    LET last == <<"coldef", t, 1>> IN
    /\ rows \cap VitalRows(t) \subseteq ToSet(stmt.todo) \cup freed
    /\ EraseSorted(stmt.todo)
    /\ ToSet(stmt.todo) \cap VitalRows(t) = {} \/ last \in ToSet(stmt.todo)
    /\ t \notin torn /\ last \in ToSet(stmt.todo) => last \in rows

DropOK ==
    stmt.kind = "drop" =>
        /\ stmt.table \notin complete
        /\ stmt.todo \in Seq(OwnRows(stmt.table)
                             \cup {<<"constdef", d>> : d \in stmt.definitions})
        /\ stmt.definitions \subseteq RemovableDefinitions(stmt.table)
        /\ Gone(stmt.table) \/ DropOrder(stmt.table) \/ ReadInPart(stmt.table)
        /\ <<"table", stmt.table>> \in registry

\* A table without its data directory is not registered, and none of its vital
\* rows is there, unless one was left behind.
RemovedOK ==
    \A t \in removed :
        /\ t \in 1..lastTable /\ <<"table", t>> \notin registry
        /\ t \in torn \/ Gone(t)

CatInv ==
    /\ CatTypes /\ DefinitionsThere /\ RowsRegistered /\ CompleteRecorded
    /\ WholeOrGone /\ CreateOK /\ DropOK /\ RemovedOK

\* The objects of a table name the table, and are no definitions.
LEMMA OwnFacts ==
    ASSUME NEW t
    PROVE  /\ <<"table", t>> \in OwnRows(t) /\ <<"set", t>> \in OwnRows(t)
           /\ <<"index", t>> \in OwnRows(t) /\ <<"indexcol", t>> \in OwnRows(t)
           /\ \A k \in OwnKinds, c \in Columns : <<k, t, c>> \in OwnRows(t)
           /\ \A r \in OwnRows(t) : r[2] = t /\ r[1] # "constdef"
           /\ \A d : <<"constdef", d>> \notin OwnRows(t)
           /\ \A x : x # t => OwnRows(t) \cap OwnRows(x) = {}
  <1>1. /\ <<"table", t>> \in OwnRows(t) /\ <<"set", t>> \in OwnRows(t)
        /\ <<"index", t>> \in OwnRows(t) /\ <<"indexcol", t>> \in OwnRows(t)
    BY DEF OwnRows
  <1>2. \A k \in OwnKinds, c \in Columns : <<k, t, c>> \in OwnRows(t)
    BY DEF OwnRows, OwnKinds
  <1>3. \A x : \A r \in OwnRows(x) : r[2] = x /\ r[1] # "constdef"
    BY DEF OwnRows, OwnKinds
  <1>4. \A d : <<"constdef", d>>[1] = "constdef"
    OBVIOUS
  <1> QED BY <1>1, <1>2, <1>3, <1>4

\* What is vital, kind by kind.
LEMMA VitalFacts ==
    ASSUME NEW t
    PROVE  /\ VitalRows(t) \subseteq OwnRows(t)
           /\ <<"table", t>> \in VitalRows(t) /\ <<"set", t>> \in VitalRows(t)
           /\ <<"index", t>> \in VitalRows(t)
           /\ \A k \in OwnKinds \ {"column"}, c \in Columns : <<k, t, c>> \in VitalRows(t)
           /\ \A r \in VitalRows(t) : EraseRank(r) \in 1..7
           /\ \A r \in OwnRows(t) \ VitalRows(t) :
                  r = <<"indexcol", t>> \/ \E c \in Columns : r = <<"column", t, c>>
  <1>1. VitalRows(t) \subseteq OwnRows(t)
    BY DEF VitalRows
  <1>2. <<"table", t>> \in VitalRows(t) /\ <<"set", t>> \in VitalRows(t)
        /\ <<"index", t>> \in VitalRows(t)
    BY DEF VitalRows, OwnRows
  <1>3. ASSUME NEW k \in OwnKinds \ {"column"}, NEW c \in Columns
        PROVE  <<k, t, c>> \in VitalRows(t)
    BY OwnFacts DEF VitalRows, OwnKinds
  <1>4. ASSUME NEW r \in VitalRows(t)
        PROVE  EraseRank(r) \in 1..7
    BY DEF VitalRows, OwnRows, OwnKinds, EraseRank, Columns
  <1>5. ASSUME NEW r \in OwnRows(t) \ VitalRows(t)
        PROVE  r = <<"indexcol", t>> \/ \E c \in Columns : r = <<"column", t, c>>
    BY DEF VitalRows, Columns
  <1> QED BY <1>1, <1>2, <1>3, <1>4, <1>5

------------------------------------------------------------------------------
\* Sorted sequences: the rest of one, and one after the other.
LEMMA TailFacts ==
    ASSUME NEW S, NEW s \in Seq(S), s # <<>>
    PROVE  /\ Head(s) \in S /\ Tail(s) \in Seq(S)
           /\ ToSet(s) = {Head(s)} \cup ToSet(Tail(s))
           /\ RecordSorted(s) =>
                  /\ RecordSorted(Tail(s))
                  /\ \A x \in ToSet(Tail(s)) : RecordRank(Head(s)) <= RecordRank(x)
           /\ EraseSorted(s) =>
                  /\ EraseSorted(Tail(s))
                  /\ \A x \in ToSet(Tail(s)) : Before(Head(s), x)
  <1> DEFINE h == Head(s)
             q == Tail(s)
  <1>1. /\ h \in S /\ q \in Seq(S) /\ Len(s) \in Nat /\ Len(s) > 0
        /\ h = s[1] /\ DOMAIN s = 1..Len(s) /\ DOMAIN q = 1..(Len(s) - 1)
        /\ \A i \in DOMAIN q : q[i] = s[i + 1]
    OBVIOUS
  <1> HIDE DEF h, q
  <1>2. ASSUME NEW x \in ToSet(s) PROVE x = h \/ x \in ToSet(q)
    <2>1. PICK i \in DOMAIN s : x = s[i]
      BY DEF ToSet
    <2>2. CASE i = 1
      BY <1>1, <2>1, <2>2
    <2>3. CASE i # 1
      <3>1. i - 1 \in DOMAIN q /\ q[i - 1] = x
        BY <1>1, <2>1, <2>3
      <3> QED BY <3>1 DEF ToSet
    <2> QED BY <2>2, <2>3
  <1>3. ASSUME NEW x \in ToSet(q)
        PROVE  \E i \in DOMAIN s : i > 1 /\ x = s[i]
    <2>1. PICK i \in DOMAIN q : x = q[i]
      BY DEF ToSet
    <2>2. i + 1 \in DOMAIN s /\ x = s[i + 1] /\ i + 1 > 1
      BY <1>1, <2>1
    <2> QED BY <2>2
  <1>4. ToSet(s) = {h} \cup ToSet(q)
    <2>1. h \in ToSet(s)
      BY <1>1 DEF ToSet
    <2>2. ToSet(q) \subseteq ToSet(s)
      BY <1>3 DEF ToSet
    <2> QED BY <1>2, <2>1, <2>2
  <1>5. \A i, j \in DOMAIN q : i < j =>
            /\ i + 1 \in DOMAIN s /\ j + 1 \in DOMAIN s /\ i + 1 < j + 1
            /\ q[i] = s[i + 1] /\ q[j] = s[j + 1]
    BY <1>1
  <1>6. ASSUME RecordSorted(s)
        PROVE  /\ RecordSorted(q)
               /\ \A x \in ToSet(q) : RecordRank(h) <= RecordRank(x)
    <2>1. RecordSorted(q)
      BY <1>5, <1>6 DEF RecordSorted
    <2>2. ASSUME NEW x \in ToSet(q) PROVE RecordRank(h) <= RecordRank(x)
      BY <1>1, <1>3, <1>6 DEF RecordSorted
    <2> QED BY <2>1, <2>2
  <1>7. ASSUME EraseSorted(s)
        PROVE  /\ EraseSorted(q)
               /\ \A x \in ToSet(q) : Before(h, x)
    <2>1. EraseSorted(q)
      BY <1>5, <1>7 DEF EraseSorted
    <2>2. ASSUME NEW x \in ToSet(q) PROVE Before(h, x)
      BY <1>1, <1>3, <1>7 DEF EraseSorted
    <2> QED BY <2>1, <2>2
  <1> QED BY <1>1, <1>4, <1>6, <1>7 DEF h, q

LEMMA ConcatFacts ==
    ASSUME NEW S, NEW a \in Seq(S), NEW b \in Seq(S)
    PROVE  /\ a \o b \in Seq(S)
           /\ ToSet(a \o b) = ToSet(a) \cup ToSet(b)
           /\ /\ RecordSorted(a) /\ RecordSorted(b)
              /\ \A x \in ToSet(a), y \in ToSet(b) : RecordRank(x) <= RecordRank(y)
              => RecordSorted(a \o b)
           /\ /\ EraseSorted(a) /\ EraseSorted(b)
              /\ \A x \in ToSet(a), y \in ToSet(b) : Before(x, y)
              => EraseSorted(a \o b)
  <1> DEFINE c == a \o b
             n == Len(a)
             m == Len(b)
  <1>1. /\ c \in Seq(S) /\ n \in Nat /\ m \in Nat
        /\ DOMAIN a = 1..n /\ DOMAIN b = 1..m /\ DOMAIN c = 1..(n + m)
        /\ \A i \in 1..(n + m) : c[i] = IF i <= n THEN a[i] ELSE b[i - n]
    BY ConcatProperties
  <1> HIDE DEF c, n, m
  <1>2. /\ \A i \in DOMAIN c : i <= n => i \in DOMAIN a /\ c[i] = a[i] /\ c[i] \in ToSet(a)
        /\ \A i \in DOMAIN c : ~(i <= n) => /\ i - n \in DOMAIN b
                                            /\ c[i] = b[i - n] /\ c[i] \in ToSet(b)
    <2>1. \A i \in DOMAIN c : i <= n => i \in DOMAIN a /\ c[i] = a[i]
      BY <1>1
    <2>2. \A i \in DOMAIN c : ~(i <= n) => i - n \in DOMAIN b /\ c[i] = b[i - n]
      BY <1>1
    <2> QED BY <2>1, <2>2 DEF ToSet
  <1>3. ToSet(c) = ToSet(a) \cup ToSet(b)
    <2>1. ASSUME NEW i \in DOMAIN a PROVE a[i] \in ToSet(c)
      <3>1. i \in DOMAIN c /\ c[i] = a[i]
        BY <1>1
      <3> QED BY <3>1 DEF ToSet
    <2>2. ASSUME NEW i \in DOMAIN b PROVE b[i] \in ToSet(c)
      <3>1. i + n \in DOMAIN c /\ c[i + n] = b[i]
        BY <1>1
      <3> QED BY <3>1 DEF ToSet
    <2>3. ASSUME NEW x \in ToSet(c) PROVE x \in ToSet(a) \cup ToSet(b)
      <3>1. PICK i \in DOMAIN c : x = c[i]
        BY DEF ToSet
      <3> QED BY <1>2, <3>1
    <2>4. ToSet(a) \subseteq ToSet(c) /\ ToSet(b) \subseteq ToSet(c)
      BY <2>1, <2>2 DEF ToSet
    <2> QED BY <2>3, <2>4
  <1>4. ASSUME NEW i \in DOMAIN c, NEW j \in DOMAIN c, i < j
        PROVE  \/ i \in DOMAIN a /\ j \in DOMAIN a /\ c[i] = a[i] /\ c[j] = a[j]
               \/ c[i] \in ToSet(a) /\ c[j] \in ToSet(b)
               \/ /\ i - n \in DOMAIN b /\ j - n \in DOMAIN b /\ i - n < j - n
                  /\ c[i] = b[i - n] /\ c[j] = b[j - n]
    <2>1. CASE j <= n
      BY <1>1, <1>2, <1>4, <2>1
    <2>2. CASE i <= n /\ ~(j <= n)
      BY <1>2, <2>2
    <2>3. CASE ~(i <= n)
      <3>1. ~(j <= n) /\ i - n < j - n
        BY <1>1, <1>4, <2>3
      <3> QED BY <1>2, <2>3, <3>1
    <2> QED BY <2>1, <2>2, <2>3
  <1>5. ASSUME RecordSorted(a), RecordSorted(b),
               \A x \in ToSet(a), y \in ToSet(b) : RecordRank(x) <= RecordRank(y)
        PROVE  RecordSorted(c)
    BY <1>4, <1>5 DEF RecordSorted
  <1>6. ASSUME EraseSorted(a), EraseSorted(b),
               \A x \in ToSet(a), y \in ToSet(b) : Before(x, y)
        PROVE  EraseSorted(c)
    BY <1>4, <1>6 DEF EraseSorted
  <1> QED BY <1>1, <1>3, <1>5, <1>6 DEF c

------------------------------------------------------------------------------
\* recordTableDefinition(): everything of the table, in the order of the ranks.
LEMMA RecordOrderFacts ==
    ASSUME NEW t, NEW d \in Contents
    PROVE  /\ OwnRows(t) \subseteq ToSet(RecordOrder(t, d))
           /\ RecordSorted(RecordOrder(t, d))
           /\ RecordOrder(t, d) # <<>>
  <1> DEFINE O == RecordedObjects(t)
             constraint(c) == << <<"constraint", t, c>>, <<"defconst", t, c>> >>
             definition(e, known) == IF e \in known THEN <<>> ELSE << <<"constdef", e>> >>
             a == << <<"table", t>>, <<"column", t, 0>>, <<"column", t, 1>>,
                     <<"coldef", t, 0>>, <<"coldef", t, 1>>,
                     <<"set", t>>, <<"setcol", t, 0>>, <<"setcol", t, 1>> >>
             b == definition(NotNull, written)
             c0 == constraint(0)
             e1 == definition(d, written \cup {NotNull})
             c1 == constraint(1)
             i == << <<"index", t>>, <<"indexcol", t>> >>
  <1>1. /\ <<"table", t>> \in O /\ <<"set", t>> \in O
        /\ <<"index", t>> \in O /\ <<"indexcol", t>> \in O
    BY DEF RecordedObjects
  <1>2. \A k \in {"column", "coldef", "setcol", "constraint", "defconst"}, c \in Columns :
            <<k, t, c>> \in O
    BY DEF RecordedObjects
  <1>3. \A e \in Contents \cup {NotNull} : <<"constdef", e>> \in O
    BY DEF RecordedObjects
  <1> HIDE DEF O
  <1>4. /\ a \in Seq(O) /\ DOMAIN a = 1..8
        /\ RecordSorted(a) /\ \A x \in ToSet(a) : RecordRank(x) \in 1..2
    <2>1. a \in Seq(O) /\ DOMAIN a = 1..8
      BY <1>1, <1>2 DEF Columns
    <2>2. RecordRank(a[1]) = 1 /\ \A k \in 2..8 : RecordRank(a[k]) = 2
      BY DEF RecordRank
    <2> HIDE DEF a
    <2> QED BY <2>1, <2>2 DEF RecordSorted, ToSet
  <1>5. /\ b \in Seq(O) /\ RecordSorted(b) /\ \A x \in ToSet(b) : RecordRank(x) \in 3..3
        /\ c0 \in Seq(O) /\ RecordSorted(c0) /\ \A x \in ToSet(c0) : RecordRank(x) \in 3..3
        /\ e1 \in Seq(O) /\ RecordSorted(e1) /\ \A x \in ToSet(e1) : RecordRank(x) \in 3..3
        /\ c1 \in Seq(O) /\ RecordSorted(c1) /\ \A x \in ToSet(c1) : RecordRank(x) \in 3..3
    <2>1. \A s : (\A k \in DOMAIN s : RecordRank(s[k]) \in 3..3) =>
                  RecordSorted(s) /\ \A x \in ToSet(s) : RecordRank(x) \in 3..3
      BY DEF RecordSorted, ToSet
    <2>2. b \in Seq(O) /\ \A k \in DOMAIN b : RecordRank(b[k]) \in 3..3
      BY <1>3 DEF RecordRank
    <2>3. e1 \in Seq(O) /\ \A k \in DOMAIN e1 : RecordRank(e1[k]) \in 3..3
      BY <1>3 DEF RecordRank
    <2>4. c0 \in Seq(O) /\ \A k \in DOMAIN c0 : RecordRank(c0[k]) \in 3..3
      BY <1>2 DEF RecordRank, Columns
    <2>5. c1 \in Seq(O) /\ \A k \in DOMAIN c1 : RecordRank(c1[k]) \in 3..3
      BY <1>2 DEF RecordRank, Columns
    <2> HIDE DEF b, c0, e1, c1
    <2> QED BY <2>1, <2>2, <2>3, <2>4, <2>5
  <1>6. /\ i \in Seq(O)
        /\ RecordSorted(i) /\ \A x \in ToSet(i) : RecordRank(x) \in 4..5
    <2>1. i \in Seq(O) /\ DOMAIN i = 1..2
      BY <1>1
    <2>2. RecordRank(i[1]) = 4 /\ RecordRank(i[2]) = 5
      BY DEF RecordRank
    <2> HIDE DEF i
    <2> QED BY <2>1, <2>2 DEF RecordSorted, ToSet
  <1>7. RecordOrder(t, d) = a \o b \o c0 \o e1 \o c1 \o i
    BY DEF RecordOrder
  <1>8. /\ {a[k] : k \in 1..8} \subseteq ToSet(a)
        /\ {<<"constraint", t, 0>>, <<"defconst", t, 0>>} \subseteq ToSet(c0)
        /\ {<<"constraint", t, 1>>, <<"defconst", t, 1>>} \subseteq ToSet(c1)
        /\ {<<"index", t>>, <<"indexcol", t>>} \subseteq ToSet(i)
    <2>1. c0[1] = <<"constraint", t, 0>> /\ c0[2] = <<"defconst", t, 0>> /\ DOMAIN c0 = 1..2
      OBVIOUS
    <2>2. c1[1] = <<"constraint", t, 1>> /\ c1[2] = <<"defconst", t, 1>> /\ DOMAIN c1 = 1..2
      OBVIOUS
    <2>3. i[1] = <<"index", t>> /\ i[2] = <<"indexcol", t>> /\ DOMAIN i = 1..2
      OBVIOUS
    <2> HIDE DEF a, c0, c1, i
    <2> QED BY <1>4, <2>1, <2>2, <2>3 DEF ToSet
  <1>9. /\ a[1] = <<"table", t>> /\ a[2] = <<"column", t, 0>> /\ a[3] = <<"column", t, 1>>
        /\ a[4] = <<"coldef", t, 0>> /\ a[5] = <<"coldef", t, 1>> /\ a[6] = <<"set", t>>
        /\ a[7] = <<"setcol", t, 0>> /\ a[8] = <<"setcol", t, 1>>
    OBVIOUS
  <1> HIDE DEF a, b, c0, e1, c1, i
  <1> DEFINE s2 == a \o b
             s3 == s2 \o c0
             s4 == s3 \o e1
             s5 == s4 \o c1
             s6 == s5 \o i
  <1>10. /\ s2 \in Seq(O) /\ RecordSorted(s2) /\ ToSet(s2) = ToSet(a) \cup ToSet(b)
         /\ \A x \in ToSet(s2) : RecordRank(x) \in 1..3
    <2>0. \A x \in ToSet(a), y \in ToSet(b) : RecordRank(x) <= RecordRank(y)
      <3>1. \A x \in ToSet(a) : RecordRank(x) \in 1..3
        BY <1>4
      <3>2. \A y \in ToSet(b) : RecordRank(y) \in 3..3
        BY <1>5
      <3> QED BY <3>1, <3>2
    <2>1. s2 \in Seq(O) /\ RecordSorted(s2) /\ ToSet(s2) = ToSet(a) \cup ToSet(b)
      BY <1>4, <1>5, <2>0, ConcatFacts
    <2> QED BY <1>4, <1>5, <2>1
  <1> HIDE DEF s2
  <1>11. /\ s3 \in Seq(O) /\ RecordSorted(s3) /\ ToSet(s3) = ToSet(s2) \cup ToSet(c0)
         /\ \A x \in ToSet(s3) : RecordRank(x) \in 1..3
    <2>0. \A x \in ToSet(s2), y \in ToSet(c0) : RecordRank(x) <= RecordRank(y)
      <3>1. \A x \in ToSet(s2) : RecordRank(x) \in 1..3
        BY <1>10
      <3>2. \A y \in ToSet(c0) : RecordRank(y) \in 3..3
        BY <1>5
      <3> QED BY <3>1, <3>2
    <2>1. s3 \in Seq(O) /\ RecordSorted(s3) /\ ToSet(s3) = ToSet(s2) \cup ToSet(c0)
      BY <1>10, <1>5, <2>0, ConcatFacts
    <2> QED BY <1>10, <1>5, <2>1
  <1> HIDE DEF s3
  <1>12. /\ s4 \in Seq(O) /\ RecordSorted(s4) /\ ToSet(s4) = ToSet(s3) \cup ToSet(e1)
         /\ \A x \in ToSet(s4) : RecordRank(x) \in 1..3
    <2>0. \A x \in ToSet(s3), y \in ToSet(e1) : RecordRank(x) <= RecordRank(y)
      <3>1. \A x \in ToSet(s3) : RecordRank(x) \in 1..3
        BY <1>11
      <3>2. \A y \in ToSet(e1) : RecordRank(y) \in 3..3
        BY <1>5
      <3> QED BY <3>1, <3>2
    <2>1. s4 \in Seq(O) /\ RecordSorted(s4) /\ ToSet(s4) = ToSet(s3) \cup ToSet(e1)
      BY <1>11, <1>5, <2>0, ConcatFacts
    <2> QED BY <1>11, <1>5, <2>1
  <1> HIDE DEF s4
  <1>13. /\ s5 \in Seq(O) /\ RecordSorted(s5) /\ ToSet(s5) = ToSet(s4) \cup ToSet(c1)
         /\ \A x \in ToSet(s5) : RecordRank(x) \in 1..3
    <2>0. \A x \in ToSet(s4), y \in ToSet(c1) : RecordRank(x) <= RecordRank(y)
      <3>1. \A x \in ToSet(s4) : RecordRank(x) \in 1..3
        BY <1>12
      <3>2. \A y \in ToSet(c1) : RecordRank(y) \in 3..3
        BY <1>5
      <3> QED BY <3>1, <3>2
    <2>1. s5 \in Seq(O) /\ RecordSorted(s5) /\ ToSet(s5) = ToSet(s4) \cup ToSet(c1)
      BY <1>12, <1>5, <2>0, ConcatFacts
    <2> QED BY <1>12, <1>5, <2>1
  <1> HIDE DEF s5
  <1>14. /\ s6 \in Seq(O) /\ RecordSorted(s6) /\ ToSet(s6) = ToSet(s5) \cup ToSet(i)
    <2>1. \A x \in ToSet(s5), y \in ToSet(i) : RecordRank(x) <= RecordRank(y)
      BY <1>13, <1>6
    <2> QED BY <1>13, <1>6, <2>1, ConcatFacts
  <1>15. RecordOrder(t, d) = s6
    BY <1>7 DEF s2, s3, s4, s5
  <1> HIDE DEF s6
  <1>16. ToSet(a) \cup ToSet(c0) \cup ToSet(c1) \cup ToSet(i) \subseteq ToSet(s6)
    BY <1>10, <1>11, <1>12, <1>13, <1>14
  <1>17. OwnRows(t) \subseteq ToSet(s6)
    <2>1. \A k \in 1..8 : a[k] \in ToSet(s6)
      BY <1>8, <1>16
    <2> QED BY <1>8, <1>9, <1>16, <2>1 DEF OwnRows, OwnKinds, Columns
  <1>18. s6 # <<>>
    <2>1. <<"table", t>> \in ToSet(s6)
      BY <1>17, OwnFacts
    <2>2. PICK k \in DOMAIN s6 : TRUE
      BY <2>1 DEF ToSet
    <2> QED BY <2>2
  <1> QED BY <1>14, <1>15, <1>17, <1>18

\* What CREATE TABLE registers, wholly or up to a failure: a constraint comes
\* with its definition, and in the end everything is there.
LEMMA MemoryFacts ==
    ASSUME NEW t, NEW d
    PROVE  /\ OwnRows(t) \ {<<"indexcol", t>>} \subseteq UNION ToSet(MemoryOrder(t, d))
           /\ \A x, c : <<"constraint", x, c>> \in UNION ToSet(MemoryOrder(t, d)) =>
                  /\ x = t
                  /\ <<"constdef", IF c = 0 THEN NotNull ELSE d>> \in UNION ToSet(MemoryOrder(t, d))
           /\ \A k \in 0..8 :
                  LET new == UNION ToSet(SubSeq(MemoryOrder(t, d), 1, k))
                  IN  \A x, c : <<"constraint", x, c>> \in new =>
                          /\ x = t
                          /\ <<"constdef", IF c = 0 THEN NotNull ELSE d>> \in new
           /\ \A x : x # t =>
                  /\ \A r \in UNION ToSet(MemoryOrder(t, d)) : r \notin OwnRows(x)
                  /\ \A k \in 0..8 : \A r \in UNION ToSet(SubSeq(MemoryOrder(t, d), 1, k)) :
                         r \notin OwnRows(x)
  <1> DEFINE m == MemoryOrder(t, d)
             def(c) == <<"constdef", IF c = 0 THEN NotNull ELSE d>>
  <1>1. Len(m) = 9 /\ DOMAIN m = 1..9
    BY DEF MemoryOrder
  <1>2. /\ m[1] = {<<"set", t>>} /\ m[2] = {<<"coldef", t, 0>>}
        /\ m[3] = {<<"constdef", NotNull>>, <<"constraint", t, 0>>, <<"defconst", t, 0>>}
        /\ m[4] = {<<"index", t>>, <<"ownindexcol", t>>} /\ m[5] = {<<"column", t, 0>>}
        /\ m[6] = {<<"table", t>>} /\ m[7] = {<<"coldef", t, 1>>}
        /\ m[8] = {<<"constdef", d>>, <<"constraint", t, 1>>, <<"defconst", t, 1>>}
        /\ m[9] = {<<"column", t, 1>>, <<"setcol", t, 0>>, <<"setcol", t, 1>>}
    BY DEF MemoryOrder
  <1>3. \A i \in 1..9 : \A x, c : <<"constraint", x, c>> \in m[i] => x = t /\ def(c) \in m[i]
    BY <1>2
  <1> HIDE DEF m, def
  <1>4. \A i \in 1..9 : m[i] \in ToSet(m)
    BY <1>1 DEF ToSet
  <1>5. OwnRows(t) \ {<<"indexcol", t>>} \subseteq UNION ToSet(m)
    BY <1>2, <1>4 DEF OwnRows, OwnKinds, Columns
  <1>6. ASSUME NEW x, NEW c, <<"constraint", x, c>> \in UNION ToSet(m)
        PROVE  x = t /\ def(c) \in UNION ToSet(m)
    <2>1. PICK i \in 1..9 : <<"constraint", x, c>> \in m[i]
      BY <1>1, <1>6 DEF ToSet
    <2> QED BY <1>3, <1>4, <2>1
  <1>7. ASSUME NEW k \in 0..8, NEW x, NEW c,
               <<"constraint", x, c>> \in UNION ToSet(SubSeq(m, 1, k))
        PROVE  x = t /\ def(c) \in UNION ToSet(SubSeq(m, 1, k))
    <2>1. PICK i \in DOMAIN SubSeq(m, 1, k) : <<"constraint", x, c>> \in SubSeq(m, 1, k)[i]
      BY <1>7 DEF ToSet
    <2>2. i \in 1..9 /\ SubSeq(m, 1, k)[i] = m[i]
      BY <1>1, <2>1
    <2>3. x = t /\ def(c) \in SubSeq(m, 1, k)[i]
      BY <1>3, <2>1, <2>2
    <2> QED BY <2>1, <2>3 DEF ToSet
  <1>8. \A i \in 1..9 : \A r \in m[i] : r[2] = t \/ r[1] = "constdef"
    BY DEF m, MemoryOrder
  <1>9. ASSUME NEW x, x # t
        PROVE  /\ \A r \in UNION ToSet(m) : r \notin OwnRows(x)
               /\ \A k \in 0..8 : \A r \in UNION ToSet(SubSeq(m, 1, k)) : r \notin OwnRows(x)
    <2>0. \A r \in OwnRows(x) : r[2] = x /\ r[1] # "constdef"
      BY OwnFacts
    <2>1. \A i \in 1..9 : \A r \in m[i] : r \notin OwnRows(x)
      BY <1>8, <1>9, <2>0
    <2>2. \A r \in UNION ToSet(m) : r \notin OwnRows(x)
      BY <1>1, <2>1 DEF ToSet
    <2>3. ASSUME NEW k \in 0..8, NEW r \in UNION ToSet(SubSeq(m, 1, k))
          PROVE  r \notin OwnRows(x)
      <3>1. PICK i \in DOMAIN SubSeq(m, 1, k) : r \in SubSeq(m, 1, k)[i]
        BY <2>3 DEF ToSet
      <3>2. i \in 1..9 /\ SubSeq(m, 1, k)[i] = m[i]
        BY <1>1, <3>1
      <3> QED BY <2>1, <3>1, <3>2
    <2> QED BY <2>2, <2>3
  <1> QED BY <1>5, <1>6, <1>7, <1>9 DEF m, def

\* dropTable(): what is erased belongs to the table, or is a definition, and if
\* the table is registered as a whole everything vital is erased, in the
\* order of the ranks and with the index first.
LEMMA EraseOrderFacts ==
    ASSUME NEW t, NEW D, NEW ds \in Seq(D)
    PROVE  /\ EraseOrder(t, ds) \in Seq(OwnRows(t) \cup {<<"constdef", x>> : x \in ToSet(ds)})
           /\ Known(t) =>
                  /\ VitalRows(t) \subseteq ToSet(EraseOrder(t, ds))
                  /\ EraseSorted(EraseOrder(t, ds))
                  /\ EraseOrder(t, ds) # <<>>
                  /\ Head(EraseOrder(t, ds)) \in {<<"index", t>>, <<"indexcol", t>>}
  <1> DEFINE O == OwnRows(t) \cup {<<"constdef", x>> : x \in ToSet(ds)}
             known(x) == IF x \in registry THEN <<x>> ELSE <<>>
             f == known(<<"indexcol", t>>) \o known(<<"index", t>>)
                  \o known(<<"setcol", t, 0>>) \o known(<<"setcol", t, 1>>) \o known(<<"set", t>>)
             tb == << <<"table", t>> >>
             w(c) == ErasedWithColumn(t, c)
             e == ErasedDefinitions(ds)
  <1>1. EraseOrder(t, ds) = f \o tb \o w(0) \o w(1) \o e
    BY DEF EraseOrder, ErasedFirst
  <1>2. OwnRows(t) \subseteq O
    OBVIOUS
  <1>3. \A k \in OwnKinds, c \in Columns : <<k, t, c>> \in O
    BY OwnFacts
  <1>4. <<"table", t>> \in O /\ <<"set", t>> \in O /\ <<"index", t>> \in O /\ <<"indexcol", t>> \in O
    BY OwnFacts
  <1>5. e \in Seq(O) /\ \A x \in ToSet(e) : EraseRank(x) \in 9..9
    <2>1. /\ Len(ds) \in Nat /\ DOMAIN ds = 1..Len(ds)
          /\ \A i \in 1..Len(ds) : <<"constdef", ds[i]>> \in O
      BY DEF ToSet
    <2>2. e = [i \in 1..Len(ds) |-> <<"constdef", ds[i]>>]
      BY DEF ErasedDefinitions
    <2>3. e \in Seq(O)
      <3> HIDE DEF O, e
      <3> QED BY <2>1, <2>2
    <2>4. \A i \in DOMAIN e : EraseRank(e[i]) \in 9..9
      BY <2>2 DEF EraseRank
    <2> HIDE DEF e, O
    <2> QED BY <2>3, <2>4 DEF ToSet
  <1> HIDE DEF O, e
  <1>6. \A c \in Columns :
            w(c) = IF c \notin DroppedColumns(t) THEN <<>>
                   ELSE (IF c \in DroppedConstraints(t)
                         THEN << <<"defconst", t, c>>, <<"constraint", t, c>> >> ELSE <<>>)
                        \o << <<"coldef", t, c>>, <<"column", t, c>> >>
    BY DEF ErasedWithColumn
  <1>7. ASSUME NEW c \in Columns
        PROVE  w(c) \in Seq(O)
    <2>1. <<"defconst", t, c>> \in O /\ <<"constraint", t, c>> \in O
          /\ <<"coldef", t, c>> \in O /\ <<"column", t, c>> \in O
      BY <1>3 DEF OwnKinds
    <2> DEFINE u == IF c \in DroppedConstraints(t)
                    THEN << <<"defconst", t, c>>, <<"constraint", t, c>> >> ELSE <<>>
               v == << <<"coldef", t, c>>, <<"column", t, c>> >>
    <2>2. u \in Seq(O) /\ v \in Seq(O)
      BY <2>1
    <2>3. w(c) = IF c \notin DroppedColumns(t) THEN <<>> ELSE u \o v
      BY <1>6
    <2> HIDE DEF u, v
    <2>4. u \o v \in Seq(O)
      BY <2>2
    <2> QED BY <2>3, <2>4
  <1> DEFINE k1 == known(<<"indexcol", t>>)
             k2 == known(<<"index", t>>)
             k3 == known(<<"setcol", t, 0>>)
             k4 == known(<<"setcol", t, 1>>)
             k5 == known(<<"set", t>>)
  <1>8. /\ k1 \in Seq(O) /\ k2 \in Seq(O) /\ k3 \in Seq(O) /\ k4 \in Seq(O) /\ k5 \in Seq(O)
        /\ tb \in Seq(O)
    BY <1>3, <1>4 DEF OwnKinds, Columns
  <1>9. f = k1 \o k2 \o k3 \o k4 \o k5 /\ f \in Seq(O)
    <2>1. f = k1 \o k2 \o k3 \o k4 \o k5
      OBVIOUS
    <2> HIDE DEF k1, k2, k3, k4, k5, f
    <2> QED BY <1>8, <2>1
  <1>10. w(0) \in Seq(O) /\ w(1) \in Seq(O)
    BY <1>7 DEF Columns
  <1>11. EraseOrder(t, ds) \in Seq(O)
    <2> HIDE DEF f, tb, w
    <2> QED BY <1>1, <1>5, <1>8, <1>9, <1>10
  <1>12. ASSUME Known(t)
         PROVE  /\ VitalRows(t) \subseteq ToSet(EraseOrder(t, ds))
                /\ EraseSorted(EraseOrder(t, ds))
                /\ EraseOrder(t, ds) # <<>>
                /\ Head(EraseOrder(t, ds)) \in {<<"index", t>>, <<"indexcol", t>>}
    <2>1. /\ <<"index", t>> \in registry /\ <<"set", t>> \in registry
          /\ \A k \in OwnKinds, c \in Columns : <<k, t, c>> \in registry
      <3>1. <<"index", t>> # <<"indexcol", t>> /\ <<"set", t>> # <<"indexcol", t>>
            /\ \A k, c : <<k, t, c>> # <<"indexcol", t>>
        OBVIOUS
      <3> QED BY <1>12, <3>1, OwnFacts DEF Known
    <2>2. \A c \in Columns : c \in DroppedConstraints(t) /\ c \in DroppedColumns(t)
      BY <2>1 DEF DroppedConstraints, DroppedColumns, OwnKinds
    <2> DEFINE u(c) == << <<"defconst", t, c>>, <<"constraint", t, c>> >>
               v(c) == << <<"coldef", t, c>>, <<"column", t, c>> >>
    <2>3. \A c \in Columns : w(c) = u(c) \o v(c)
      BY <1>6, <2>2
    <2>4. /\ k2 = << <<"index", t>> >> /\ k3 = << <<"setcol", t, 0>> >>
          /\ k4 = << <<"setcol", t, 1>> >> /\ k5 = << <<"set", t>> >>
          /\ k1 = <<>> \/ k1 = << <<"indexcol", t>> >>
      BY <2>1 DEF OwnKinds, Columns
    <2>5. \A s : (\A i, j \in DOMAIN s : i = j) => EraseSorted(s)
      BY DEF EraseSorted
    <2>6. \A s, a, b : (\A i \in DOMAIN s : EraseRank(s[i]) \in a..b) =>
                          \A x \in ToSet(s) : EraseRank(x) \in a..b
      BY DEF ToSet
    <2>7. /\ EraseSorted(k1) /\ EraseSorted(k2) /\ EraseSorted(k3)
          /\ EraseSorted(k4) /\ EraseSorted(k5)
      <3>1. /\ \A i, j \in DOMAIN k1 : i = j
            /\ \A i, j \in DOMAIN k2 : i = j
            /\ \A i, j \in DOMAIN k3 : i = j
            /\ \A i, j \in DOMAIN k4 : i = j
            /\ \A i, j \in DOMAIN k5 : i = j
        OBVIOUS
      <3> HIDE DEF k1, k2, k3, k4, k5
      <3> QED BY <2>5, <3>1
    <2>21. /\ \A x \in ToSet(k1) : EraseRank(x) \in 1..1
           /\ \A x \in ToSet(k2) : EraseRank(x) \in 1..1
           /\ \A x \in ToSet(k3) : EraseRank(x) \in 2..2
           /\ \A x \in ToSet(k4) : EraseRank(x) \in 2..2
           /\ \A x \in ToSet(k5) : EraseRank(x) \in 2..2
      <3>1. /\ \A i \in DOMAIN k1 : EraseRank(k1[i]) \in 1..1
            /\ \A i \in DOMAIN k2 : EraseRank(k2[i]) \in 1..1
            /\ \A i \in DOMAIN k3 : EraseRank(k3[i]) \in 2..2
            /\ \A i \in DOMAIN k4 : EraseRank(k4[i]) \in 2..2
            /\ \A i \in DOMAIN k5 : EraseRank(k5[i]) \in 2..2
        BY DEF EraseRank
      <3> HIDE DEF k1, k2, k3, k4, k5
      <3> QED BY <2>6, <3>1
    <2>22. /\ <<"index", t>> \in ToSet(k2) /\ <<"setcol", t, 0>> \in ToSet(k3)
           /\ <<"setcol", t, 1>> \in ToSet(k4) /\ <<"set", t>> \in ToSet(k5)
      <3>1. \A x : x \in ToSet(<<x>>)
        <4>1. \A x : 1 \in DOMAIN <<x>> /\ <<x>>[1] = x
          OBVIOUS
        <4> QED BY <4>1 DEF ToSet
      <3> HIDE DEF k1, k2, k3, k4, k5
      <3> QED BY <2>4, <3>1
    <2>23. /\ \A i \in DOMAIN k1 : k1[i] = <<"indexcol", t>>
           /\ k2[1] = <<"index", t>> /\ Len(k2) = 1
           /\ (Len(k1) = 0 \/ (Len(k1) = 1 /\ k1[1] = <<"indexcol", t>>))
      BY <2>4
    <2> HIDE DEF w, k1, k2, k3, k4, k5
    <2>8. /\ EraseSorted(tb) /\ \A x \in ToSet(tb) : EraseRank(x) \in 2..2
          /\ <<"table", t>> \in ToSet(tb)
      <3>1. DOMAIN tb = 1..1 /\ tb[1] = <<"table", t>> /\ EraseRank(tb[1]) = 2
        BY DEF EraseRank
      <3> HIDE DEF tb
      <3> QED BY <3>1 DEF EraseSorted, Before, ToSet
    <2>9. /\ EraseSorted(w(0)) /\ \A x \in ToSet(w(0)) : EraseRank(x) \in 3..5
          /\ {<<"defconst", t, 0>>, <<"constraint", t, 0>>, <<"coldef", t, 0>>} \subseteq ToSet(w(0))
      <3> DEFINE p == u(0)
                 q == v(0)
      <3>1. w(0) = p \o q
        BY <2>3 DEF Columns
      <3>2. /\ DOMAIN p = 1..2 /\ DOMAIN q = 1..2
            /\ p[1] = <<"defconst", t, 0>> /\ p[2] = <<"constraint", t, 0>>
            /\ q[1] = <<"coldef", t, 0>> /\ q[2] = <<"column", t, 0>>
        OBVIOUS
      <3>3. p \in Seq(O) /\ q \in Seq(O)
        BY <1>3 DEF OwnKinds, Columns
      <3>4. /\ EraseRank(p[1]) \in 3..3 /\ EraseRank(p[2]) \in 3..3
            /\ EraseRank(q[1]) \in 4..4 /\ EraseRank(q[2]) \in 5..5
        BY DEF EraseRank
      <3> HIDE DEF p, q
      <3>5. EraseSorted(p) /\ EraseSorted(q)
        <4>1. \A i, j \in DOMAIN p : i < j => i = 1 /\ j = 2
          BY <3>2
        <4>2. \A i, j \in DOMAIN q : i < j => i = 1 /\ j = 2
          BY <3>2
        <4>3. Before(p[1], p[2]) /\ Before(q[1], q[2])
          BY <3>4 DEF Before
        <4> QED BY <4>1, <4>2, <4>3 DEF EraseSorted
      <3>6. /\ \A x \in ToSet(p) : EraseRank(x) \in 3..3
            /\ \A x \in ToSet(q) : EraseRank(x) \in 4..5
        <4>0. /\ \A i \in DOMAIN p : i = 1 \/ i = 2
              /\ \A i \in DOMAIN q : i = 1 \/ i = 2
          BY <3>2
        <4>1. \A i \in DOMAIN p : EraseRank(p[i]) \in 3..3
          BY <3>4, <4>0
        <4>2. \A i \in DOMAIN q : EraseRank(q[i]) \in 4..5
          <5>1. EraseRank(q[1]) \in 4..5 /\ EraseRank(q[2]) \in 4..5
            BY <3>4
          <5> QED BY <4>0, <5>1
        <4> QED BY <4>1, <4>2, <2>6
      <3>7. \A x \in ToSet(p), y \in ToSet(q) : Before(x, y)
        BY <3>6 DEF Before
      <3>c. EraseSorted(p \o q) /\ ToSet(p \o q) = ToSet(p) \cup ToSet(q)
        <4> HIDE DEF O
        <4>1. /\ ToSet(p \o q) = ToSet(p) \cup ToSet(q)
              /\ /\ EraseSorted(p) /\ EraseSorted(q)
                 /\ \A x \in ToSet(p), y \in ToSet(q) : Before(x, y)
                 => EraseSorted(p \o q)
          BY <3>3, ConcatFacts, Zenon
        <4> QED BY <3>5, <3>7, <4>1
      <3>8. EraseSorted(w(0)) /\ ToSet(w(0)) = ToSet(p) \cup ToSet(q)
        BY <3>1, <3>c, Zenon
      <3>9. /\ <<"defconst", t, 0>> \in ToSet(p) /\ <<"constraint", t, 0>> \in ToSet(p)
            /\ <<"coldef", t, 0>> \in ToSet(q)
        BY <3>2 DEF ToSet
      <3>10. \A x \in ToSet(w(0)) : EraseRank(x) \in 3..5
        BY <3>6, <3>8
      <3> QED BY <3>8, <3>9, <3>10
    <2>10. /\ EraseSorted(w(1)) /\ \A x \in ToSet(w(1)) : EraseRank(x) \in 6..8
          /\ {<<"defconst", t, 1>>, <<"constraint", t, 1>>, <<"coldef", t, 1>>} \subseteq ToSet(w(1))
      <3> DEFINE p == u(1)
                 q == v(1)
      <3>1. w(1) = p \o q
        BY <2>3 DEF Columns
      <3>2. /\ DOMAIN p = 1..2 /\ DOMAIN q = 1..2
            /\ p[1] = <<"defconst", t, 1>> /\ p[2] = <<"constraint", t, 1>>
            /\ q[1] = <<"coldef", t, 1>> /\ q[2] = <<"column", t, 1>>
        OBVIOUS
      <3>3. p \in Seq(O) /\ q \in Seq(O)
        BY <1>3 DEF OwnKinds, Columns
      <3>4. /\ EraseRank(p[1]) \in 6..6 /\ EraseRank(p[2]) \in 6..6
            /\ EraseRank(q[1]) \in 7..7 /\ EraseRank(q[2]) \in 8..8
        BY DEF EraseRank
      <3> HIDE DEF p, q
      <3>5. EraseSorted(p) /\ EraseSorted(q)
        <4>1. \A i, j \in DOMAIN p : i < j => i = 1 /\ j = 2
          BY <3>2
        <4>2. \A i, j \in DOMAIN q : i < j => i = 1 /\ j = 2
          BY <3>2
        <4>3. Before(p[1], p[2]) /\ Before(q[1], q[2])
          BY <3>4 DEF Before
        <4> QED BY <4>1, <4>2, <4>3 DEF EraseSorted
      <3>6. /\ \A x \in ToSet(p) : EraseRank(x) \in 6..6
            /\ \A x \in ToSet(q) : EraseRank(x) \in 7..8
        <4>0. /\ \A i \in DOMAIN p : i = 1 \/ i = 2
              /\ \A i \in DOMAIN q : i = 1 \/ i = 2
          BY <3>2
        <4>1. \A i \in DOMAIN p : EraseRank(p[i]) \in 6..6
          BY <3>4, <4>0
        <4>2. \A i \in DOMAIN q : EraseRank(q[i]) \in 7..8
          <5>1. EraseRank(q[1]) \in 7..8 /\ EraseRank(q[2]) \in 7..8
            BY <3>4
          <5> QED BY <4>0, <5>1
        <4> QED BY <4>1, <4>2, <2>6
      <3>7. \A x \in ToSet(p), y \in ToSet(q) : Before(x, y)
        BY <3>6 DEF Before
      <3>c. EraseSorted(p \o q) /\ ToSet(p \o q) = ToSet(p) \cup ToSet(q)
        <4> HIDE DEF O
        <4>1. /\ ToSet(p \o q) = ToSet(p) \cup ToSet(q)
              /\ /\ EraseSorted(p) /\ EraseSorted(q)
                 /\ \A x \in ToSet(p), y \in ToSet(q) : Before(x, y)
                 => EraseSorted(p \o q)
          BY <3>3, ConcatFacts, Zenon
        <4> QED BY <3>5, <3>7, <4>1
      <3>8. EraseSorted(w(1)) /\ ToSet(w(1)) = ToSet(p) \cup ToSet(q)
        BY <3>1, <3>c, Zenon
      <3>9. /\ <<"defconst", t, 1>> \in ToSet(p) /\ <<"constraint", t, 1>> \in ToSet(p)
            /\ <<"coldef", t, 1>> \in ToSet(q)
        BY <3>2 DEF ToSet
      <3>10. \A x \in ToSet(w(1)) : EraseRank(x) \in 6..8
        BY <3>6, <3>8
      <3> QED BY <3>8, <3>9, <3>10
    <2>11. EraseSorted(e)
      <3>1. \A i \in DOMAIN e : EraseRank(e[i]) \in 9..9
        BY <1>5 DEF ToSet
      <3> QED BY <3>1 DEF EraseSorted, Before
    <2> HIDE DEF tb, f
    <2> DEFINE f2 == k1 \o k2
               f3 == f2 \o k3
               f4 == f3 \o k4
               f5 == f4 \o k5
               s2 == f5 \o tb
               s3 == s2 \o w(0)
               s4 == s3 \o w(1)
               s5 == s4 \o e
    <2>24. f = f5
      BY <1>9
    <2>25. /\ f2 \in Seq(O) /\ EraseSorted(f2) /\ ToSet(f2) = ToSet(k1) \cup ToSet(k2)
           /\ \A x \in ToSet(f2) : EraseRank(x) \in 1..1
      <3>1. \A x \in ToSet(k1) : EraseRank(x) \in 1..1
        BY <2>21
      <3>2. \A y \in ToSet(k2) : EraseRank(y) \in 1..1
        BY <2>21
      <3>3. \A x \in ToSet(k1), y \in ToSet(k2) : Before(x, y)
        BY <3>1, <3>2 DEF Before
      <3>4. f2 \in Seq(O) /\ EraseSorted(f2) /\ ToSet(f2) = ToSet(k1) \cup ToSet(k2)
        <4>1. k1 \in Seq(O) /\ k2 \in Seq(O) /\ EraseSorted(k1) /\ EraseSorted(k2)
          BY <1>8, <2>7
        <4> QED BY <4>1, <3>3, ConcatFacts
      <3>5. \A x \in ToSet(f2) : EraseRank(x) \in 1..1
        BY <3>1, <3>2, <3>4
      <3> QED BY <3>4, <3>5
    <2> HIDE DEF f2
    <2>26. /\ f3 \in Seq(O) /\ EraseSorted(f3) /\ ToSet(f3) = ToSet(f2) \cup ToSet(k3)
           /\ \A x \in ToSet(f3) : EraseRank(x) \in 1..2
      <3>1. \A x \in ToSet(f2) : EraseRank(x) \in 1..1
        BY <2>25
      <3>2. \A y \in ToSet(k3) : EraseRank(y) \in 2..2
        BY <2>21
      <3>3. \A x \in ToSet(f2), y \in ToSet(k3) : Before(x, y)
        BY <3>1, <3>2 DEF Before
      <3>4. f3 \in Seq(O) /\ EraseSorted(f3) /\ ToSet(f3) = ToSet(f2) \cup ToSet(k3)
        <4>1. f2 \in Seq(O) /\ k3 \in Seq(O) /\ EraseSorted(f2) /\ EraseSorted(k3)
          BY <1>8, <2>7, <2>25
        <4> QED BY <4>1, <3>3, ConcatFacts
      <3>5. \A x \in ToSet(f3) : EraseRank(x) \in 1..2
        BY <3>1, <3>2, <3>4
      <3> QED BY <3>4, <3>5
    <2> HIDE DEF f3
    <2>27. /\ f4 \in Seq(O) /\ EraseSorted(f4) /\ ToSet(f4) = ToSet(f3) \cup ToSet(k4)
           /\ \A x \in ToSet(f4) : EraseRank(x) \in 1..2
      <3>1. \A x \in ToSet(f3) : EraseRank(x) \in 1..2
        BY <2>26
      <3>2. \A y \in ToSet(k4) : EraseRank(y) \in 2..2
        BY <2>21
      <3>3. \A x \in ToSet(f3), y \in ToSet(k4) : Before(x, y)
        BY <3>1, <3>2 DEF Before
      <3>4. f4 \in Seq(O) /\ EraseSorted(f4) /\ ToSet(f4) = ToSet(f3) \cup ToSet(k4)
        <4>1. f3 \in Seq(O) /\ k4 \in Seq(O) /\ EraseSorted(f3) /\ EraseSorted(k4)
          BY <1>8, <2>7, <2>26
        <4> QED BY <4>1, <3>3, ConcatFacts
      <3>5. \A x \in ToSet(f4) : EraseRank(x) \in 1..2
        BY <3>1, <3>2, <3>4
      <3> QED BY <3>4, <3>5
    <2> HIDE DEF f4
    <2>12. /\ f5 \in Seq(O) /\ EraseSorted(f5) /\ ToSet(f5) = ToSet(f4) \cup ToSet(k5)
           /\ \A x \in ToSet(f5) : EraseRank(x) \in 1..2
      <3>1. \A x \in ToSet(f4) : EraseRank(x) \in 1..2
        BY <2>27
      <3>2. \A y \in ToSet(k5) : EraseRank(y) \in 2..2
        BY <2>21
      <3>3. \A x \in ToSet(f4), y \in ToSet(k5) : Before(x, y)
        BY <3>1, <3>2 DEF Before
      <3>4. f5 \in Seq(O) /\ EraseSorted(f5) /\ ToSet(f5) = ToSet(f4) \cup ToSet(k5)
        <4>1. f4 \in Seq(O) /\ k5 \in Seq(O) /\ EraseSorted(f4) /\ EraseSorted(k5)
          BY <1>8, <2>7, <2>27
        <4> QED BY <4>1, <3>3, ConcatFacts
      <3>5. \A x \in ToSet(f5) : EraseRank(x) \in 1..2
        BY <3>1, <3>2, <3>4
      <3> QED BY <3>4, <3>5
    <2> HIDE DEF f5
    <2>14. /\ s2 \in Seq(O) /\ EraseSorted(s2) /\ ToSet(s2) = ToSet(f5) \cup ToSet(tb)
           /\ \A x \in ToSet(s2) : EraseRank(x) \in 1..2
      <3>1. \A x \in ToSet(f5) : EraseRank(x) \in 1..2
        BY <2>12
      <3>2. \A y \in ToSet(tb) : EraseRank(y) \in 2..2
        BY <2>8
      <3>3. \A x \in ToSet(f5), y \in ToSet(tb) : Before(x, y)
        BY <3>1, <3>2 DEF Before
      <3>4. s2 \in Seq(O) /\ EraseSorted(s2) /\ ToSet(s2) = ToSet(f5) \cup ToSet(tb)
        <4>1. f5 \in Seq(O) /\ tb \in Seq(O) /\ EraseSorted(f5) /\ EraseSorted(tb)
          BY <1>8, <2>8, <2>12
        <4> QED BY <4>1, <3>3, ConcatFacts
      <3>5. \A x \in ToSet(s2) : EraseRank(x) \in 1..2
        BY <3>1, <3>2, <3>4
      <3> QED BY <3>4, <3>5
    <2> HIDE DEF s2
    <2>15. /\ s3 \in Seq(O) /\ EraseSorted(s3) /\ ToSet(s3) = ToSet(s2) \cup ToSet(w(0))
           /\ \A x \in ToSet(s3) : EraseRank(x) \in 1..5
      <3>1. \A x \in ToSet(s2) : EraseRank(x) \in 1..2
        BY <2>14
      <3>2. \A y \in ToSet(w(0)) : EraseRank(y) \in 3..5
        BY <2>9
      <3>3. \A x \in ToSet(s2), y \in ToSet(w(0)) : Before(x, y)
        BY <3>1, <3>2 DEF Before
      <3>4. s3 \in Seq(O) /\ EraseSorted(s3) /\ ToSet(s3) = ToSet(s2) \cup ToSet(w(0))
        <4>1. s2 \in Seq(O) /\ w(0) \in Seq(O) /\ EraseSorted(s2) /\ EraseSorted(w(0))
          BY <1>10, <2>9, <2>14
        <4> QED BY <4>1, <3>3, ConcatFacts
      <3>5. \A x \in ToSet(s3) : EraseRank(x) \in 1..5
        BY <3>1, <3>2, <3>4
      <3> QED BY <3>4, <3>5
    <2> HIDE DEF s3
    <2>16. /\ s4 \in Seq(O) /\ EraseSorted(s4) /\ ToSet(s4) = ToSet(s3) \cup ToSet(w(1))
           /\ \A x \in ToSet(s4) : EraseRank(x) \in 1..8
      <3>1. \A x \in ToSet(s3) : EraseRank(x) \in 1..5
        BY <2>15
      <3>2. \A y \in ToSet(w(1)) : EraseRank(y) \in 6..8
        BY <2>10
      <3>3. \A x \in ToSet(s3), y \in ToSet(w(1)) : Before(x, y)
        BY <3>1, <3>2 DEF Before
      <3>4. s4 \in Seq(O) /\ EraseSorted(s4) /\ ToSet(s4) = ToSet(s3) \cup ToSet(w(1))
        <4>1. s3 \in Seq(O) /\ w(1) \in Seq(O) /\ EraseSorted(s3) /\ EraseSorted(w(1))
          BY <1>10, <2>10, <2>15
        <4> QED BY <4>1, <3>3, ConcatFacts
      <3>5. \A x \in ToSet(s4) : EraseRank(x) \in 1..8
        BY <3>1, <3>2, <3>4
      <3> QED BY <3>4, <3>5
    <2> HIDE DEF s4
    <2>17. /\ s5 \in Seq(O) /\ EraseSorted(s5) /\ ToSet(s5) = ToSet(s4) \cup ToSet(e)
           /\ \A x \in ToSet(s5) : EraseRank(x) \in 1..9
      <3>1. \A x \in ToSet(s4) : EraseRank(x) \in 1..8
        BY <2>16
      <3>2. \A y \in ToSet(e) : EraseRank(y) \in 9..9
        BY <1>5
      <3>3. \A x \in ToSet(s4), y \in ToSet(e) : Before(x, y)
        BY <3>1, <3>2 DEF Before
      <3>4. s5 \in Seq(O) /\ EraseSorted(s5) /\ ToSet(s5) = ToSet(s4) \cup ToSet(e)
        <4>1. s4 \in Seq(O) /\ e \in Seq(O) /\ EraseSorted(s4) /\ EraseSorted(e)
          BY <1>5, <2>11, <2>16
        <4> QED BY <4>1, <3>3, ConcatFacts
      <3>5. \A x \in ToSet(s5) : EraseRank(x) \in 1..9
        BY <3>1, <3>2, <3>4
      <3> QED BY <3>4, <3>5
    <2> HIDE DEF s5
    <2>18. EraseOrder(t, ds) = s5
      BY <1>1, <2>24 DEF s2, s3, s4, s5
    <2>28. /\ \A p, q \in Seq(O) : Len(p) > 0 => Len(p \o q) > 0 /\ (p \o q)[1] = p[1]
           /\ \A p, q \in Seq(O) : Len(p) = 0 /\ Len(q) > 0 => Len(p \o q) > 0 /\ (p \o q)[1] = q[1]
      OBVIOUS
    <2>19. s5 # <<>> /\ Head(s5) \in {<<"index", t>>, <<"indexcol", t>>}
      <3>1. Len(f2) > 0 /\ f2[1] \in {<<"index", t>>, <<"indexcol", t>>}
        <4>1. CASE Len(k1) = 0
          <5>0. k1 \in Seq(O) /\ k2 \in Seq(O) /\ Len(k2) > 0
            BY <1>8, <2>23
          <5>1. Len(k1 \o k2) > 0 /\ (k1 \o k2)[1] = k2[1]
            BY <2>28, <4>1, <5>0
          <5> QED BY <2>23, <5>1 DEF f2
        <4>2. CASE Len(k1) = 1 /\ k1[1] = <<"indexcol", t>>
          <5>0. k1 \in Seq(O) /\ k2 \in Seq(O) /\ Len(k1) > 0
            BY <1>8, <4>2
          <5>1. Len(k1 \o k2) > 0 /\ (k1 \o k2)[1] = k1[1]
            BY <2>28, <5>0
          <5> QED BY <4>2, <5>1 DEF f2
        <4> QED BY <2>23, <4>1, <4>2
      <3>2. Len(f3) > 0 /\ f3[1] = f2[1]
        BY <1>8, <2>25, <2>28, <3>1 DEF f3
      <3>3. Len(f4) > 0 /\ f4[1] = f2[1]
        BY <1>8, <2>26, <2>28, <3>2 DEF f4
      <3>4. Len(f5) > 0 /\ f5[1] = f2[1]
        BY <1>8, <2>27, <2>28, <3>3 DEF f5
      <3>5. Len(s2) > 0 /\ s2[1] = f2[1]
        BY <1>8, <2>12, <2>28, <3>4 DEF s2
      <3>6. Len(s3) > 0 /\ s3[1] = f2[1]
        BY <1>10, <2>14, <2>28, <3>5 DEF s3
      <3>7. Len(s4) > 0 /\ s4[1] = f2[1]
        BY <1>10, <2>15, <2>28, <3>6 DEF s4
      <3>8. Len(s5) > 0 /\ s5[1] = f2[1]
        BY <1>5, <2>16, <2>28, <3>7 DEF s5
      <3> QED BY <2>17, <3>1, <3>8
    <2>20. VitalRows(t) \subseteq ToSet(s5)
      <3>1. /\ ToSet(k2) \cup ToSet(k3) \cup ToSet(k4) \cup ToSet(k5) \subseteq ToSet(f5)
            /\ ToSet(f5) \cup ToSet(tb) \cup ToSet(w(0)) \cup ToSet(w(1)) \subseteq ToSet(s5)
        BY <2>25, <2>26, <2>27, <2>12, <2>14, <2>15, <2>16, <2>17
      <3>2. \A k \in OwnKinds \ {"column"}, c \in Columns : <<k, t, c>> \in ToSet(s5)
        BY <2>22, <2>9, <2>10, <3>1 DEF OwnKinds, Columns
      <3>3. {<<"table", t>>, <<"set", t>>, <<"index", t>>} \subseteq ToSet(s5)
        BY <2>22, <2>8, <3>1
      <3>4. \A x \in VitalRows(t) :
                \/ x \in {<<"table", t>>, <<"set", t>>, <<"index", t>>}
                \/ \E k \in OwnKinds \ {"column"}, c \in Columns : x = <<k, t, c>>
        <4> SUFFICES ASSUME NEW x \in VitalRows(t)
                     PROVE  \/ x \in {<<"table", t>>, <<"set", t>>, <<"index", t>>}
                            \/ \E k \in OwnKinds \ {"column"}, c \in Columns : x = <<k, t, c>>
          OBVIOUS
        <4>1. CASE x \in {<<"table", t>>, <<"set", t>>, <<"index", t>>, <<"indexcol", t>>}
          BY <4>1 DEF VitalRows
        <4>2. ASSUME NEW k \in OwnKinds, NEW c \in Columns, x = <<k, t, c>>
              PROVE  k # "column"
          BY <4>2 DEF VitalRows, Columns
        <4>3. \/ x \in {<<"table", t>>, <<"set", t>>, <<"index", t>>, <<"indexcol", t>>}
              \/ \E k \in OwnKinds, c \in Columns : x = <<k, t, c>>
          BY DEF VitalRows, OwnRows, OwnKinds
        <4> QED BY <4>1, <4>2, <4>3
      <3> QED BY <3>2, <3>3, <3>4
    <2> QED BY <2>17, <2>18, <2>19, <2>20
  <1> QED BY <1>11, <1>12 DEF O

------------------------------------------------------------------------------
(***************************************************************************)
(* The steps.                                                              *)
(***************************************************************************)
LEMMA CatInit == ASSUME Init PROVE CatInv
  <1>1. rows = {} /\ registry = {} /\ complete = {} /\ torn = {} /\ stmt = Idle /\ lastTable = 0
        /\ removed = {} /\ contentOf = [t \in Tables |-> NotNull]
    BY DEF Init
  <1>2. stmt.kind = "none"
    BY <1>1 DEF Idle
  <1>3. CatTypes /\ DefinitionsThere /\ CompleteRecorded /\ RemovedOK
    BY <1>1, <1>2 DEF CatTypes, DefinitionsThere, CompleteRecorded, RemovedOK
  <1>4. RowsRegistered /\ WholeOrGone
    BY <1>1 DEF RowsRegistered, WholeOrGone, Gone
  <1>5. CreateOK /\ DropOK
    BY <1>2 DEF CreateOK, DropOK
  <1> QED BY <1>3, <1>4, <1>5 DEF CatInv

\* The statement ends or breaks off, and what is in the window is torn.
LEMMA BreakOffCat ==
    ASSUME CatInv, UNCHANGED <<rows, lastTable, contentOf, complete, removed>>, stmt' = Idle,
           torn \subseteq torn', stmt # Idle /\ InWindow => stmt.table \in torn',
           \/ registry' = registry /\ status' = status
           \/ registry' = {} /\ status' = "refused"
    PROVE  CatInv'
  <1>1. stmt'.kind = "none"
    BY DEF Idle
  <1>2. CatTypes' /\ CompleteRecorded' /\ RemovedOK'
    BY DEF CatInv, CatTypes, CompleteRecorded, RemovedOK, Gone
  <1>3. DefinitionsThere'
    BY <1>1 DEF CatInv, DefinitionsThere, Content
  <1>4. RowsRegistered'
    BY DEF CatInv, RowsRegistered, Known
  <1>5. WholeOrGone'
    BY DEF CatInv, WholeOrGone, Gone, Whole, Content
  <1>6. CreateOK' /\ DropOK'
    BY <1>1 DEF CreateOK, DropOK
  <1> QED BY <1>2, <1>3, <1>4, <1>5, <1>6 DEF CatInv

\* The definitions that a DROP TABLE erases depend on the registries alone.
LEMMA RemovableSame ==
    ASSUME UNCHANGED <<registry, contentOf>>, NEW t
    PROVE  RemovableDefinitions(t)' = RemovableDefinitions(t)
  <1>1. DroppedColumns(t)' = DroppedColumns(t)
    BY DEF DroppedColumns
  <1>2. DroppedConstraints(t)' = DroppedConstraints(t)
    BY <1>1 DEF DroppedConstraints
  <1> QED BY <1>2 DEF RemovableDefinitions, Content

LEMMA SameCat == ASSUME CatInv, UNCHANGED catVars PROVE CatInv'
  <1>1. UNCHANGED <<rows, lastTable, contentOf, complete, registry, status, torn, stmt, freed,
                    removed>>
    BY DEF catVars
  <1>2. CatTypes' /\ CompleteRecorded' /\ RemovedOK'
    BY <1>1 DEF CatInv, CatTypes, CompleteRecorded, RemovedOK, Gone
  <1>3. DefinitionsThere'
    BY <1>1 DEF CatInv, DefinitionsThere, Content
  <1>4. RowsRegistered'
    BY <1>1 DEF CatInv, RowsRegistered, Known
  <1>5. WholeOrGone'
    BY <1>1 DEF CatInv, WholeOrGone, Gone, Whole, Content, InWindow, LeftBehind, Todo
  <1>6. CreateOK'
    BY <1>1 DEF CatInv, CreateOK, Known
  <1>7. DropOK'
    <2>1. \A t : RemovableDefinitions(t)' = RemovableDefinitions(t)
      BY <1>1, RemovableSame
    <2>2. \A t : Gone(t)' = Gone(t)
      BY <1>1 DEF Gone
    <2>3. \A t : DropOrder(t)' = DropOrder(t) /\ ReadInPart(t)' = ReadInPart(t)
      BY <1>1 DEF DropOrder, ReadInPart
    <2> QED BY <1>1, <2>1, <2>2, <2>3 DEF CatInv, DropOK
  <1> QED BY <1>2, <1>3, <1>4, <1>5, <1>6, <1>7 DEF CatInv

\* What keeps the invariant when a step adds or erases nothing.
LEMMA EndStatementCat ==
    ASSUME IInv, CatInv, RecordRowFails \/ EndCreate \/ EndCreateFails \/ EraseRowFails
    PROVE  CatInv'
  <1>1. UNCHANGED <<rows, lastTable, contentOf, complete, registry, status, removed>> /\ stmt' = Idle
    BY DEF RecordRowFails, EndCreate, EndCreateFails, EraseRowFails
  <1>2. torn \subseteq torn'
    BY DEF RecordRowFails, EndCreate, EndCreateFails, EraseRowFails
  <1>3. InWindow => stmt.table \in torn'
    <2>1. CASE RecordRowFails \/ EraseRowFails
      BY <2>1 DEF RecordRowFails, EraseRowFails
    <2>2. CASE EndCreate \/ EndCreateFails
      <3>1. stmt.kind = "create" /\ Todo = <<>>
        BY <2>2 DEF EndCreate, EndCreateFails
      <3> QED BY <3>1 DEF InWindow
    <2> QED BY <2>1, <2>2
  <1> QED BY <1>1, <1>2, <1>3, BreakOffCat

\* The ranks of the rows that CREATE TABLE records.
LEMMA RecordRanks ==
    ASSUME NEW t
    PROVE  /\ RecordRank(<<"table", t>>) = 1 /\ RecordRank(<<"indexcol", t>>) = 5
           /\ \A c : /\ RecordRank(<<"coldef", t, c>>) = 2
                     /\ RecordRank(<<"constraint", t, c>>) = 3
           /\ \A r \in RecordedObjects(t) : /\ RecordRank(r) \in 1..5
                                            /\ RecordRank(r) = 1 => r = <<"table", t>>
                                            /\ RecordRank(r) = 5 => r = <<"indexcol", t>>
           /\ OwnRows(t) \subseteq RecordedObjects(t)
           /\ \A r \in RecordedObjects(t) : r \in OwnRows(t) \/ r[1] = "constdef"
  <1>1. RecordRank(<<"table", t>>) = 1 /\ RecordRank(<<"indexcol", t>>) = 5
    BY DEF RecordRank
  <1>2. \A c : /\ RecordRank(<<"coldef", t, c>>) = 2
               /\ RecordRank(<<"constraint", t, c>>) = 3
    BY DEF RecordRank
  <1>3. ASSUME NEW r \in RecordedObjects(t)
        PROVE  /\ RecordRank(r) \in 1..5
               /\ RecordRank(r) = 1 => r = <<"table", t>>
               /\ RecordRank(r) = 5 => r = <<"indexcol", t>>
    BY DEF RecordedObjects, RecordRank
  <1>4. /\ OwnRows(t) \subseteq RecordedObjects(t)
        /\ \A r \in RecordedObjects(t) : r \in OwnRows(t) \/ r[1] = "constdef"
    BY DEF OwnRows, OwnKinds, RecordedObjects
  <1> QED BY <1>1, <1>2, <1>3, <1>4

LEMMA RecordRowCat ==
    ASSUME IInv, CatInv, RecordRow
    PROVE  CatInv'
  <1>0. PICK t : t = stmt.table
    OBVIOUS
  <1> DEFINE r == Head(stmt.todo)
             q == Tail(stmt.todo)
             Own == OwnRows(t)
  <1>1. /\ stmt.kind = "create" /\ stmt.todo # <<>> /\ rows' = rows \cup {r}
        /\ torn' = IF MissesDefinition(r) THEN torn \cup {t} ELSE torn
        /\ complete' = IF Len(stmt.todo) = 1 THEN complete \cup {t} ELSE complete
        /\ stmt' = [stmt EXCEPT !.todo = Tail(@)]
        /\ UNCHANGED <<lastTable, contentOf, registry, status, removed>>
    BY <1>0 DEF RecordRow, Todo, Row
  <1>2. /\ DOMAIN stmt = {"kind", "table", "user", "todo"} /\ t = lastTable /\ t \in Tables
        /\ stmt.todo \in Seq(RecordedObjects(t)) /\ lastTable \in Nat
    BY <1>0, <1>1 DEF IInv, StatementOK, TablesKnown, Tables, Idle
  <1>3. stmt'.kind = "create" /\ stmt'.table = t /\ stmt'.todo = q
    BY <1>0, <1>1, <1>2
  <1>4. /\ Own \subseteq rows \cup ToSet(stmt.todo) /\ RecordSorted(stmt.todo) /\ Known(t)
        /\ rows \cap Own = {} \/ <<"table", t>> \in rows
        /\ <<"indexcol", t>> \in rows => Own \subseteq rows
    BY <1>0, <1>1 DEF CatInv, CreateOK
  <1>5. /\ r \in RecordedObjects(t) /\ q \in Seq(RecordedObjects(t))
        /\ ToSet(stmt.todo) = {r} \cup ToSet(q) /\ RecordSorted(q)
        /\ \A x \in ToSet(q) : RecordRank(r) <= RecordRank(x)
    BY <1>1, <1>2, <1>4, TailFacts
  <1>6. r \in Own \/ r[1] = "constdef"
    BY <1>5, RecordRanks
  <1>7. \A x : x # t => r \notin OwnRows(x)
    BY <1>6, OwnFacts
  <1>8. /\ \A o \in Own : o \in rows \/ o = r \/ o \in ToSet(q)
        /\ RecordRank(r) \in 1..5
        /\ RecordRank(r) = 1 => r = <<"table", t>>
        /\ \A o \in Own : RecordRank(o) \in 1..5 /\ (RecordRank(o) = 5 => o = <<"indexcol", t>>)
    BY <1>4, <1>5, RecordRanks
  <1>9. <<"indexcol", t>> \in rows' => Own \subseteq rows'
    <2> SUFFICES ASSUME <<"indexcol", t>> \in rows', NEW o \in Own
                 PROVE  o \in rows'
      OBVIOUS
    <2>1. CASE <<"indexcol", t>> \in rows
      BY <1>1, <1>4, <2>1
    <2>2. CASE r = <<"indexcol", t>>
      <3>1. RecordRank(r) = 5
        BY <2>2, RecordRanks
      <3>2. o \in ToSet(q) => RecordRank(o) = 5
        BY <1>5, <1>8, <3>1
      <3> QED BY <1>1, <1>8, <2>2, <3>2
    <2> QED BY <1>1, <2>1, <2>2
  <1>10. rows' \cap Own = {} \/ <<"table", t>> \in rows'
    <2>1. CASE rows \cap Own # {}
      BY <1>1, <1>4, <2>1
    <2>2. CASE rows \cap Own = {}
      <3>1. <<"table", t>> \in Own
        BY OwnFacts
      <3>2. <<"table", t>> = r \/ <<"table", t>> \in ToSet(q)
        BY <1>8, <2>2, <3>1
      <3>3. <<"table", t>> \in ToSet(q) => RecordRank(r) = 1
        <4>1. RecordRank(<<"table", t>>) = 1
          BY RecordRanks
        <4> QED BY <1>5, <1>8, <4>1
      <3> QED BY <1>1, <1>8, <3>2, <3>3
    <2> QED BY <2>1, <2>2
  <1>11. CatTypes'
    <2>1. \A x \in Tables : x > lastTable => (rows' \cup registry') \cap OwnRows(x) = {}
      <3>1. \A x \in Tables : x > lastTable => x # t
        BY <1>2
      <3> QED BY <1>1, <1>7, <3>1 DEF CatInv, CatTypes
    <2>2. complete' \subseteq 1..lastTable
      BY <1>1, <1>2 DEF CatInv, CatTypes, Tables
    <2> QED BY <1>1, <2>1, <2>2 DEF CatInv, CatTypes
  <1>12. <<"table", t>> \in registry
    BY <1>4, OwnFacts DEF Known
  <1>13. RemovedOK'
    <2> SUFFICES ASSUME NEW x \in removed
                 PROVE  /\ x \in 1..lastTable /\ <<"table", x>> \notin registry
                        /\ x \in torn' \/ Gone(x)'
      BY <1>1 DEF RemovedOK
    <2>1. /\ x \in 1..lastTable /\ <<"table", x>> \notin registry
          /\ x \in torn \/ Gone(x)
      BY DEF CatInv, RemovedOK
    <2>2. r \notin VitalRows(x)
      BY <1>7, <1>12, <2>1, VitalFacts
    <2> QED BY <1>1, <2>1, <2>2 DEF Gone
  <1>14. DefinitionsThere'
    <2>1. ASSUME t \notin torn', NEW c \in Columns, <<"constraint", t, c>> \in rows'
          PROVE  <<"constdef", Content(t, c)>> \in rows'
      <3>0. t \notin torn
        BY <1>1, <2>1
      <3>1. CASE <<"constraint", t, c>> \in rows
        BY <1>0, <1>1, <3>0, <3>1 DEF CatInv, DefinitionsThere
      <3>2. CASE r = <<"constraint", t, c>>
        <4>1. ~MissesDefinition(r)
          BY <1>1, <2>1
        <4>2. r[1] = "constraint" /\ r[2] = t /\ r[3] = c
          BY <3>2
        <4> QED BY <1>1, <4>1, <4>2 DEF MissesDefinition
      <3> QED BY <1>1, <2>1, <3>1, <3>2
    <2>2. \A x, c : Content(x, c)' = Content(x, c)
      BY <1>1 DEF Content
    <2> QED BY <1>1, <1>3, <2>1, <2>2 DEF CatInv, DefinitionsThere
  <1>15. RowsRegistered'
    <2> SUFFICES ASSUME status = "up", NEW x \in Tables \ torn'
                 PROVE  /\ <<"table", x>> \in rows' => <<"table", x>> \in registry
                        /\ <<"table", x>> \in registry =>
                               Known(x) \/ rows' \cap OwnRows(x) = {}
      BY <1>1 DEF RowsRegistered, Known
    <2>1. /\ <<"table", x>> \in rows => <<"table", x>> \in registry
          /\ <<"table", x>> \in registry => Known(x) \/ rows \cap OwnRows(x) = {}
      BY <1>1 DEF CatInv, RowsRegistered
    <2>2. CASE x = t
      <3>1. <<"table", t>> \in Own /\ <<"table", t>> # <<"indexcol", t>>
        BY OwnFacts
      <3> QED BY <1>4, <2>2, <3>1 DEF Known
    <2>3. CASE x # t
      <3>1. r \notin OwnRows(x) /\ <<"table", x>> \in OwnRows(x)
        BY <1>7, <2>3, OwnFacts
      <3> QED BY <1>1, <2>1, <3>1
    <2> QED BY <2>2, <2>3
  <1>16. Len(stmt.todo) = 1 \/ q = <<>> => Own \subseteq rows'
    <2>1. Len(stmt.todo) = 1 \/ q = <<>> => DOMAIN q = {}
      BY <1>1, <1>2
    <2>2. DOMAIN q = {} => ToSet(q) = {}
      BY DEF ToSet
    <2> QED BY <1>1, <1>8, <2>1, <2>2
  <1>17. CompleteRecorded'
    BY <1>1, <1>16 DEF CatInv, CompleteRecorded
  <1>18. WholeOrGone'
    <2> SUFFICES ASSUME NEW x \in Tables, x \notin torn'
                 PROVE  \/ Gone(x)'
                        \/ Whole(x)'
                        \/ stmt' # Idle /\ stmt'.table = x /\ InWindow'
      BY DEF WholeOrGone
    <2>1. x \notin torn
      BY <1>1
    <2>2. CASE x # t
      <3>1. Gone(x) \/ Whole(x)
        BY <1>0, <2>1, <2>2 DEF CatInv, WholeOrGone
      <3>2. Gone(x) => Gone(x)'
        <4>1. r \notin VitalRows(x)
          BY <1>7, <2>2, VitalFacts
        <4> QED BY <1>1, <4>1 DEF Gone
      <3>3. Whole(x) => Whole(x)'
        BY <1>1 DEF Whole, Content
      <3> QED BY <3>1, <3>2, <3>3
    <2>3. CASE x = t /\ rows' \cap Own = {}
      BY <2>3, VitalFacts DEF Gone
    <2>4. CASE x = t /\ <<"table", t>> \in rows' /\ q # <<>>
      <3>1. stmt' # Idle
        BY <1>3 DEF Idle
      <3> QED BY <1>3, <2>4, <3>1 DEF InWindow, Todo
    <2>5. CASE x = t /\ q = <<>>
      <3>1. Own \subseteq rows'
        BY <1>16, <2>5
      <3>2. \A c \in Columns : <<"constraint", t, c>> \in rows'
        BY <3>1, OwnFacts DEF OwnKinds
      <3>3. \A c \in Columns : <<"constdef", Content(t, c)'>> \in rows'
        <4>1. \A c \in Columns :
                 <<"constraint", t, c>> \in rows' => <<"constdef", Content(t, c)'>> \in rows'
          BY <1>3, <1>14, <2>5 DEF DefinitionsThere
        <4> QED BY <2>5, <3>2, <4>1
      <3> QED BY <2>5, <3>1, <3>3 DEF Whole
    <2> QED BY <1>10, <2>2, <2>3, <2>4, <2>5
  <1>19. CreateOK'
    <2>1. Own \subseteq rows' \cup ToSet(q)
      BY <1>1, <1>8
    <2>2. Known(t)'
      BY <1>1, <1>4 DEF Known
    <2> HIDE DEF q
    <2> QED BY <1>3, <1>5, <1>9, <1>10, <2>1, <2>2 DEF CreateOK
  <1>20. DropOK'
    BY <1>3 DEF DropOK
  <1> QED BY <1>11, <1>13, <1>14, <1>15, <1>17, <1>18, <1>19, <1>20 DEF CatInv

LEMMA BeginCreateCat ==
    ASSUME IInv, CatInv, IInv', NEW u \in Users, NEW n \in Names, NEW d \in Contents,
           BeginCreate(u, n, d) \/ BeginCreateFails(u, n, d)
    PROVE  CatInv'
  <1>0. PICK t : t = lastTable + 1
    OBVIOUS
  <1>1. /\ stmt = Idle /\ status = "up" /\ lastTable' = t
        /\ contentOf' = [contentOf EXCEPT ![t] = d]
        /\ UNCHANGED <<rows, status, torn, complete, removed>>
    BY <1>0 DEF BeginCreate, BeginCreateFails, CreateChecks, Ready, NextTableId
  <1>2. lastTable \in Nat /\ t \in Tables /\ t > lastTable
    BY <1>0, <1>1 DEF IInv, TablesKnown, Tables
  <1>3. /\ BeginCreate(u, n, d) =>
               /\ registry' = registry \cup UNION ToSet(MemoryOrder(t, d))
               /\ stmt' = [kind |-> "create", table |-> t, user |-> u, todo |-> RecordOrder(t, d)]
        /\ BeginCreateFails(u, n, d) =>
               /\ stmt' = Idle
               /\ \E k \in 0..8 :
                      registry' = registry \cup UNION ToSet(SubSeq(MemoryOrder(t, d), 1, k))
    BY <1>0, <1>1 DEF BeginCreate, BeginCreateFails, NextTableId
  <1>4. PICK new :
            /\ registry' = registry \cup new
            /\ \A x, c : <<"constraint", x, c>> \in new =>
                   x = t /\ <<"constdef", IF c = 0 THEN NotNull ELSE d>> \in new
            /\ \A x : x # t => \A r \in new : r \notin OwnRows(x)
            /\ BeginCreate(u, n, d) => OwnRows(t) \ {<<"indexcol", t>>} \subseteq new
    <2>1. CASE BeginCreate(u, n, d)
      <3>1. registry' = registry \cup UNION ToSet(MemoryOrder(t, d))
        BY <1>3, <2>1
      <3> DEFINE new == UNION ToSet(MemoryOrder(t, d))
      <3>2. \A x, c : <<"constraint", x, c>> \in new =>
                   x = t /\ <<"constdef", IF c = 0 THEN NotNull ELSE d>> \in new
        BY MemoryFacts
      <3>3. \A x : x # t => \A r \in new : r \notin OwnRows(x)
        BY MemoryFacts
      <3>4. OwnRows(t) \ {<<"indexcol", t>>} \subseteq new
        BY MemoryFacts
      <3> HIDE DEF new
      <3> QED BY <3>1, <3>2, <3>3, <3>4 DEF new
    <2>2. CASE BeginCreateFails(u, n, d) /\ ~BeginCreate(u, n, d)
      <3>1. PICK k \in 0..8 :
                registry' = registry \cup UNION ToSet(SubSeq(MemoryOrder(t, d), 1, k))
        BY <1>3, <2>2
      <3> DEFINE new == UNION ToSet(SubSeq(MemoryOrder(t, d), 1, k))
      <3>2. \A x, c : <<"constraint", x, c>> \in new =>
                   x = t /\ <<"constdef", IF c = 0 THEN NotNull ELSE d>> \in new
        BY MemoryFacts
      <3>3. \A x : x # t => \A r \in new : r \notin OwnRows(x)
        BY MemoryFacts
      <3> QED BY <2>2, <3>1, <3>2, <3>3
    <2> QED BY <2>1, <2>2
  <1>5. (rows \cup registry) \cap OwnRows(t) = {}
    BY <1>2 DEF CatInv, CatTypes
  <1>6. /\ \A x \in Tables \ {t}, c \in Columns : Content(x, c)' = Content(x, c)
        /\ \A c \in Columns : Content(t, c)' = IF c = 0 THEN NotNull ELSE d
    BY <1>1, <1>2 DEF Content, CatInv, CatTypes
  <1>7. CatTypes'
    <2>1. DOMAIN contentOf' = Tables
      BY <1>1 DEF CatInv, CatTypes
    <2>2. complete' \subseteq 1..lastTable'
      BY <1>0, <1>1, <1>2 DEF CatInv, CatTypes
    <2>3. \A x \in Tables : x > lastTable' => x # t /\ x > lastTable
      BY <1>0, <1>1, <1>2 DEF Tables
    <2>4. \A x \in Tables : x > lastTable' => (rows' \cup registry') \cap OwnRows(x) = {}
      BY <1>1, <1>4, <2>3 DEF CatInv, CatTypes
    <2> QED BY <2>1, <2>2, <2>4 DEF CatTypes
  <1>8. CompleteRecorded' /\ RemovedOK'
    <2>1. CompleteRecorded'
      BY <1>1 DEF CatInv, CompleteRecorded
    <2>2. ASSUME NEW x \in removed
          PROVE  /\ x \in 1..lastTable' /\ <<"table", x>> \notin registry'
                 /\ x \in torn' \/ Gone(x)'
      <3>1. /\ x \in 1..lastTable /\ <<"table", x>> \notin registry
            /\ x \in torn \/ Gone(x)
        BY DEF CatInv, RemovedOK
      <3>2. x # t /\ x \in 1..lastTable'
        BY <1>0, <1>1, <1>2, <3>1
      <3>3. <<"table", x>> \notin new
        BY <1>4, <3>2, OwnFacts
      <3> QED BY <1>1, <1>4, <3>1, <3>2, <3>3 DEF Gone
    <2> QED BY <1>1, <2>1, <2>2 DEF RemovedOK
  <1>9. DefinitionsThere'
    <2>0. \A c \in Columns : <<"constraint", t, c>> \in OwnRows(t)
      BY OwnFacts DEF OwnKinds
    <2>1. stmt'.kind = "create" =>
              \A c \in Columns : <<"constraint", stmt'.table, c>> \notin rows'
      <3>1. stmt' = Idle => stmt'.kind = "none"
        BY DEF Idle
      <3>2. stmt' # Idle => stmt'.table = t
        BY <1>3
      <3> QED BY <1>1, <1>5, <2>0, <3>1, <3>2
    <2>2. ASSUME NEW x \in Tables, NEW c \in Columns, <<"constraint", x, c>> \in registry'
          PROVE  <<"constdef", Content(x, c)'>> \in registry'
      <3>1. CASE <<"constraint", x, c>> \in registry
        <4>1. x # t
          BY <1>5, <2>0, <3>1
        <4>2. <<"constdef", Content(x, c)>> \in registry
          BY <3>1 DEF CatInv, DefinitionsThere
        <4> QED BY <1>4, <1>6, <4>1, <4>2
      <3>2. CASE <<"constraint", x, c>> \in new
        BY <1>4, <1>6, <3>2
      <3> QED BY <1>4, <2>2, <3>1, <3>2
    <2> QED BY <2>1, <2>2 DEF DefinitionsThere
  <1>10. RowsRegistered'
    <2> SUFFICES ASSUME NEW x \in Tables \ torn
                 PROVE  /\ <<"table", x>> \in rows' => <<"table", x>> \in registry'
                        /\ <<"table", x>> \in registry' =>
                               Known(x)' \/ rows' \cap OwnRows(x) = {}
      BY <1>1 DEF RowsRegistered
    <2>1. /\ <<"table", x>> \in rows => <<"table", x>> \in registry
          /\ <<"table", x>> \in registry => Known(x) \/ rows \cap OwnRows(x) = {}
      BY <1>1 DEF CatInv, RowsRegistered
    <2>2. CASE x = t
      BY <1>1, <1>4, <1>5, <2>1, <2>2
    <2>3. CASE x # t
      <3>1. <<"table", x>> \notin new
        BY <1>4, <2>3, OwnFacts
      <3>2. Known(x) => Known(x)'
        BY <1>4 DEF Known
      <3> QED BY <1>1, <1>4, <2>1, <3>1, <3>2
    <2> QED BY <2>2, <2>3
  <1>11. WholeOrGone'
    <2> SUFFICES ASSUME NEW x \in Tables \ torn
                 PROVE  Gone(x)' \/ Whole(x)'
      BY <1>1 DEF WholeOrGone
    <2>1. Gone(x) \/ Whole(x)
      BY <1>1 DEF CatInv, WholeOrGone
    <2>2. Gone(x) => Gone(x)'
      BY <1>1 DEF Gone
    <2>3. ASSUME Whole(x) PROVE Whole(x)'
      <3>1. x # t
        BY <1>5, <2>3, OwnFacts DEF Whole
      <3> QED BY <1>1, <1>6, <2>3, <3>1 DEF Whole
    <2> QED BY <2>1, <2>2, <2>3
  <1>12. CreateOK' /\ DropOK'
    <2>1. CASE stmt' = Idle
      <3>1. stmt'.kind = "none"
        BY <2>1 DEF Idle
      <3> QED BY <3>1 DEF CreateOK, DropOK
    <2>2. CASE BeginCreate(u, n, d)
      <3>1. /\ stmt'.kind = "create" /\ stmt'.table = t /\ stmt'.todo = RecordOrder(t, d)
        BY <1>3, <2>2
      <3>2. /\ OwnRows(t) \subseteq ToSet(RecordOrder(t, d))
            /\ RecordSorted(RecordOrder(t, d))
        BY RecordOrderFacts
      <3>3. rows' \cap OwnRows(t) = {}
        BY <1>1, <1>5
      <3>4. <<"indexcol", t>> \notin rows'
        BY <3>3, OwnFacts
      <3>5. Known(t)'
        BY <1>4, <2>2 DEF Known
      <3> DEFINE q == RecordOrder(t, d)
      <3> HIDE DEF q
      <3>6. stmt'.todo = q /\ OwnRows(t) \subseteq rows' \cup ToSet(q) /\ RecordSorted(q)
        BY <3>1, <3>2 DEF q
      <3>7. CreateOK'
        BY <3>1, <3>3, <3>4, <3>5, <3>6 DEF CreateOK
      <3>8. DropOK'
        BY <3>1 DEF DropOK
      <3> QED BY <3>7, <3>8
    <2> QED BY <1>3, <2>1, <2>2
  <1> QED BY <1>7, <1>8, <1>9, <1>10, <1>11, <1>12 DEF CatInv

\* A DROP TABLE of a registered table, which has no other statement before it.
LEMMA BeginDropCat ==
    ASSUME IInv, CatInv, NEW u \in Users, NEW t \in Tables, BeginDrop(u, t)
    PROVE  CatInv'
  <1>1. /\ stmt = Idle /\ status = "up" /\ <<"table", t>> \in registry
        /\ complete' = complete \ {t}
        /\ UNCHANGED <<rows, lastTable, contentOf, registry, status, torn, freed, removed>>
    BY DEF BeginDrop, Ready
  <1> DEFINE D == RemovableDefinitions(t)
  <1>2. PICK ds \in SetToSeqs(D) :
            stmt' = [kind |-> "drop", table |-> t, todo |-> EraseOrder(t, ds),
                     definitions |-> ToSet(ds)]
    BY DEF BeginDrop
  <1>3. IsFiniteSet(D)
    <2>1. D \subseteq {NotNull, contentOf[t]}
      BY DEF RemovableDefinitions, Content
    <2>2. IsFiniteSet({NotNull, contentOf[t]})
      <3>1. IsFiniteSet({NotNull})
        BY FS_Singleton
      <3>2. IsFiniteSet({NotNull} \cup {contentOf[t]})
        BY <3>1, FS_AddElement
      <3>3. {NotNull, contentOf[t]} = {NotNull} \cup {contentOf[t]}
        OBVIOUS
      <3> QED BY <3>2, <3>3
    <2> HIDE DEF D
    <2> QED BY <2>1, <2>2, FS_Subset
  <1>4. ds \in Seq(D) /\ ToSet(ds) \subseteq D
    <2>1. Cardinality(D) \in Nat
      BY <1>3, FS_CardinalityType
    <2>2. ds \in [1..Cardinality(D) -> D]
      BY <1>2 DEF SetToSeqs
    <2> HIDE DEF D
    <2>3. ds \in Seq(D)
      BY <2>1, <2>2
    <2> QED BY <2>2, <2>3 DEF ToSet
  <1> HIDE DEF D
  <1> DEFINE s == EraseOrder(t, ds)
  <1>5. /\ s \in Seq(OwnRows(t) \cup {<<"constdef", x>> : x \in ToSet(ds)})
        /\ Known(t) => /\ VitalRows(t) \subseteq ToSet(s) /\ EraseSorted(s) /\ s # <<>>
                       /\ Head(s) \in {<<"index", t>>, <<"indexcol", t>>}
    BY <1>4, EraseOrderFacts
  <1>6. stmt'.kind = "drop" /\ stmt'.table = t /\ stmt'.todo = s /\ stmt'.definitions = ToSet(ds)
    BY <1>2
  <1> HIDE DEF s
  <1>7. CatTypes' /\ CompleteRecorded' /\ RemovedOK'
    BY <1>1 DEF CatInv, CatTypes, CompleteRecorded, RemovedOK, Gone
  <1>8. DefinitionsThere'
    BY <1>1, <1>6 DEF CatInv, DefinitionsThere, Content
  <1>9. RowsRegistered'
    BY <1>1 DEF CatInv, RowsRegistered, Known
  <1>10. WholeOrGone'
    <2>1. \A x \in Tables \ torn : Gone(x) \/ Whole(x)
      BY <1>1 DEF CatInv, WholeOrGone
    <2>2. \A x : /\ Gone(x)' = Gone(x)
                 /\ Whole(x)' = Whole(x)
      BY <1>1 DEF Gone, Whole, Content
    <2> QED BY <1>1, <2>1, <2>2 DEF WholeOrGone
  <1>11. CreateOK'
    BY <1>6 DEF CreateOK
  <1>12. Gone(t)' \/ DropOrder(t)' \/ ReadInPart(t)'
    <2>1. CASE rows \cap OwnRows(t) = {}
      BY <1>1, <2>1, VitalFacts DEF Gone
    <2>2. CASE Known(t)
      <3>1. <<"coldef", t, 1>> \in VitalRows(t)
        BY VitalFacts DEF OwnKinds, Columns
      <3>2. ASSUME ~Gone(t), t \notin torn
            PROVE  <<"coldef", t, 1>> \in rows
        <4>1. Whole(t)
          BY <1>1, <3>2 DEF CatInv, WholeOrGone
        <4> QED BY <4>1, OwnFacts DEF Whole, OwnKinds, Columns
      <3>3. ~Gone(t) => DropOrder(t)'
        BY <1>1, <1>5, <1>6, <2>2, <3>1, <3>2 DEF DropOrder
      <3>4. Gone(t) => Gone(t)'
        BY <1>1 DEF Gone
      <3> QED BY <3>3, <3>4
    <2>3. CASE t \in torn /\ ~Known(t)
      BY <1>1, <2>3 DEF ReadInPart, Known
    <2>4. t \notin torn => Known(t) \/ rows \cap OwnRows(t) = {}
      BY <1>1 DEF CatInv, RowsRegistered
    <2> QED BY <2>1, <2>2, <2>3, <2>4
  <1>13. DropOK'
    <2>1. RemovableDefinitions(t)' = D
      BY <1>1, RemovableSame DEF D
    <2> QED BY <1>1, <1>4, <1>5, <1>6, <1>12, <2>1 DEF DropOK
  <1> QED BY <1>7, <1>8, <1>9, <1>10, <1>11, <1>13 DEF CatInv

\* The ranks of the rows that DROP TABLE erases: nothing vital comes after the
\* definition of the last column.
LEMMA EraseRanks ==
    ASSUME NEW t
    PROVE  /\ \A x \in VitalRows(t) : ~Before(<<"coldef", t, 1>>, x)
           /\ <<"coldef", t, 1>> \in VitalRows(t)
  <1>1. \A r \in VitalRows(t) : EraseRank(r) \in 1..7
    BY VitalFacts
  <1>2. EraseRank(<<"coldef", t, 1>>) \in 7..7
    BY DEF EraseRank
  <1>3. ASSUME NEW x \in VitalRows(t) PROVE ~Before(<<"coldef", t, 1>>, x)
    BY <1>1, <1>2 DEF Before
  <1>4. <<"coldef", t, 1>> \in VitalRows(t)
    BY VitalFacts DEF OwnKinds, Columns
  <1> QED BY <1>3, <1>4

\* Only rows of the index come before rows of the index.
LEMMA FirstRanks ==
    ASSUME NEW t, NEW defs, NEW r \in OwnRows(t) \cup {<<"constdef", d>> : d \in defs},
           Before(r, <<"index", t>>) \/ Before(r, <<"indexcol", t>>)
    PROVE  r \in {<<"index", t>>, <<"indexcol", t>>}
  <1>1. EraseRank(<<"index", t>>) = 1 /\ EraseRank(<<"indexcol", t>>) = 1
    BY DEF EraseRank
  <1>2. EraseRank(r) \in 1..9
    BY DEF EraseRank
  <1>3. EraseRank(r) = 1
    BY <1>1, <1>2 DEF Before
  <1>4. r[1] \in {"index", "indexcol"}
    BY <1>3 DEF EraseRank
  <1>5. r \in OwnRows(t)
    <2>1. \A d : <<"constdef", d>>[1] = "constdef"
      OBVIOUS
    <2> QED BY <1>4, <2>1
  <1> QED BY <1>4, <1>5 DEF OwnRows

LEMMA EraseRowCat ==
    ASSUME IInv, CatInv, EraseRow
    PROVE  CatInv'
  <1>0. PICK t : t = stmt.table
    OBVIOUS
  <1> DEFINE r == Head(stmt.todo)
             q == Tail(stmt.todo)
             last == <<"coldef", t, 1>>
             defs == {<<"constdef", d>> : d \in stmt.definitions}
  <1>1. /\ stmt.kind = "drop" /\ stmt.todo # <<>>
        /\ rows' = IF r \in freed THEN rows ELSE rows \ {r}
        /\ stmt' = [stmt EXCEPT !.todo = Tail(@)]
        /\ UNCHANGED <<lastTable, contentOf, registry, status, torn, complete, freed, removed>>
    BY DEF EraseRow, Todo, Row
  <1>2. DOMAIN stmt = {"kind", "table", "todo", "definitions"} /\ t \in Tables
    BY <1>0, <1>1 DEF IInv, StatementOK, Idle
  <1>3. /\ stmt'.kind = "drop" /\ stmt'.table = t /\ stmt'.todo = q
        /\ stmt'.definitions = stmt.definitions
    BY <1>0, <1>1, <1>2
  <1>4. /\ t \notin complete /\ stmt.todo \in Seq(OwnRows(t) \cup defs)
        /\ stmt.definitions \subseteq RemovableDefinitions(t)
        /\ Gone(t) \/ DropOrder(t) \/ ReadInPart(t)
        /\ <<"table", t>> \in registry
    BY <1>0, <1>1 DEF CatInv, DropOK
  <1>5. /\ r \in OwnRows(t) \cup defs /\ q \in Seq(OwnRows(t) \cup defs)
        /\ ToSet(stmt.todo) = {r} \cup ToSet(q)
        /\ EraseSorted(stmt.todo) => EraseSorted(q) /\ \A x \in ToSet(q) : Before(r, x)
    BY <1>1, <1>4, TailFacts
  <1>6. \A x : x # t => r \notin OwnRows(x)
    <2>1. r \in OwnRows(t) \/ r[1] = "constdef"
      BY <1>5
    <2> HIDE DEF r
    <2> QED BY <2>1, OwnFacts
  <1>7. /\ DropOrder(t) =>
               /\ rows \cap VitalRows(t) \subseteq {r} \cup ToSet(q) \cup freed
               /\ EraseSorted(q) /\ \A x \in ToSet(q) : Before(r, x)
               /\ ({r} \cup ToSet(q)) \cap VitalRows(t) = {} \/ last \in {r} \cup ToSet(q)
               /\ t \notin torn /\ last \in {r} \cup ToSet(q) => last \in rows
    BY <1>5 DEF DropOrder
  <1> HIDE DEF r, q, defs
  <1>8. rows' \subseteq rows /\ \A x \in rows : x = r \/ x \in rows'
    BY <1>1
  <1>9. CatTypes'
    BY <1>1, <1>8 DEF CatInv, CatTypes
  <1>10. CompleteRecorded'
    BY <1>1, <1>4, <1>6, <1>8 DEF CatInv, CompleteRecorded
  <1>11. Gone(t) => Gone(t)'
    BY <1>8 DEF Gone
  <1>12. RemovedOK'
    BY <1>1, <1>8 DEF CatInv, RemovedOK, Gone
  <1>13. ASSUME NEW x \in Tables \ torn, x # t, Whole(x), NEW c \in Columns
         PROVE  r # <<"constdef", Content(x, c)>>
    <2> SUFFICES ASSUME r = <<"constdef", Content(x, c)>>
                 PROVE  FALSE
      OBVIOUS
    <2>1. <<"constraint", x, c>> \in OwnRows(x)
      BY OwnFacts DEF OwnKinds
    <2>2. <<"table", x>> \in rows /\ rows \cap OwnRows(x) # {}
      BY <1>13, OwnFacts DEF Whole
    <2>3. status = "up"
      BY DEF EraseRow
    <2>4. Known(x)
      BY <2>2, <2>3 DEF CatInv, RowsRegistered
    <2>5. <<"constraint", x, c>> \in registry
      BY <2>1, <2>4 DEF Known
    <2>6. r \in defs
      <3>1. r[1] = "constdef"
        OBVIOUS
      <3> QED BY <1>5, <3>1, OwnFacts
    <2>7. PICK d \in stmt.definitions : r = <<"constdef", d>>
      BY <2>6 DEF defs
    <2>8. Content(x, c) \in RemovableDefinitions(t)
      BY <1>4, <2>7
    <2> QED BY <1>13, <2>5, <2>8 DEF RemovableDefinitions
  <1>14. \A x, c : Content(x, c)' = Content(x, c)
    BY <1>1 DEF Content
  <1>15. DefinitionsThere'
    BY <1>1, <1>3, <1>14 DEF CatInv, DefinitionsThere
  <1>16. RowsRegistered'
    BY <1>1, <1>8 DEF CatInv, RowsRegistered, Known
  <1>17. ASSUME DropOrder(t)
         PROVE  \/ ToSet(q) \cap VitalRows(t) = {}
                \/ last \in ToSet(q) /\ (t \notin torn => last \in rows')
    <2>1. CASE last \in ToSet(q)
      <3>1. r # last
        BY <1>7, <1>17, <2>1, EraseRanks
      <3> QED BY <1>7, <1>8, <1>17, <2>1, <3>1
    <2>2. CASE last \notin ToSet(q) /\ r = last
      BY <1>7, <1>17, <2>2, EraseRanks
    <2>3. CASE last \notin ToSet(q) /\ r # last
      BY <1>7, <1>17, <2>3
    <2> QED BY <2>1, <2>2, <2>3
  <1>18. DropOrder(t) => rows' \cap VitalRows(t) \subseteq ToSet(q) \cup freed
    BY <1>1, <1>7, <1>8
  <1>19. ASSUME t \notin torn
         PROVE  Gone(t)' \/ Whole(t)' \/ InWindow'
    <2> DEFINE first == {<<"index", t>>, <<"indexcol", t>>}
    <2>1. CASE Gone(t)
      BY <1>11, <2>1
    <2>2. CASE ~Gone(t) /\ ~Gone(t)'
      <3>1. DropOrder(t)
        BY <1>4, <1>19, <2>2 DEF ReadInPart
      <3>2. LeftBehind(t)' \/ \E c \in Columns : <<"coldef", t, c>> \in rows'
        <4>1. PICK v \in VitalRows(t) : v \in rows'
          BY <2>2 DEF Gone
        <4>2. v \in ToSet(q) \/ v \in freed
          BY <1>18, <3>1, <4>1
        <4>3. CASE v \in freed
          BY <1>1, <4>1, <4>3 DEF LeftBehind
        <4>4. CASE v \in ToSet(q)
          <5>1. last \in rows'
            BY <1>17, <1>19, <3>1, <4>1, <4>4
          <5> QED BY <5>1 DEF Columns
        <4> QED BY <4>2, <4>3, <4>4
      <3>3. CASE ~(first \subseteq rows') \/ first \cap ToSet(q) = {}
        BY <1>3, <3>2, <3>3 DEF InWindow, Todo
      <3>4. CASE first \subseteq rows' /\ first \cap ToSet(q) # {}
        <4>1. Before(r, <<"index", t>>) \/ Before(r, <<"indexcol", t>>)
          BY <1>7, <3>1, <3>4
        <4>2. r \in first
          BY <1>5, <4>1, FirstRanks DEF defs
        <4>3. rows' = rows
          BY <1>1, <3>4, <4>2
        <4>4. first \subseteq rows /\ first \cap ToSet(stmt.todo) # {}
          BY <1>5, <3>4, <4>3
        <4>5. ~InWindow
          BY <1>0, <1>1, <4>4 DEF InWindow, Todo
        <4>6. Whole(t)
          BY <1>2, <1>19, <2>2, <4>5 DEF CatInv, WholeOrGone
        <4> QED BY <1>14, <4>3, <4>6 DEF Whole
      <3> QED BY <3>3, <3>4
    <2> QED BY <2>1, <2>2
  <1>20. WholeOrGone'
    <2> SUFFICES ASSUME NEW x \in Tables \ torn
                 PROVE  \/ Gone(x)'
                        \/ Whole(x)'
                        \/ stmt' # Idle /\ stmt'.table = x /\ InWindow'
      BY <1>1 DEF WholeOrGone
    <2>1. CASE x # t
      <3>1. Gone(x) \/ Whole(x)
        BY <1>0, <2>1 DEF CatInv, WholeOrGone
      <3>2. Gone(x) => Gone(x)'
        BY <1>8 DEF Gone
      <3>3. ASSUME Whole(x) PROVE Whole(x)'
        <4>1. OwnRows(x) \subseteq rows'
          BY <1>6, <1>8, <2>1, <3>3 DEF Whole
        <4>2. \A c \in Columns : <<"constdef", Content(x, c)>> \in rows'
          BY <1>8, <1>13, <2>1, <3>3 DEF Whole
        <4> QED BY <1>14, <4>1, <4>2 DEF Whole
      <3> QED BY <3>1, <3>2, <3>3
    <2>2. CASE x = t
      <3>1. stmt' # Idle
        BY <1>3 DEF Idle
      <3> QED BY <1>3, <1>19, <2>2, <3>1
    <2> QED BY <2>1, <2>2
  <1>21. CreateOK'
    BY <1>3 DEF CreateOK
  <1>22. DropOK'
    <2>1. RemovableDefinitions(t)' = RemovableDefinitions(t)
      BY <1>1, RemovableSame
    <2>2. ASSUME DropOrder(t) PROVE DropOrder(t)'
      <3>1. rows' \cap VitalRows(t) \subseteq ToSet(q) \cup freed'
        BY <1>1, <1>18, <2>2
      <3>2. EraseSorted(q)
        BY <1>7, <2>2
      <3>3. \/ ToSet(q) \cap VitalRows(t) = {}
            \/ last \in ToSet(q) /\ (t \notin torn => last \in rows')
        BY <1>17, <2>2
      <3>4. last \in VitalRows(t)
        BY EraseRanks
      <3> QED BY <1>1, <1>3, <3>1, <3>2, <3>3, <3>4 DEF DropOrder
    <2>3. ReadInPart(t) => ReadInPart(t)'
      BY <1>1 DEF ReadInPart
    <2>4. Gone(t)' \/ DropOrder(t)' \/ ReadInPart(t)'
      BY <1>4, <1>11, <2>2, <2>3
    <2> QED BY <1>1, <1>3, <1>4, <1>5, <2>1, <2>4 DEF DropOK, defs
  <1> QED BY <1>9, <1>10, <1>12, <1>15, <1>16, <1>20, <1>21, <1>22 DEF CatInv

\* What leaves the registries belongs to the table, or is one of the definitions.
LEMMA UnregisteredFacts ==
    ASSUME NEW t, NEW defs
    PROVE  /\ \A r \in Unregistered(t, defs) : r[2] = t \/ r[1] = "constdef"
           /\ <<"table", t>> \in Unregistered(t, defs)
           /\ \A c \in DroppedConstraints(t) : <<"constraint", t, c>> \in Unregistered(t, defs)
           /\ \A d : <<"constdef", d>> \in Unregistered(t, defs) => d \in defs
  <1> DEFINE A == {<<"index", t>>, <<"indexcol", t>>, <<"ownindexcol", t>>, <<"set", t>>, <<"table", t>>}
             B == {<<"setcol", t, c>> : c \in Columns}
             C == UNION {{<<"column", t, c>>, <<"coldef", t, c>>, <<"defconst", t, c>>}
                         : c \in DroppedColumns(t)}
             D == {<<"constraint", t, c>> : c \in DroppedConstraints(t)}
             E == {<<"constdef", d>> : d \in defs}
  <1>1. Unregistered(t, defs) = A \cup B \cup C \cup D \cup E
    BY DEF Unregistered
  <1>2. /\ \A r \in A : r[2] = t /\ r[1] # "constdef"
        /\ \A r \in B : r[2] = t /\ r[1] # "constdef"
        /\ \A r \in D : r[2] = t /\ r[1] # "constdef"
        /\ \A r \in E : r[1] = "constdef" /\ r[2] \in defs
    OBVIOUS
  <1>3. \A r \in C : r[2] = t /\ r[1] # "constdef"
    <2> SUFFICES ASSUME NEW r \in C PROVE r[2] = t /\ r[1] # "constdef"
      OBVIOUS
    <2>1. PICK c \in DroppedColumns(t) :
              r \in {<<"column", t, c>>, <<"coldef", t, c>>, <<"defconst", t, c>>}
      OBVIOUS
    <2> QED BY <2>1
  <1>4. <<"table", t>> \in A /\ \A c \in DroppedConstraints(t) : <<"constraint", t, c>> \in D
    OBVIOUS
  <1>5. \A d : <<"constdef", d>>[1] = "constdef" /\ <<"constdef", d>>[2] = d
    OBVIOUS
  <1> HIDE DEF A, B, C, D, E
  <1> QED BY <1>1, <1>2, <1>3, <1>4, <1>5

\* The end of a DROP TABLE, whether the permissions can be revoked or not.
LEMMA EndDropCat ==
    ASSUME IInv, CatInv, EndDrop \/ EndDropFails
    PROVE  CatInv'
  <1>0. PICK t : t = stmt.table
    OBVIOUS
  <1> DEFINE defs == stmt.definitions
             U == Unregistered(t, defs)
  <1>1. /\ stmt.kind = "drop" /\ stmt.todo = <<>> /\ registry' = registry \ U
        /\ torn' = IF LeftBehind(t) \/ ReadInPart(t) THEN torn \cup {t} ELSE torn \ {t}
        /\ stmt' = Idle /\ removed' \subseteq removed \cup {t}
        /\ UNCHANGED <<rows, lastTable, contentOf, status, complete>>
    BY <1>0 DEF EndDrop, EndDropFails, Unregister, Todo
  <1>2. /\ defs \subseteq RemovableDefinitions(t)
        /\ Gone(t) \/ DropOrder(t) \/ ReadInPart(t)
    BY <1>0, <1>1 DEF CatInv, DropOK
  <1>3. t \notin torn' => Gone(t)
    <2>1. ToSet(stmt.todo) = {}
      BY <1>1 DEF ToSet
    <2>2. t \notin torn' => ~LeftBehind(t) /\ ~ReadInPart(t)
      BY <1>1
    <2> QED BY <1>2, <2>1, <2>2 DEF DropOrder, Gone, LeftBehind
  <1>4. \A r \in U : r[2] = t \/ r[1] = "constdef"
    BY UnregisteredFacts
  <1>5. /\ <<"table", t>> \in U
        /\ \A c \in DroppedConstraints(t) : <<"constraint", t, c>> \in U
        /\ \A d : <<"constdef", d>> \in U => d \in defs
    BY UnregisteredFacts
  <1> HIDE DEF U, defs
  <1>6. \A x : x # t => \A r \in OwnRows(x) : r \notin U
    BY <1>4, OwnFacts
  <1>7. stmt'.kind = "none"
    BY <1>1 DEF Idle
  <1>8. CatTypes' /\ CompleteRecorded'
    BY <1>1 DEF CatInv, CatTypes, CompleteRecorded
  <1>9. \A x, c : Content(x, c)' = Content(x, c)
    BY <1>1 DEF Content
  <1>10. DefinitionsThere'
    <2>2. ASSUME NEW x \in Tables, NEW c \in Columns, <<"constraint", x, c>> \in registry'
          PROVE  <<"constdef", Content(x, c)>> \in registry'
      <3>1. <<"constraint", x, c>> \in registry /\ <<"constraint", x, c>> \notin U
        BY <1>1, <2>2
      <3>2. <<"constdef", Content(x, c)>> \in registry
        BY <3>1 DEF CatInv, DefinitionsThere
      <3>3. Content(x, c) \in RemovableDefinitions(t) => x = t /\ c \in DroppedConstraints(t)
        BY <3>1 DEF RemovableDefinitions
      <3>4. <<"constdef", Content(x, c)>> \notin U
        BY <1>2, <1>5, <3>1, <3>3
      <3> QED BY <1>1, <3>2, <3>4
    <2> QED BY <1>7, <1>9, <2>2 DEF DefinitionsThere
  <1>11. RowsRegistered'
    <2> SUFFICES ASSUME status = "up", NEW x \in Tables \ torn'
                 PROVE  /\ <<"table", x>> \in rows => <<"table", x>> \in registry'
                        /\ <<"table", x>> \in registry' =>
                               Known(x)' \/ rows \cap OwnRows(x) = {}
      BY <1>1 DEF RowsRegistered
    <2>1. x # t => /\ <<"table", x>> \in rows => <<"table", x>> \in registry
                   /\ <<"table", x>> \in registry => Known(x) \/ rows \cap OwnRows(x) = {}
      BY <1>1 DEF CatInv, RowsRegistered
    <2>2. CASE x = t
      BY <1>1, <1>3, <1>5, <2>2, VitalFacts DEF Gone
    <2>3. CASE x # t
      <3>1. <<"table", x>> \notin U
        BY <1>6, <2>3, OwnFacts
      <3>2. Known(x) => Known(x)'
        BY <1>1, <1>6, <2>3 DEF Known
      <3> QED BY <1>1, <2>1, <2>3, <3>1, <3>2
    <2> QED BY <2>2, <2>3
  <1>12. WholeOrGone'
    <2> SUFFICES ASSUME NEW x \in Tables \ torn'
                 PROVE  Gone(x)' \/ Whole(x)'
      BY DEF WholeOrGone
    <2>1. Gone(x) \/ Whole(x)
      BY <1>0, <1>1, <1>3 DEF CatInv, WholeOrGone
    <2>2. Gone(x)' = Gone(x) /\ Whole(x)' = Whole(x)
      BY <1>1 DEF Gone, Whole, Content
    <2> QED BY <2>1, <2>2
  <1>13. CreateOK' /\ DropOK'
    BY <1>7 DEF CreateOK, DropOK
  <1>14. RemovedOK'
    <2> SUFFICES ASSUME NEW x \in removed'
                 PROVE  /\ x \in 1..lastTable /\ <<"table", x>> \notin registry'
                        /\ x \in torn' \/ Gone(x)
      BY <1>1 DEF RemovedOK, Gone
    <2>1. CASE x = t
      <3>1. t \in Tables /\ <<"table", t>> \in registry
        BY <1>0, <1>1 DEF IInv, StatementOK, Idle, CatInv, DropOK
      <3>2. t \in 1..lastTable
        BY <3>1 DEF IInv, TablesKnown, Tables
      <3> QED BY <1>1, <1>3, <1>5, <2>1, <3>2
    <2>2. CASE x # t
      <3>1. /\ x \in 1..lastTable /\ <<"table", x>> \notin registry
            /\ x \in torn \/ Gone(x)
        BY <1>1, <2>2 DEF CatInv, RemovedOK
      <3> QED BY <1>1, <2>2, <3>1
    <2> QED BY <2>1, <2>2
  <1> QED BY <1>8, <1>10, <1>11, <1>12, <1>13, <1>14 DEF CatInv

\* A start that succeeds finds every table whole or gone, unless it reads a torn
\* one in part.
LEMMA LoadedWhole ==
    ASSUME CatInv, Loads, NEW t \in Tables, ~(t \in Broken /\ InPart(t))
    PROVE  Gone(t) \/ Whole(t)
  <1>1. CASE t \notin Broken
    BY <1>1 DEF CatInv, WholeOrGone, Broken
  <1>2. CASE OwnRows(t) \subseteq rows
    <2>1. \A c \in Columns : <<"constraint", t, c>> \in rows
      BY <1>2, OwnFacts DEF OwnKinds
    <2>2. \A c \in Columns : <<"constdef", Content(t, c)>> \in rows
      BY <2>1 DEF Loads, RowsAreConsistent
    <2> QED BY <1>2, <2>2 DEF Whole
  <1> QED BY <1>1, <1>2 DEF InPart, Gone

LEMMA RestartCat ==
    ASSUME IInv, CatInv, Restart
    PROVE  CatInv'
  <1>1. /\ stmt' = Idle /\ UNCHANGED <<rows, lastTable, contentOf, complete, removed>>
        /\ Loads => /\ status' = "up" /\ registry' = ReadRegistry
                    /\ torn' = {t \in Broken : InPart(t)}
        /\ ~Loads => status' = "refused" /\ registry' = {} /\ torn' = Broken
    BY DEF Restart
  <1>2. CASE ~Loads
    BY <1>1, <1>2, BreakOffCat DEF Broken
  <1>3. CASE Loads
    <2>1. \A t \in Tables \ torn' : Gone(t) \/ Whole(t)
      BY <1>1, <1>3, LoadedWhole
    <2>2. /\ registry' \subseteq rows
          /\ \A r \in rows : r[1] # "column" /\ r[1] # "indexcol" => r \in registry'
          /\ \A t \in Tables, c \in Columns :
                 <<"column", t, c>> \in rows /\ <<"table", t>> \in rows => <<"column", t, c>> \in registry'
      BY <1>1, <1>3 DEF ReadRegistry, ColumnsRead
    <2>3. CatTypes' /\ CompleteRecorded'
      BY <1>1, <2>2 DEF CatInv, CatTypes, CompleteRecorded
    <2>4. \A x, c : Content(x, c)' = Content(x, c)
      BY <1>1 DEF Content
    <2>5. stmt'.kind = "none"
      BY <1>1 DEF Idle
    <2>6. DefinitionsThere'
      <3>1. \A t \in Tables, c \in Columns :
                <<"constraint", t, c>> \in rows => <<"constdef", Content(t, c)>> \in rows
        BY <1>3 DEF Loads, RowsAreConsistent
      <3>2. \A d : <<"constdef", d>> \in rows => <<"constdef", d>> \in registry'
        BY <2>2
      <3> QED BY <1>1, <2>2, <2>4, <2>5, <3>1, <3>2 DEF DefinitionsThere
    <2>7. \A t : <<"table", t>> \in VitalRows(t)
      BY VitalFacts
    <2>8. RowsRegistered'
      <3> SUFFICES ASSUME NEW t \in Tables \ torn'
                   PROVE  /\ <<"table", t>> \in rows => <<"table", t>> \in registry'
                          /\ <<"table", t>> \in registry' => Known(t)'
        BY <1>1 DEF RowsRegistered
      <3>1. <<"table", t>> \in rows => <<"table", t>> \in registry'
        BY <2>2
      <3>2. ASSUME <<"table", t>> \in registry', NEW r \in OwnRows(t) \ {<<"indexcol", t>>}
            PROVE  r \in registry'
        <4>1. <<"table", t>> \in rows /\ ~Gone(t)
          BY <2>2, <2>7, <3>2 DEF Gone
        <4>2. r \in rows
          BY <2>1, <4>1 DEF Whole
        <4>3. (r[1] # "column" /\ r[1] # "indexcol") \/ \E c \in Columns : r = <<"column", t, c>>
          BY DEF OwnRows
        <4> QED BY <2>2, <4>1, <4>2, <4>3
      <3> QED BY <3>1, <3>2 DEF Known
    <2>9. WholeOrGone'
      <3>1. \A t : Gone(t)' = Gone(t) /\ Whole(t)' = Whole(t)
        BY <1>1 DEF Gone, Whole, Content
      <3> QED BY <2>1, <3>1 DEF WholeOrGone
    <2>10. CreateOK' /\ DropOK'
      BY <2>5 DEF CreateOK, DropOK
    <2>11. RemovedOK'
      <3> SUFFICES ASSUME NEW t \in removed
                   PROVE  /\ t \in 1..lastTable /\ <<"table", t>> \notin registry'
                          /\ t \in torn' \/ Gone(t)
        BY <1>1 DEF RemovedOK, Gone
      <3>1. t \in 1..lastTable /\ t \in Tables
        <4>1. t \in 1..lastTable /\ lastTable \in 0..MaxTables
          BY DEF IInv, TablesKnown, CatInv, RemovedOK
        <4> QED BY <4>1, PermissionsAssumption DEF Tables
      <3>2. <<"table", t>> \notin rows
        BY <1>3, <3>1 DEF Loads, TablesLoad
      <3>3. ~Whole(t)
        BY <3>2, OwnFacts DEF Whole
      <3> QED BY <2>1, <2>2, <3>1, <3>2, <3>3
    <2> QED BY <2>3, <2>6, <2>8, <2>9, <2>10, <2>11 DEF CatInv
  <1> QED BY <1>2, <1>3

LEMMA CatNext == ASSUME IInv, CatInv, IInv', [Next]_vars PROVE CatInv'
  <1>1. CASE Next
    <2>1. ASSUME NEW u \in Users, NEW n \in Names, NEW d \in Contents,
                 BeginCreate(u, n, d) \/ BeginCreateFails(u, n, d)
          PROVE  CatInv'
      BY <2>1, BeginCreateCat
    <2>2. CASE RecordRow
      BY <2>2, RecordRowCat
    <2>3. CASE RecordRowFails \/ EndCreate \/ EndCreateFails \/ EraseRowFails
      BY <2>3, EndStatementCat
    <2>4. ASSUME NEW u \in Users, NEW t \in Tables, BeginDrop(u, t)
          PROVE  CatInv'
      BY <2>4, BeginDropCat
    <2>5. CASE EraseRow
      BY <2>5, EraseRowCat
    <2>6. CASE EndDrop \/ EndDropFails
      BY <2>6, EndDropCat
    <2>7. CASE Restart
      BY <2>7, RestartCat
    <2>8. ASSUME NEW u \in Users, LookUp(u)
          PROVE  CatInv'
      BY <2>8, SameCat DEF LookUp
    <2>9. ASSUME NEW by \in Users, NEW u \in Grantees, NEW t \in Tables,
                 NEW ps \in (SUBSET Perms) \ {{}},
                 \/ \E o \in BOOLEAN : Grant(by, u, t, ps, o)
                 \/ Revoke(by, u, t, ps)
          PROVE  CatInv'
      <3>1. UNCHANGED catVars
        BY <2>9 DEF Grant, Revoke, PermissionStatement
      <3> QED BY <3>1, SameCat
    <2>10. CASE ManageAccounts
      BY <2>10, SameCat DEF ManageAccounts
    <2> QED BY <1>1, <2>1, <2>2, <2>3, <2>4, <2>5, <2>6, <2>7, <2>8, <2>9, <2>10 DEF Next
  <1>2. CASE UNCHANGED vars
    BY <1>2, SameCat DEF vars
  <1> QED BY <1>1, <1>2

\* The rows and the registries keep to the invariant in every reachable state.
THEOREM RowsInvariant == Spec => [](IInv /\ CatInv)
  <1>1. Init => IInv /\ CatInv
    BY InitInv, CatInit
  <1>2. IInv /\ CatInv /\ [Next]_vars => IInv' /\ CatInv'
    BY NextInv, CatNext
  <1> QED BY <1>1, <1>2, PTL DEF Spec

LEMMA CatImpliesIntact == ASSUME IInv, CatInv PROVE TablesIntact
  <1> SUFFICES ASSUME NEW t \in complete \ torn
               PROVE  /\ RowsOfTable(t) \subseteq rows
                      /\ status = "up" => RowsOfTable(t) \ {<<"indexcol", t>>} \subseteq registry
    BY DEF TablesIntact
  <1> DEFINE consts == {<<"constdef", Content(t, c)>> : c \in Columns}
  <1>1. t \in Tables
    <2>1. t \in 1..lastTable /\ lastTable \in 0..MaxTables
      BY DEF IInv, TablesKnown, CatInv, CatTypes
    <2> QED BY <2>1, PermissionsAssumption DEF Tables
  <1>2. RowsOfTable(t) = OwnRows(t) \cup consts
    BY DEF RowsOfTable
  <1>3. OwnRows(t) \subseteq rows
    BY DEF CatInv, CompleteRecorded
  <1>4. \A c \in Columns : <<"constraint", t, c>> \in OwnRows(t) \ {<<"indexcol", t>>}
    BY OwnFacts DEF OwnKinds
  <1>5. consts \subseteq rows
    <2>1. ~Gone(t)
      BY <1>3, OwnFacts, VitalFacts DEF Gone
    <2>2. CASE Whole(t)
      BY <2>2 DEF Whole
    <2>3. CASE stmt # Idle /\ stmt.table = t /\ InWindow
      <3>1. stmt.kind = "create"
        BY <2>3 DEF InWindow, CatInv, DropOK
      <3> QED BY <1>3, <1>4, <2>3, <3>1 DEF CatInv, DefinitionsThere
    <2> QED BY <1>1, <2>1, <2>2, <2>3 DEF CatInv, WholeOrGone
  <1>6. ASSUME status = "up"
        PROVE  RowsOfTable(t) \ {<<"indexcol", t>>} \subseteq registry
    <2>1. <<"table", t>> \in rows /\ rows \cap OwnRows(t) # {}
      BY <1>3, OwnFacts
    <2>2. Known(t)
      BY <1>1, <1>6, <2>1 DEF CatInv, RowsRegistered
    <2>3. consts \subseteq registry
      BY <1>1, <1>4, <2>2 DEF CatInv, DefinitionsThere, Known
    <2> QED BY <1>2, <2>2, <2>3 DEF Known
  <1> QED BY <1>2, <1>3, <1>5, <1>6

LEMMA CatImpliesOpens == ASSUME IInv, CatInv PROVE OpensUnlessTorn
  <1> SUFFICES ASSUME torn = {}, ~InWindow
               PROVE  Loads
    BY DEF OpensUnlessTorn
  <1>1. \A t \in Tables : Gone(t) \/ Whole(t)
    BY DEF CatInv, WholeOrGone
  <1>2. ASSUME NEW t \in Tables, Gone(t)
        PROVE  /\ <<"table", t>> \notin rows /\ <<"set", t>> \notin rows /\ <<"index", t>> \notin rows
               /\ \A c \in Columns :
                      /\ <<"coldef", t, c>> \notin rows /\ <<"setcol", t, c>> \notin rows
                      /\ <<"constraint", t, c>> \notin rows /\ <<"defconst", t, c>> \notin rows
    <2>1. \A c \in Columns :
              /\ <<"coldef", t, c>> \in VitalRows(t) /\ <<"setcol", t, c>> \in VitalRows(t)
              /\ <<"constraint", t, c>> \in VitalRows(t) /\ <<"defconst", t, c>> \in VitalRows(t)
      BY VitalFacts DEF OwnKinds
    <2>2. /\ <<"table", t>> \in VitalRows(t) /\ <<"set", t>> \in VitalRows(t)
          /\ <<"index", t>> \in VitalRows(t)
      BY VitalFacts
    <2> QED BY <1>2, <2>1, <2>2 DEF Gone
  <1>3. ASSUME NEW t \in Tables, Whole(t)
        PROVE  /\ <<"table", t>> \in rows /\ <<"set", t>> \in rows
               /\ <<"index", t>> \in rows /\ <<"indexcol", t>> \in rows
               /\ \A c \in Columns :
                      /\ <<"coldef", t, c>> \in rows /\ <<"setcol", t, c>> \in rows
                      /\ <<"constraint", t, c>> \in rows /\ <<"defconst", t, c>> \in rows
                      /\ <<"column", t, c>> \in rows /\ <<"constdef", Content(t, c)>> \in rows
    <2>1. \A c \in Columns :
              /\ <<"coldef", t, c>> \in OwnRows(t) /\ <<"setcol", t, c>> \in OwnRows(t)
              /\ <<"constraint", t, c>> \in OwnRows(t) /\ <<"defconst", t, c>> \in OwnRows(t)
              /\ <<"column", t, c>> \in OwnRows(t)
      BY OwnFacts DEF OwnKinds
    <2>2. /\ <<"table", t>> \in OwnRows(t) /\ <<"set", t>> \in OwnRows(t)
          /\ <<"index", t>> \in OwnRows(t) /\ <<"indexcol", t>> \in OwnRows(t)
      BY OwnFacts
    <2> QED BY <1>3, <2>1, <2>2 DEF Whole
  <1>4. TablesLoad
    <2>1. \A t \in removed : Gone(t)
      BY DEF CatInv, RemovedOK
    <2> QED BY <1>1, <1>2, <1>3, <2>1 DEF TablesLoad, Columns
  <1>5. ASSUME NEW t \in Tables
        PROVE  /\ <<"set", t>> \in rows => <<"table", t>> \in rows
               /\ <<"table", t>> \in rows => <<t, 0>> \in ColumnsRead
               /\ <<"index", t>> \in rows =>
                      {<<"indexcol", t>>, <<"table", t>>, <<"coldef", t, 0>>} \subseteq rows
    <2>1. CASE Gone(t)
      BY <1>2, <2>1
    <2>2. CASE Whole(t)
      BY <1>3, <2>2 DEF ColumnsRead, Columns
    <2> QED BY <1>1, <2>1, <2>2
  <1>6. ASSUME NEW t \in Tables, NEW c \in Columns
        PROVE  /\ <<"coldef", t, c>> \in rows => <<t, c>> \in ColumnsRead
               /\ <<"setcol", t, c>> \in rows => {<<"set", t>>, <<"coldef", t, c>>} \subseteq rows
               /\ <<"constraint", t, c>> \in rows => <<"constdef", Content(t, c)>> \in rows
               /\ <<"defconst", t, c>> \in rows =>
                      {<<"coldef", t, c>>, <<"constraint", t, c>>} \subseteq rows
    <2>1. CASE Gone(t)
      BY <1>2, <2>1
    <2>2. CASE Whole(t)
      BY <1>3, <2>2 DEF ColumnsRead
    <2> QED BY <1>1, <2>1, <2>2
  <1> QED BY <1>4, <1>5, <1>6 DEF Loads, RowsAreConsistent

\* A table that is created as a whole keeps its rows, its shared definitions and
\* its objects, whatever is created, dropped, broken off or restarted around it,
\* until a DROP TABLE of it begins (dropTable, the removal of definitions).
THEOREM TablesStayIntact == Spec => []TablesIntact
  BY RowsInvariant, CatImpliesIntact, PTL

\* For every number of statements and of tables whose rows lie in one file of each
\* index, a database with nothing torn and no statement in its window can be
\* opened: the orders of recordTableDefinition()
\* and dropTable() leave every table whole or gone as far as the readAll...()
\* functions and checkDataConsistency() look.  A table is torn, too, when DROP TABLE
\* did not find again a row whose erasure had been refused.
THEOREM DatabaseOpens == Spec => []OpensUnlessTorn
  BY RowsInvariant, CatImpliesOpens, PTL
==============================================================================
