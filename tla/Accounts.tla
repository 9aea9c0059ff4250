------------------------------ MODULE Accounts ------------------------------
(***************************************************************************)
(* Users with their access keys and tokens: the statements that create,    *)
(* alter and drop them, the lookup that makes User objects, and the start  *)
(* that reads them back.                                                   *)
(* Sources: Instance_User.cpp, Instance_UserAccessKey.cpp,                 *)
(* Instance_UserToken.cpp, Instance_Auth.cpp, Instance_General.cpp,        *)
(* User.cpp, SystemDatabase_RecordObjects.cpp,                             *)
(* SystemDatabase_ReadObjects.cpp (dbengine).                              *)
(*                                                                         *)
(* An account is kept three times: in the rows of SYS_USERS,               *)
(* SYS_USER_ACCESS_KEYS and SYS_USER_TOKENS (stored), in Instance's        *)
(* m_userRegistry (registered) and, once the user has been looked up, in   *)
(* its User object (objects), by which clients are authenticated.  A       *)
(* statement changes memory first and then the row; a refused write leaves *)
(* the row as it was.  Texts, names of persons and descriptions are left   *)
(* out, and so is who issues a statement, which needs a permission on the  *)
(* kind of object.                                                         *)
(***************************************************************************)
EXTENDS Permissions

CONSTANTS UserNames,  \* names of users
          CredNames,  \* names of access keys and of tokens
          MaxCredId   \* bound on the IDs of keys and of tokens

CredKinds == {"key", "token"}

ASSUME AccountsAssumption ==
    /\ Users \subseteq Nat /\ Users # {Super}
    /\ MaxCredId \in Nat /\ MaxCredId >= 2  \* the IDs of the first keys
    /\ CredKinds = DOMAIN CredNames /\ \A kind \in CredKinds : CredNames[kind] # {}
    /\ UserNames \ {"root"} # {}

VARIABLES stored,     \* the rows
          registered, \* m_userRegistry
          objects,    \* the objects in m_users, of the users in cached
          usedUsers,  \* user IDs that SYS_USERS has given out
          lastCred,   \* TRID counters of the two other tables
          want,       \* history: the accounts as successful statements define them
          uncertain,  \* history: users of whom a statement failed half-way
          ignored,    \* history: tokens whose expiration was set in vain
          keyGap      \* history: the row of a superuser's key was not written

acctVars == <<stored, registered, objects, usedUsers, lastCred, want, uncertain,
              ignored, keyGap>>

(***************************************************************************)
(* An access key is valid while it is active, a token until it expires.    *)
(***************************************************************************)
Cred(kind, id, u, n, valid) ==
    [kind |-> kind, id |-> id, user |-> u, name |-> n, valid |-> valid]
UserRow(u, n, active) == [id |-> u, name |-> n, active |-> active]

UsersOf(layer) == {r.id : r \in layer.users}
CredsOf(layer, u) == {c \in layer.creds : c.user = u}
Named(layer, kind, u, n) == {c \in CredsOf(layer, u) : c.kind = kind /\ c.name = n}
Same(c, d) == c.kind = d.kind /\ c.id = d.id

AddUser(layer, r) == [layer EXCEPT !.users = @ \cup {r}]
AddCred(layer, c) == [layer EXCEPT !.creds = @ \cup {c}]
RemoveCreds(layer, cs) ==
    [layer EXCEPT !.creds = {d \in @ : \A c \in cs : ~Same(c, d)}]
SetValid(layer, c, valid) ==
    [layer EXCEPT !.creds = {IF Same(c, d) THEN [d EXCEPT !.valid = valid] ELSE d : d \in @}]
SetActive(layer, u, active) ==
    [layer EXCEPT !.users = {IF r.id = u THEN [r EXCEPT !.active = active] ELSE r : r \in @}]
Without(layer, u) ==
    [users |-> {r \in layer.users : r.id # u}, creds |-> layer.creds \ CredsOf(layer, u)]
Only(layer, us) ==
    [users |-> {r \in layer.users : r.id \in us}, creds |-> {c \in layer.creds : c.user \in us}]

\* A new instance has the superuser with its initial key; one more user, with a
\* key and a token, has been created since.
AccountsInit ==
    LET other == CHOOSE u \in Users \ {Super} : \A x \in Users \ {Super} : u <= x
        name(kind) == CHOOSE n \in CredNames[kind] : TRUE
        first == CHOOSE n \in UserNames \ {"root"} : TRUE
        all == [users |-> {UserRow(Super, "root", TRUE), UserRow(other, first, TRUE)},
                creds |-> {Cred("key", 1, Super, name("key"), TRUE),
                           Cred("key", 2, other, name("key"), TRUE),
                           Cred("token", 1, other, name("token"), TRUE)}]
    IN  /\ stored = all /\ registered = all /\ want = all
        /\ objects = Only(all, {Super})
        /\ usedUsers = {Super, other}
        /\ lastCred = [key |-> 2, token |-> 1]
        /\ uncertain = {} /\ ignored = {} /\ keyGap = FALSE

------------------------------------------------------------------------------
\* findUserUnlocked(), by which every statement and every login finds the user:
\* the object is made from the registry's record and kept.  The statements below
\* apply to users that have been looked up.
LookUpAccount(u) ==
    /\ u \in UsersOf(registered)
    /\ LookUpUser(u)
    /\ objects' = [users |-> objects.users \cup Only(registered, {u}).users,
                   creds |-> objects.creds \cup CredsOf(registered, u)]
    /\ UNCHANGED <<stored, registered, usedUsers, lastCred, want, uncertain, ignored, keyGap>>

\* A row that could not be written.
RowFails(u, kind) ==
    /\ uncertain' = uncertain \cup {u}
    /\ keyGap' = (keyGap \/ (u = Super /\ kind = "key"))
    /\ UNCHANGED <<stored, want>>

\* createUser(): the registry, the row, the object.
CreateUser(u, n, active) ==
    LET r == UserRow(u, n, active) IN
    /\ u \notin usedUsers /\ \A x \in registered.users : x.name # n
    /\ usedUsers' = usedUsers \cup {u}
    /\ registered' = AddUser(registered, r)
    /\ \/ /\ stored' = AddUser(stored, r) /\ want' = AddUser(want, r)
          /\ objects' = AddUser(objects, r) /\ cached' = cached \cup {u}
          /\ UNCHANGED <<uncertain, keyGap>>
       \/ RowFails(u, "user") /\ UNCHANGED <<objects, cached>>
    /\ UNCHANGED <<lastCred, ignored, permRows, lastPermId, granted, drifted>>

\* dropUser(): the object and the registry, then the rows of the keys, of the
\* tokens and of the user; rows of permissions are left.
DropUser(u) ==
    LET mine == CredsOf(objects, u)
        keys == {c \in mine : c.kind = "key"}
    IN
    /\ u \in UsersOf(registered) \cap cached /\ u # Super
    /\ registered' = Without(registered, u) /\ objects' = Without(objects, u)
    /\ cached' = cached \ {u} /\ granted' = [granted EXCEPT ![u] = [t \in {} |-> NoEntry]]
    /\ \/ /\ stored' = [RemoveCreds(stored, mine) EXCEPT !.users = {r \in @ : r.id # u}]
          /\ want' = Without(want, u)
          /\ UNCHANGED uncertain
       \/ /\ \E gone \in SUBSET mine :
                /\ gone \subseteq keys \/ keys \subseteq gone
                /\ stored' = RemoveCreds(stored, gone)
          /\ uncertain' = uncertain \cup {u}
          /\ UNCHANGED want
    /\ UNCHANGED <<usedUsers, lastCred, ignored, keyGap, permRows, lastPermId, drifted>>

\* updateUser(): the superuser cannot be blocked.  The update of a row that is
\* not there throws.
AlterUser(u, active) ==
    /\ u \in cached /\ \E r \in registered.users : r.id = u /\ r.active # active
    /\ ~(u = Super /\ ~active)
    /\ registered' = SetActive(registered, u, active)
    /\ objects' = SetActive(objects, u, active)
    /\ \/ /\ u \in UsersOf(stored)
          /\ stored' = SetActive(stored, u, active) /\ want' = SetActive(want, u, active)
          /\ UNCHANGED <<uncertain, keyGap>>
       \/ RowFails(u, "user")
    /\ UNCHANGED <<usedUsers, lastCred, ignored, permVars>>

------------------------------------------------------------------------------
\* A record whose name is taken is not inserted, without an error.
Inserted(layer, c) ==
    IF Named(layer, c.kind, c.user, c.name) = {} THEN AddCred(layer, c) ELSE layer

\* createUserAccessKey() and createUserToken(): the object, which refuses a name
\* that it has, the registry, the row.
CreateCred(kind, u, n, valid) ==
    LET c == Cred(kind, lastCred[kind] + 1, u, n, valid) IN
    /\ u \in UsersOf(registered) \cap cached /\ lastCred[kind] < MaxCredId
    /\ lastCred' = [lastCred EXCEPT ![kind] = @ + 1]
    /\ IF Named(objects, kind, u, n) # {}
       THEN UNCHANGED <<stored, registered, objects, want, uncertain, keyGap>>
       ELSE /\ objects' = AddCred(objects, c) /\ registered' = Inserted(registered, c)
            /\ \/ /\ stored' = AddCred(stored, c) /\ want' = AddCred(want, c)
                  /\ UNCHANGED <<uncertain, keyGap>>
               \/ RowFails(u, kind)
    /\ UNCHANGED <<usedUsers, ignored, permVars>>

\* All keys count, the inactive ones too.
ActiveKeysMutant(u) == {c \in CredsOf(objects, u) : c.kind = "key"}

\* User::getActiveAccessKeyCount()
ActiveKeys(u) == {c \in CredsOf(objects, u) : c.kind = "key" /\ c.valid}

\* The row of a token stays.
DroppedRowMutant(c) == IF c.kind = "token" THEN stored ELSE RemoveCreds(stored, {c})

\* deleteUserAccessKey(), deleteUserToken(): the row with the ID of the record.
DroppedRow(c) == RemoveCreds(stored, {c})

\* dropUserAccessKey() and dropUserToken().  When the object refuses to lose the
\* last active key of the superuser, the registry has lost it already.
DropCred(kind, u, n) ==
    /\ u \in cached
    /\ \E c \in Named(registered, kind, u, n) :
        /\ registered' = RemoveCreds(registered, {c})
        /\ IF u = Super /\ kind = "key" /\ Cardinality(ActiveKeys(u)) = 1
              /\ \E d \in ActiveKeys(u) : d.name = n
           THEN /\ uncertain' = uncertain \cup {u}
                /\ UNCHANGED <<objects, stored, want, keyGap>>
           ELSE /\ objects' = RemoveCreds(objects, Named(objects, kind, u, n))
                /\ \/ /\ stored' = DroppedRow(c) /\ want' = RemoveCreds(want, {c})
                      /\ UNCHANGED <<uncertain, keyGap>>
                   \/ RowFails(u, kind)
    /\ UNCHANGED <<usedUsers, lastCred, ignored, permVars>>

\* updateUserAccessKey() and updateUserToken(), the row: an update of a row that
\* is not there throws.
AlterRow(c, valid) ==
    \/ /\ \E d \in stored.creds : Same(c, d)
       /\ stored' = SetValid(stored, c, valid) /\ want' = SetValid(want, c, valid)
       /\ UNCHANGED <<uncertain, keyGap>>
    \/ RowFails(c.user, c.kind)

\* The last active key of the superuser cannot be deactivated.
AlterKey(u, n, valid) ==
    /\ u \in cached
    /\ \E c \in Named(registered, "key", u, n) :
        /\ c.valid # valid
        /\ ~(u = Super /\ ~valid /\ Cardinality(ActiveKeys(u)) = 1)
        /\ registered' = SetValid(registered, c, valid)
        /\ objects' = SetValid(objects, c, valid)
        /\ AlterRow(c, valid)
    /\ UNCHANGED <<usedUsers, lastCred, ignored, permVars>>

\* The expiration is compared with the registry's record, which is not changed:
\* what the record says cannot be set again, or, when the description changes
\* too, is set in the row only.
AlterToken(u, n, valid) ==
    /\ u \in cached
    /\ \E c \in Named(registered, "token", u, n) :
        IF c.valid = valid
        THEN /\ \E d \in objects.creds : Same(c, d) /\ d.valid # valid
             /\ \/ /\ want' = SetValid(want, c, valid)
                   /\ UNCHANGED <<stored, uncertain, keyGap>>
                \/ AlterRow(c, valid)
             /\ ignored' = ignored \cup {c.id}
             /\ UNCHANGED objects
        ELSE /\ objects' = SetValid(objects, c, valid)
             /\ AlterRow(c, valid)
             /\ ignored' = ignored \ {c.id}
    /\ UNCHANGED <<registered, usedUsers, lastCred, permVars>>

------------------------------------------------------------------------------
\* readAllUsers(), readAllUserAccessKeys() and readAllUserTokens(): rows come by
\* ascending ID, and of two with the same name the first one is taken.
ReadAccounts ==
    LET users == {r \in stored.users : \A x \in stored.users : x.name = r.name => x.id >= r.id}
        ids == {r.id : r \in users}
    IN  [users |-> users,
         creds |-> {c \in stored.creds :
                       /\ c.user \in ids
                       /\ \A d \in Named(stored, c.kind, c.user, c.name) : d.id >= c.id}]

AccountsRestart ==
    LET read == ReadAccounts
        \* of whom there are rows that were not taken
        doubtful == {u \in Users : Only(stored, {u}) # Only(read, {u})}
        kept == Users \ uncertain
    IN  /\ registered' = read
        /\ objects' = Only(read, {Super})
        /\ want' = [users |-> Only(want, kept).users \cup Only(read, uncertain).users,
                    creds |-> Only(want, kept).creds \cup Only(read, uncertain).creds]
        /\ uncertain' = doubtful
        /\ keyGap' = (keyGap /\ (Super \in doubtful
                                  \/ \A c \in CredsOf(read, Super) : c.kind = "token" \/ ~c.valid))
        /\ UNCHANGED <<stored, usedUsers, lastCred, ignored>>

AccountStatement ==
    \/ \E u \in Users :
        \/ DropUser(u)
        \/ \E active \in BOOLEAN :
            AlterUser(u, active) \/ \E n \in UserNames : CreateUser(u, n, active)
        \/ \E kind \in CredKinds : \E n \in CredNames[kind] :
            DropCred(kind, u, n) \/ \E valid \in BOOLEAN : CreateCred(kind, u, n, valid)
        \/ \E valid \in BOOLEAN :
            \/ \E n \in CredNames["key"] : AlterKey(u, n, valid)
            \/ \E n \in CredNames["token"] : AlterToken(u, n, valid)

------------------------------------------------------------------------------
(***************************************************************************)
(* Properties.                                                             *)
(***************************************************************************)

\* The account of u; the expiration of the tokens ts is not looked at.
Account(layer, u, ts) ==
    [user |-> {r \in layer.users : r.id = u},
     creds |-> {IF c.kind = "token" /\ c.id \in ts THEN [c EXCEPT !.valid = TRUE] ELSE c
                : c \in CredsOf(layer, u)}]

\* Users, keys and tokens are what the statements that succeeded have made of
\* them, in the rows, in the registry and in the objects that decide about
\* logins, whatever is looked up when and over restarts, except for users with
\* a statement that failed half-way (an unwritten row, or the refused drop of
\* the superuser's last key, which the registry forgets), and for tokens whose
\* expiration was set back to the registry's stale copy, which does nothing.
AccountsFollowStatements ==
    \A u \in Users \ uncertain :
        LET all == 1..MaxCredId IN
        /\ Account(stored, u, ignored) = Account(want, u, ignored)
        /\ Account(registered, u, all) = Account(want, u, all)
        /\ u \in cached => Account(objects, u, ignored) = Account(want, u, ignored)

\* The superuser can log in, now and after a restart at any moment: it is active
\* and has an active key, in its object and in the rows, through any sequence of
\* statements on keys, unless the row of one of its keys could not be written:
\* the guards of User::deleteAccessKey() and updateUserAccessKey() only count the
\* keys of the object.
SuperUserCanLogIn ==
    keyGap \/
        \A layer \in {objects, stored} :
            /\ \E r \in layer.users : r.id = Super /\ r.active
            /\ \E c \in CredsOf(layer, Super) : c.kind = "key" /\ c.valid
==============================================================================
