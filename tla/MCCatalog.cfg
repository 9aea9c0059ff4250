SPECIFICATION Spec
SYMMETRY NameSymmetry
CONSTANTS
    Users = {1, 2, 3}
    Super = 1
    Perms <- MCPerms
    MaxTables = 2
    UserNames = {"alice", "bob"}
    CredNames <- MCCredNames
    MaxCredId = 3
    Names = {a, b}
    NotNull = "notnull"
    Contents <- MCContents
    Grantees = {2}
    Budgets <- MCBudgets
INVARIANTS
    TablesIntact
    OpensUnlessTorn
    NewTableIsUnshared
    PermissionsAreStored
    AccountsFollowStatements
    SuperUserCanLogIn
CHECK_DEADLOCK FALSE
