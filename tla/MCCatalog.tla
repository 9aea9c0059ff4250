------------------------------ MODULE MCCatalog ------------------------------
(***************************************************************************)
(* Instance of Catalog for TLC.                                            *)
(***************************************************************************)
EXTENDS Catalog

MCPerms == {"select", "drop"}
MCContents == {NotNull, "zero"}
MCCredNames == [key |-> {"a", "b"}, token |-> {"t"}]

\* Two tables, with two failures or restarts; one table, with four, which is
\* what a start needs to read a table in part; the superuser alone works.
MCTableBudgets ==
    {[tables |-> 2, accounts |-> 0, events |-> 2, logins |-> FALSE],
     [tables |-> 1, accounts |-> 0, events |-> 4, logins |-> FALSE]}

\* One table with statements on permissions and accounts around it; two tables
\* with one such statement, failure or restart; accounts alone.
MCUserBudgets ==
    {[tables |-> 1, accounts |-> 2, events |-> 2, logins |-> TRUE],
     [tables |-> 2, accounts |-> 1, events |-> 1, logins |-> TRUE],
     [tables |-> 0, accounts |-> 4, events |-> 5, logins |-> TRUE]}

MCBudgets == MCTableBudgets \cup MCUserBudgets

\* Names are only compared with each other.
NameSymmetry == Permutations(Names)
==============================================================================
