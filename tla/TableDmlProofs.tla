---------------------------- MODULE TableDmlProofs ----------------------------
(***************************************************************************)
(* For every number of columns, rows, row IDs, statements and failures:    *)
(*   - the records of a row form its history, and a row ID is never given  *)
(*     to a second row (HistoryInv);                                       *)
(*   - every row has the values of the last successful operation on it     *)
(*     (RowsInv), because writes and rollbacks leave what counts in the    *)
(*     columns alone (Extended) as long as no rollback uses an address     *)
(*     that is not its own;                                                *)
(*   - a statement that succeeds has changed exactly the rows that it      *)
(*     selected (ScanInv).                                                 *)
(* WritesOf and AddressesOf are defined by recursion; what they compute is *)
(* shown by induction over sets of numbers (SetInduction).                 *)
(***************************************************************************)
EXTENDS TableDml, SequenceTheorems, FiniteSetTheorems, WellFoundedInduction, TLAPS

\* The master column: records beyond its length are those of a refused write.
MasterOK ==
  /\ \E S : master.data \in Seq(S)
  /\ master = [data |-> master.data, len |-> master.len]
  /\ master.len \in 0..Len(master.data)

IndexOK ==
  /\ index \in [Trids -> Nat]
  /\ \A t \in Trids : index[t] # 0 => index[t] \in 1..Len(master.data)
  /\ lastTrid \in 0..MaxTrid
  /\ ends \in [min : Nat, max : Nat]

InsertStatement ==
  [kind : {"insert"}, rows : Nat, done : Nat, touched : SUBSET Trids, target : SUBSET Trids,
   crossed : SUBSET Trids]

\* The cursor of a scan may be at a key that is no row ID.
ScanStatement ==
  [kind : {"update", "delete"}, where : Cells, cols : Seq(Columns), cur : Nat, done : Nat,
   touched : SUBSET Trids, target : SUBSET Trids, crossed : SUBSET Trids]

StatementOK == stmt = NoStatement \/ stmt \in InsertStatement \/ stmt \in ScanStatement

\* No record, pending or not, is of a row ID that is still to be given.
TridsCounted ==
  \A p \in 1..Len(master.data) : master.data[p].trid \in 1..lastTrid

\* A record that does not count is of a row whose index entry is in doubt.
PendingIsTorn ==
  \A p \in 1..Len(master.data) : p > master.len => master.data[p].trid \in torn

\* HistoryIsChained, with a predecessor that is a record.
Chained ==
  \A p \in 1..master.len :
    /\ master.data[p].op = "insert" => master.data[p].version = 0
    /\ master.data[p].op # "insert" =>
         \/ master.data[p].trid \in torn
         \/ /\ master.data[p].prev \in 1..(p - 1)
            /\ master.data[master.data[p].prev].trid = master.data[p].trid
            /\ master.data[master.data[p].prev].version + 1 = master.data[p].version

HistoryInv ==
  /\ MasterOK
  /\ IndexOK
  /\ StatementOK
  /\ TridsCounted
  /\ PendingIsTorn
  /\ Chained

-----------------------------------------------------------------------------
\* A non-empty set of numbers has a least element.
LEMMA LeastNat ==
  ASSUME NEW T, T \subseteq Nat, T # {}
  PROVE  \E x \in T : \A y \in T : x <= y
<1> DEFINE R == {p \in Nat \X Nat : p[1] < p[2]}
<1>1. IsWellFoundedOn(R, Nat)
  BY NatLessThanWellFounded, Zenon DEF OpToRel
<1>2. \E x \in T : \A y \in T : ~(<<y, x>> \in R)
  <2> HIDE DEF R
  <2> QED
    BY <1>1, WFMin, Zenon
<1>3. \A x, y \in T : ~(<<y, x>> \in R) => x <= y
  <2> SUFFICES ASSUME NEW x \in T, NEW y \in T, ~(x <= y)
               PROVE  <<y, x>> \in R
    OBVIOUS
  <2>1. x \in Nat /\ y \in Nat /\ y < x
    OBVIOUS
  <2>2. <<y, x>> \in Nat \X Nat /\ <<y, x>>[1] < <<y, x>>[2]
    BY <2>1
  <2> QED
    BY <2>2, Zenon
<1> HIDE DEF R
<1> QED
  BY <1>2, <1>3, Zenon

\* A non-empty set of row IDs has a least element.
LEMMA LeastTrid ==
  ASSUME NEW T, T \subseteq Trids, T # {}
  PROVE  \E x \in T : \A y \in T : x <= y
<1>1. T \subseteq Nat
  BY DEF Trids
<1> QED
  BY <1>1, LeastNat

\* A set of row IDs has a greatest and a least one.
LEMMA LeastAndGreatest ==
  ASSUME NEW T, T \subseteq Trids, T # {}
  PROVE  /\ Min(T) \in T /\ \A k \in T : Min(T) <= k
         /\ Max(T) \in T /\ \A k \in T : Max(T) >= k
<1>1. Min(T) \in T /\ \A k \in T : Min(T) <= k
  BY LeastTrid DEF Min
<1> DEFINE U == {z \in Trids : MaxTrid + 1 - z \in T}
<1>2. PICK z \in U : \A y \in U : z <= y
  <2>1. U # {}
    <3>1. PICK t \in T : TRUE
      OBVIOUS
    <3>2. MaxTrid + 1 - t \in Trids /\ MaxTrid + 1 - (MaxTrid + 1 - t) = t
      BY <3>1, SizeAssumption DEF Trids
    <3> QED
      BY <3>1, <3>2
  <2>2. U \subseteq Trids
    OBVIOUS
  <2> HIDE DEF U
  <2> QED
    BY <2>1, <2>2, LeastTrid
<1>3. \A y \in T : MaxTrid + 1 - z >= y
  <2> SUFFICES ASSUME NEW y \in T PROVE MaxTrid + 1 - z >= y
    OBVIOUS
  <2>1. MaxTrid + 1 - y \in U
    <3>1. MaxTrid + 1 - y \in Trids /\ MaxTrid + 1 - (MaxTrid + 1 - y) = y
      BY SizeAssumption DEF Trids
    <3> QED
      BY <3>1
  <2>2. z <= MaxTrid + 1 - y
    BY <1>2, <2>1
  <2> QED
    BY <1>2, <2>2, SizeAssumption DEF Trids
<1>4. MaxTrid + 1 - z \in T
  BY <1>2
<1>5. Max(T) \in T /\ \A k \in T : Max(T) >= k
  BY <1>3, <1>4 DEF Max
<1> QED
  BY <1>1, <1>5

\* The ends that the index looks for are among the keys it looks through.
LEMMA EndsOfSet ==
  ASSUME NEW T, T \subseteq Trids, T # {}
  PROVE  Min(T) \in T /\ Max(T) \in T
BY LeastAndGreatest

\* The numbers of the files and of the records in them.
LEMMA RecordNumbers ==
  ASSUME NEW k \in Nat
  PROVE  /\ k % N \in Nat /\ k % N < N /\ k \div N \in Nat /\ FileOf(k) \in Nat
         /\ k = (k \div N) * N + (k % N)
<1>1. /\ k % N \in Nat /\ k % N < N /\ k \div N \in Nat
      /\ k = (k \div N) * N + (k % N)
  BY NAssumption
<1> QED
  BY <1>1 DEF FileOf

\* Greater keys are not in files before.
LEMMA FilesAscend ==
  ASSUME NEW a \in Nat, NEW b \in Nat, a <= b
  PROVE  FileOf(a) <= FileOf(b)
<1>1. a \div N <= b \div N /\ a \div N \in Nat /\ b \div N \in Nat
  BY NAssumption
<1> QED
  BY <1>1 DEF FileOf

\* The key with the last record of a file has the remainder N - 1.
LEMMA LastRemainder ==
  ASSUME NEW t \in Nat, (t + 1) % N = 0
  PROVE  t % N = N - 1
<1>1. \A q, r \in Nat : r < N => (q * N + r) % N = r
  BY NAssumption
<1>2. /\ t % N \in Nat /\ t % N < N /\ t \div N \in Nat
      /\ t = (t \div N) * N + (t % N)
  BY RecordNumbers
<1> SUFFICES ASSUME t % N # N - 1 PROVE FALSE
  OBVIOUS
<1>3. PICK q \in Nat, r \in Nat : q = t \div N /\ r = t % N
  BY <1>2
<1>4. r + 1 \in Nat /\ r + 1 < N
  BY <1>2, <1>3, NAssumption
<1>5. (q * N + (r + 1)) % N = r + 1
  BY <1>1, <1>3, <1>4
<1>6. q * N \in Nat
  BY <1>3, NAssumption
<1>7. t + 1 = q * N + (r + 1)
  <2>1. PICK m \in Nat : m = q * N
    BY <1>6
  <2>2. t = m + r
    BY <1>2, <1>3, <2>1
  <2>3. t + 1 = m + (r + 1)
    BY <1>3, <2>2
  <2> QED
    BY <2>1, <2>3
<1> QED
  BY <1>3, <1>5, <1>7

\* A file has no key above the one of its last record, and N - 1 below it.
LEMMA LastOfFile ==
  ASSUME NEW t \in Nat, (t + 1) % N = 0, NEW k \in Nat, FileOf(k) = FileOf(t)
  PROVE  k <= t /\ k + N > t
<1>1. t % N = N - 1
  BY LastRemainder
<1>2. PICK q \in Nat : q = t \div N
  BY RecordNumbers
<1>3. k \div N = q
  <2>1. k \div N \in Nat
    BY RecordNumbers
  <2> QED
    BY <1>2, <2>1 DEF FileOf
<1>4. PICK m \in Nat : m = q * N
  BY <1>2, NAssumption
<1>5. t = m + (N - 1)
  <2>1. t = (t \div N) * N + (t % N)
    BY RecordNumbers
  <2> QED
    BY <1>1, <1>2, <1>4, <2>1
<1>6. PICK r \in Nat : r < N /\ k = m + r
  <2>1. k % N \in Nat /\ k % N < N /\ k = (k \div N) * N + (k % N)
    BY RecordNumbers
  <2> QED
    BY <1>3, <1>4, <2>1
<1> QED
  BY <1>5, <1>6, NAssumption

\* findKeyAfter among the keys of P, when the greatest key is last.
After(P, t, last) ==
  LET here == IF (t + 1) % N = 0
              THEN {k + N : k \in {j \in P : FileOf(j) = FileOf(t)}}
              ELSE {k \in P : FileOf(k) = FileOf(t) /\ k > t}
      later == {k \in P : FileOf(k) > FileOf(t)}
  IN IF t \in {last, MaxTrid} THEN 0
     ELSE IF here # {} THEN Min(here)
     ELSE IF later # {} THEN Min(later) ELSE 0

\* The search starts again at the head of the file.
Restarts(P, t) == (t + 1) % N = 0 /\ \E k \in P : FileOf(k) = FileOf(t)

\* The search that starts again finds a key that is at most N greater.
LEMMA AfterRestart ==
  ASSUME NEW P, P \subseteq Trids, NEW t \in Nat, NEW last, Restarts(P, t), t \notin {last, MaxTrid}
  PROVE  After(P, t, last) \in (t + 1)..(t + N)
<1> DEFINE here == {k + N : k \in {j \in P : FileOf(j) = FileOf(t)}}
<1>1. (t + 1) % N = 0
  BY DEF Restarts
<1>2. P \subseteq Nat
  BY DEF Trids
<1>3. \A x \in here : x \in (t + 1)..(t + N)
  <2> SUFFICES ASSUME NEW k \in P, FileOf(k) = FileOf(t)
               PROVE  k + N \in (t + 1)..(t + N)
    OBVIOUS
  <2>1. k \in Nat /\ k <= t /\ k + N > t
    BY <1>1, <1>2, LastOfFile
  <2> QED
    BY <2>1, NAssumption
<1>4. here # {}
  BY DEF Restarts
<1>5. After(P, t, last) = Min(here)
  BY <1>1, <1>4 DEF After
<1> HIDE DEF here
<1>6. here \subseteq Nat
  <2>1. (t + 1)..(t + N) \subseteq Nat
    BY NAssumption
  <2> QED
    BY <1>3, <2>1
<1>7. Min(here) \in here
  BY <1>4, <1>6, LeastNat DEF Min
<1> QED
  BY <1>3, <1>5, <1>7

\* Otherwise the search is exact.
LEMMA AfterExact ==
  ASSUME NEW P, P \subseteq Trids, NEW t \in Nat, NEW last, ~Restarts(P, t)
  PROVE  \/ /\ After(P, t, last) = 0
            /\ t \in {last, MaxTrid} \/ \A k \in P : k <= t
         \/ /\ After(P, t, last) \in P /\ After(P, t, last) > t
            /\ \A k \in P : k > t => k >= After(P, t, last)
<1> DEFINE here == IF (t + 1) % N = 0
                   THEN {k + N : k \in {j \in P : FileOf(j) = FileOf(t)}}
                   ELSE {k \in P : FileOf(k) = FileOf(t) /\ k > t}
           later == {k \in P : FileOf(k) > FileOf(t)}
<1>0. P \subseteq Nat /\ FileOf(t) \in Nat
  BY RecordNumbers DEF Trids
<1>1. After(P, t, last) =
        IF t \in {last, MaxTrid} THEN 0
        ELSE IF here # {} THEN Min(here)
        ELSE IF later # {} THEN Min(later) ELSE 0
  BY DEF After
<1>2. \A k \in P : k \in here <=> FileOf(k) = FileOf(t) /\ k > t
  <2>1. CASE (t + 1) % N # 0
    BY <2>1
  <2>2. CASE (t + 1) % N = 0
    BY <2>2 DEF Restarts
  <2> QED
    BY <2>1, <2>2
<1>3. here \subseteq P
  <2>1. CASE (t + 1) % N # 0
    BY <2>1
  <2>2. CASE (t + 1) % N = 0
    BY <2>2 DEF Restarts
  <2> QED
    BY <2>1, <2>2
<1>4. \A k \in P : k \in later <=> FileOf(k) > FileOf(t)
  OBVIOUS
<1>5. later \subseteq P
  OBVIOUS
<1> HIDE DEF here, later
<1>6. \A k \in P : FileOf(k) \in Nat /\ (k > t => k \in here \/ k \in later)
  <2> SUFFICES ASSUME NEW k \in P PROVE FileOf(k) \in Nat /\ (k > t => k \in here \/ k \in later)
    OBVIOUS
  <2>1. k \in Nat /\ FileOf(k) \in Nat
    BY <1>0, RecordNumbers
  <2>2. k > t => FileOf(t) <= FileOf(k)
    BY <2>1, FilesAscend
  <2> QED
    BY <1>0, <1>2, <1>4, <2>1, <2>2
<1>7. \A k \in later : k \in P /\ k > t
  <2> SUFFICES ASSUME NEW k \in later PROVE k \in P /\ k > t
    OBVIOUS
  <2>1. k \in Nat /\ FileOf(k) \in Nat /\ FileOf(k) > FileOf(t)
    BY <1>0, <1>4, <1>5, <1>6
  <2>2. k <= t => FileOf(k) <= FileOf(t)
    BY <2>1, FilesAscend
  <2> QED
    BY <1>0, <1>5, <2>1, <2>2
<1>8. \A k \in here, l \in later : k <= l
  <2> SUFFICES ASSUME NEW k \in here, NEW l \in later PROVE k <= l
    OBVIOUS
  <2>1. /\ k \in Nat /\ l \in Nat /\ FileOf(k) = FileOf(t) /\ FileOf(l) > FileOf(t)
        /\ FileOf(l) \in Nat
    BY <1>0, <1>2, <1>3, <1>4, <1>5, <1>6
  <2>2. l <= k => FileOf(l) <= FileOf(k)
    BY <2>1, FilesAscend
  <2> QED
    BY <1>0, <2>1, <2>2
<1>9. /\ here # {} => Min(here) \in here /\ \A k \in here : Min(here) <= k
      /\ later # {} => Min(later) \in later /\ \A k \in later : Min(later) <= k
  <2>1. here \subseteq Trids /\ later \subseteq Trids
    BY <1>3, <1>5
  <2> QED
    BY <2>1, LeastAndGreatest
<1>10. CASE t \in {last, MaxTrid}
  BY <1>1, <1>10
<1>11. CASE t \notin {last, MaxTrid} /\ here # {}
  <2>1. PICK m : m = Min(here)
    OBVIOUS
  <2>2. m \in here /\ m \in P /\ m > t /\ \A k \in here : m <= k
    BY <1>2, <1>3, <1>9, <1>11, <2>1
  <2>3. \A k \in P : k > t => k >= m
    BY <1>0, <1>6, <1>8, <2>2
  <2> QED
    BY <1>1, <1>11, <2>1, <2>2, <2>3
<1>12. CASE t \notin {last, MaxTrid} /\ here = {} /\ later # {}
  <2>1. PICK m : m = Min(later)
    OBVIOUS
  <2>2. m \in later /\ m \in P /\ m > t /\ \A k \in later : m <= k
    BY <1>7, <1>9, <1>12, <2>1
  <2>3. \A k \in P : k > t => k >= m
    BY <1>0, <1>6, <1>12, <2>2
  <2> QED
    BY <1>1, <1>12, <2>1, <2>2, <2>3
<1>13. CASE t \notin {last, MaxTrid} /\ here = {} /\ later = {}
  <2>1. \A k \in P : k <= t
    BY <1>0, <1>6, <1>13
  <2> QED
    BY <1>1, <1>13, <2>1
<1> QED
  BY <1>10, <1>11, <1>12, <1>13

\* The search returns 0 or a greater key.
LEMMA AfterInNat ==
  ASSUME NEW P, P \subseteq Trids, NEW t \in Nat, NEW last
  PROVE  After(P, t, last) \in Nat
<1>1. CASE t \in {last, MaxTrid}
  BY <1>1 DEF After
<1>2. CASE t \notin {last, MaxTrid} /\ Restarts(P, t)
  <2>1. (t + 1)..(t + N) \subseteq Nat
    BY NAssumption
  <2> QED
    BY <1>2, <2>1, AfterRestart
<1>3. CASE ~Restarts(P, t)
  <2>1. P \subseteq Nat
    BY DEF Trids
  <2>2. PICK n : n = After(P, t, last)
    OBVIOUS
  <2>3. n = 0 \/ n \in P
    <3>1. After(P, t, last) = 0 \/ After(P, t, last) \in P
      BY <1>3, AfterExact, Zenon
    <3> QED
      BY <2>2, <3>1
  <2>4. n \in Nat
    <3>1. n \in P => n \in Nat
      BY <2>1, Zenon
    <3>2. n = 0 => n \in Nat
      OBVIOUS
    <3> QED
      BY <2>3, <3>1, <3>2
  <2> QED
    BY <2>2, <2>4
<1> QED
  BY <1>1, <1>2, <1>3

\* The cursor of a scan is at a key, or at its end.
LEMMA CursorOK ==
  ASSUME IndexOK, NEW t \in Nat
  PROVE  FirstKey \in Nat /\ NextKey(t) \in Nat
<1>1. FirstKey \in Nat
  BY DEF FirstKey, IndexOK
<1>2. Present \subseteq Trids
  BY DEF Present
<1>3. NextKey(t) = After(Present, t, ends.max)
  BY DEF NextKey, KeyAfter, After
<1>4. NextKey(t) \in Nat
  BY <1>2, <1>3, AfterInNat
<1> QED
  BY <1>1, <1>4

\* Erasing a key leaves ends that are keys.
LEMMA ErasedEndsOK ==
  ASSUME IndexOK, NEW t \in Trids
  PROVE  EndsAfterErase(t) \in [min : Nat, max : Nat]
<1> DEFINE P == Present \ {t}
           before == {k \in P : k < t}
<1>1. P \subseteq Trids /\ before \subseteq Trids /\ t \in Nat /\ Trids \subseteq Nat
  BY DEF Present, Trids
<1>2. KeyAfter(P, t) = After(P, t, ends.max)
  BY DEF KeyAfter, After
<1>3. KeyBefore(P, t) = IF t = ends.min \/ before = {} THEN 0 ELSE Max(before)
  BY DEF KeyBefore
<1>4. EndsAfterErase(t) =
        IF t = ends.min /\ t = ends.max THEN NoKeys
        ELSE [min |-> IF t = ends.min THEN KeyAfter(P, t) ELSE ends.min,
              max |-> IF t = ends.max THEN KeyBefore(P, t) ELSE ends.max]
  BY DEF EndsAfterErase
<1> HIDE DEF P, before
<1>5. KeyAfter(P, t) \in Nat
  BY <1>1, <1>2, AfterInNat
<1>6. KeyBefore(P, t) \in Nat
  <2>1. before # {} => Max(before) \in before
    BY <1>1, EndsOfSet, Zenon
  <2>2. PICK m : m = Max(before)
    OBVIOUS
  <2>3. before # {} => m \in Nat
    BY <1>1, <2>1, <2>2
  <2> QED
    BY <1>3, <2>2, <2>3
<1> QED
  BY <1>4, <1>5, <1>6, SizeAssumption DEF NoKeys, IndexOK

-----------------------------------------------------------------------------
\* What a record in the place after the last one does to the contents.
LEMMA OneMoreRecord ==
  ASSUME MasterOK, NEW x
  PROVE  LET d == Written(master, x).data
         IN /\ \E S : d \in Seq(S)
            /\ Len(d) \in Nat /\ master.len + 1 \in 1..Len(d)
            /\ Len(master.data) <= Len(d)
            /\ d[master.len + 1] = x
            /\ \A p \in 1..Len(d) : p # master.len + 1
                 => p \in 1..Len(master.data) /\ d[p] = master.data[p]
<1>1. PICK S : master.data \in Seq(S)
  BY DEF MasterOK
<1> DEFINE s == master.data
           n == master.len
           d == Written(master, x).data
<1>2. s \in Seq(S \cup {x}) /\ Len(s) \in Nat /\ n \in 0..Len(s)
  BY <1>1 DEF MasterOK
<1>3. d = IF n < Len(s) THEN [s EXCEPT ![n + 1] = x] ELSE Append(s, x)
  BY DEF Written
<1> HIDE DEF s, n, d
<1>4. CASE n < Len(s)
  <2>1. d = [s EXCEPT ![n + 1] = x]
    BY <1>3, <1>4
  <2>2. d \in Seq(S \cup {x}) /\ Len(d) = Len(s)
    <3>1. n + 1 \in 1..Len(s) /\ x \in S \cup {x}
      BY <1>2, <1>4
    <3> QED
      BY <1>2, <2>1, <3>1, ExceptSeq
  <2>3. \A p \in 1..Len(s) : d[p] = IF p = n + 1 THEN x ELSE s[p]
    BY <1>2, <2>1
  <2> QED
    BY <1>2, <1>4, <2>2, <2>3 DEF s, n, d
<1>5. CASE ~(n < Len(s))
  <2>1. d = Append(s, x) /\ n = Len(s)
    BY <1>2, <1>3, <1>5
  <2>2. d \in Seq(S \cup {x}) /\ Len(d) = Len(s) + 1
    BY <1>2, <2>1
  <2>3. \A p \in 1..(Len(s) + 1) : d[p] = IF p = Len(s) + 1 THEN x ELSE s[p]
    BY <1>2, <2>1
  <2> QED
    BY <1>2, <2>1, <2>2, <2>3 DEF s, n, d
<1> QED
  BY <1>4, <1>5

\* A record is written that starts the history of a row or goes on with one.
LEMMA RecordWritten ==
  ASSUME HistoryInv, NEW x, master' = Written(master, x), torn' = torn,
         lastTrid' \in lastTrid..MaxTrid, x.trid \in 1..lastTrid',
         x.op = "insert" => x.version = 0,
         x.op # "insert" => \/ x.trid \in torn
                            \/ /\ x.prev \in 1..master.len
                               /\ master.data[x.prev].trid = x.trid
                               /\ master.data[x.prev].version + 1 = x.version
  PROVE  /\ MasterOK' /\ TridsCounted' /\ PendingIsTorn' /\ Chained'
         /\ master.len + 1 \in 1..Len(master'.data)
         /\ Len(master.data) <= Len(master'.data)
<1> USE DEF HistoryInv
<1> DEFINE d == master'.data
           n == master.len
<1>1. /\ \E S : d \in Seq(S)
      /\ Len(d) \in Nat /\ n + 1 \in 1..Len(d)
      /\ Len(master.data) <= Len(d)
      /\ d[n + 1] = x
      /\ \A p \in 1..Len(d) : p # n + 1
           => p \in 1..Len(master.data) /\ d[p] = master.data[p]
  BY OneMoreRecord
<1>2. master' = [data |-> d, len |-> n + 1] /\ n \in Nat
  BY DEF Written, MasterOK
<1>3. MasterOK'
  BY <1>1, <1>2 DEF MasterOK
<1>4. TridsCounted'
  <2> SUFFICES ASSUME NEW p \in 1..Len(d) PROVE d[p].trid \in 1..lastTrid'
    BY DEF TridsCounted
  <2>1. CASE p = n + 1
    BY <1>1, <2>1
  <2>2. CASE p # n + 1
    <3>1. d[p].trid \in 1..lastTrid
      BY <1>1, <2>2 DEF TridsCounted
    <3> QED
      BY <3>1 DEF IndexOK
  <2> QED
    BY <2>1, <2>2
<1>5. PendingIsTorn'
  BY <1>1, <1>2 DEF PendingIsTorn
<1>6. Chained'
  <2> SUFFICES ASSUME NEW p \in 1..(n + 1)
               PROVE  /\ d[p].op = "insert" => d[p].version = 0
                      /\ d[p].op # "insert" =>
                           \/ d[p].trid \in torn
                           \/ /\ d[p].prev \in 1..(p - 1)
                              /\ d[d[p].prev].trid = d[p].trid
                              /\ d[d[p].prev].version + 1 = d[p].version
    BY <1>2 DEF Chained
  <2>1. \A q \in 1..n : d[q] = master.data[q]
    BY <1>1, <1>2
  <2>2. CASE p = n + 1
    <3>1. d[p] = x /\ p - 1 = n
      BY <1>1, <1>2, <2>2
    <3> HIDE DEF d, n, HistoryInv
    <3>2. CASE x.op = "insert"
      BY <3>1, <3>2
    <3>3. CASE x.op # "insert" /\ x.trid \in torn
      BY <3>1, <3>3
    <3>4. CASE x.op # "insert" /\ x.trid \notin torn
      <4>1. /\ x.prev \in 1..n
            /\ master.data[x.prev].trid = x.trid
            /\ master.data[x.prev].version + 1 = x.version
        BY <3>4 DEF n
      <4>2. d[x.prev] = master.data[x.prev]
        BY <2>1, <4>1
      <4> QED
        BY <3>1, <3>4, <4>1, <4>2
    <3> QED
      BY <3>2, <3>3, <3>4
  <2>3. CASE p # n + 1
    <3>1. p \in 1..n /\ d[p] = master.data[p]
      BY <1>2, <2>1, <2>3
    <3>2. \A q \in 1..(p - 1) : d[q] = master.data[q]
      BY <1>2, <2>1, <3>1
    <3> QED
      BY <3>1, <3>2 DEF Chained
  <2> QED
    BY <2>2, <2>3
<1> QED
  BY <1>1, <1>3, <1>4, <1>5, <1>6

\* A record whose index entry was refused is left without counting.
LEMMA RecordPending ==
  ASSUME HistoryInv, NEW x, master' = Pending(master, x), torn' = torn \cup {x.trid},
         lastTrid' \in lastTrid..MaxTrid, x.trid \in 1..lastTrid'
  PROVE  /\ MasterOK' /\ TridsCounted' /\ PendingIsTorn' /\ Chained'
         /\ master.len + 1 \in 1..Len(master'.data)
         /\ Len(master.data) <= Len(master'.data)
<1> USE DEF HistoryInv
<1> DEFINE d == master'.data
           n == master.len
<1>1. master' = [data |-> Written(master, x).data, len |-> n] /\ n \in Nat
  <2>1. Written(master, x) = [data |-> Written(master, x).data, len |-> n + 1]
    BY DEF Written
  <2> QED
    BY <2>1 DEF Pending, MasterOK
<1>2. /\ \E S : d \in Seq(S)
      /\ Len(d) \in Nat /\ n + 1 \in 1..Len(d)
      /\ Len(master.data) <= Len(d)
      /\ d[n + 1] = x
      /\ \A p \in 1..Len(d) : p # n + 1
           => p \in 1..Len(master.data) /\ d[p] = master.data[p]
  BY <1>1, OneMoreRecord
<1>3. MasterOK'
  BY <1>1, <1>2 DEF MasterOK
<1>4. TridsCounted'
  <2> SUFFICES ASSUME NEW p \in 1..Len(d) PROVE d[p].trid \in 1..lastTrid'
    BY DEF TridsCounted
  <2>1. CASE p = n + 1
    BY <1>2, <2>1
  <2>2. CASE p # n + 1
    <3>1. d[p].trid \in 1..lastTrid
      BY <1>2, <2>2 DEF TridsCounted
    <3> QED
      BY <3>1 DEF IndexOK
  <2> QED
    BY <2>1, <2>2
<1>5. PendingIsTorn'
  <2> SUFFICES ASSUME NEW p \in 1..Len(d), p > n PROVE d[p].trid \in torn'
    BY <1>1 DEF PendingIsTorn
  <2>1. CASE p = n + 1
    BY <1>2, <2>1
  <2>2. CASE p # n + 1
    <3>1. p \in 1..Len(master.data) /\ d[p] = master.data[p]
      BY <1>2, <2>2
    <3> QED
      BY <3>1 DEF PendingIsTorn
  <2> QED
    BY <2>1, <2>2
<1>6. Chained'
  <2> SUFFICES ASSUME NEW p \in 1..n
               PROVE  /\ d[p].op = "insert" => d[p].version = 0
                      /\ d[p].op # "insert" =>
                           \/ d[p].trid \in torn
                           \/ /\ d[p].prev \in 1..(p - 1)
                              /\ d[d[p].prev].trid = d[p].trid
                              /\ d[d[p].prev].version + 1 = d[p].version
    BY <1>1 DEF Chained
  <2>0. \A q \in 1..n : d[q] = master.data[q]
    <3> SUFFICES ASSUME NEW q \in 1..n PROVE d[q] = master.data[q]
      OBVIOUS
    <3> HIDE DEF d, n, HistoryInv
    <3>1. q # n + 1 /\ q \in 1..Len(d)
      BY <1>1, <1>2
    <3> QED
      BY <1>2, <3>1
  <2>1. d[p] = master.data[p] /\ \A q \in 1..(p - 1) : d[q] = master.data[q]
    <3> HIDE DEF d, n, HistoryInv
    <3>1. \A q \in 1..(p - 1) : q \in 1..n
      BY <1>1
    <3> QED
      BY <2>0, <3>1, Zenon
  <2>2. p \in 1..master.len
    BY <1>1
  <2>3. Chained
    OBVIOUS
  <2> HIDE DEF d, n, HistoryInv
  <2>4. /\ master.data[p].op = "insert" => master.data[p].version = 0
        /\ master.data[p].op # "insert" =>
             \/ master.data[p].trid \in torn
             \/ /\ master.data[p].prev \in 1..(p - 1)
                /\ master.data[master.data[p].prev].trid = master.data[p].trid
                /\ master.data[master.data[p].prev].version + 1 = master.data[p].version
    BY <2>2, <2>3 DEF Chained
  <2> QED
    BY <2>1, <2>4, Zenon
<1> QED
  BY <1>2, <1>3, <1>4, <1>5, <1>6

-----------------------------------------------------------------------------
\* A row is inserted under the next row ID.
LEMMA InsertRowStep ==
  ASSUME HistoryInv, NEW row, lastTrid < MaxTrid, InsertRow(row)
  PROVE  /\ MasterOK' /\ IndexOK' /\ TridsCounted' /\ PendingIsTorn' /\ Chained'
         /\ lastTrid' = lastTrid + 1
<1> DEFINE addr == AddressesOf(RowAsList(row), NoAddresses)[NumColumns]
           x == NewRecord(lastTrid + 1, "insert", addr, 0, 0)
<1>1. /\ master' = Written(master, x)
      /\ index' = [index EXCEPT ![lastTrid + 1] = master.len + 1]
      /\ ends' = EndsAfterInsert(lastTrid + 1)
      /\ lastTrid' = lastTrid + 1 /\ torn' = torn
  BY DEF InsertRow
<1>2. x.trid = lastTrid + 1 /\ x.op = "insert" /\ x.version = 0
  BY DEF NewRecord
<1> HIDE DEF x
<1>3. lastTrid + 1 \in 1..MaxTrid /\ lastTrid \in Nat
  BY SizeAssumption DEF HistoryInv, IndexOK
<1>4. /\ MasterOK' /\ TridsCounted' /\ PendingIsTorn' /\ Chained'
      /\ master.len + 1 \in 1..Len(master'.data)
      /\ Len(master.data) <= Len(master'.data)
  BY <1>1, <1>2, <1>3, RecordWritten
<1>5. IndexOK'
  <2>1. ends' \in [min : Nat, max : Nat]
    BY <1>1, <1>3 DEF EndsAfterInsert, HistoryInv, IndexOK
  <2>2. Len(master.data) \in Nat /\ Len(master'.data) \in Nat
    BY <1>4 DEF HistoryInv, MasterOK
  <2> QED
    BY <1>1, <1>3, <1>4, <2>1, <2>2 DEF HistoryInv, IndexOK, Trids
<1> QED
  BY <1>1, <1>4, <1>5

\* An insertion fails, at the index at the latest: its row ID is used up.
LEMMA InsertRowFailsStep ==
  ASSUME HistoryInv, NEW row, lastTrid < MaxTrid, InsertRowFails(row)
  PROVE  /\ MasterOK' /\ IndexOK' /\ TridsCounted' /\ PendingIsTorn' /\ Chained'
         /\ lastTrid' = lastTrid + 1
<1> DEFINE addr == AddressesOf(RowAsList(row), NoAddresses)[NumColumns]
           x == NewRecord(lastTrid + 1, "insert", addr, 0, 0)
<1>1. /\ lastTrid' = lastTrid + 1 /\ ends' = ends
      /\ \/ UNCHANGED <<master, index, torn>>
         \/ /\ master' = Pending(master, x)
            /\ index' \in {index, [index EXCEPT ![lastTrid + 1] = master.len + 1]}
            /\ torn' = torn \cup {lastTrid + 1}
  BY DEF InsertRowFails, TridAfterFailure
<1>2. x.trid = lastTrid + 1
  BY DEF NewRecord
<1> HIDE DEF x
<1>3. lastTrid + 1 \in 1..MaxTrid /\ lastTrid \in Nat
  BY SizeAssumption DEF HistoryInv, IndexOK
<1>4. CASE UNCHANGED <<master, index, torn>>
  BY <1>1, <1>3, <1>4 DEF HistoryInv, MasterOK, IndexOK, TridsCounted, PendingIsTorn, Chained
<1>5. CASE /\ master' = Pending(master, x)
           /\ index' \in {index, [index EXCEPT ![lastTrid + 1] = master.len + 1]}
           /\ torn' = torn \cup {lastTrid + 1}
  <2>1. /\ MasterOK' /\ TridsCounted' /\ PendingIsTorn' /\ Chained'
        /\ master.len + 1 \in 1..Len(master'.data)
        /\ Len(master.data) <= Len(master'.data)
    BY <1>1, <1>2, <1>3, <1>5, RecordPending
  <2>2. Len(master.data) \in Nat /\ Len(master'.data) \in Nat
    BY <2>1 DEF HistoryInv, MasterOK
  <2>3. CASE index' = index
    BY <1>1, <1>3, <2>1, <2>2, <2>3 DEF HistoryInv, IndexOK, Trids
  <2>4. CASE index' = [index EXCEPT ![lastTrid + 1] = master.len + 1]
    BY <1>1, <1>3, <2>1, <2>2, <2>4 DEF HistoryInv, IndexOK, Trids
  <2>5. IndexOK'
    BY <1>5, <2>3, <2>4
  <2> QED
    BY <1>1, <2>1, <2>5
<1> QED
  BY <1>1, <1>4, <1>5

\* The record that a scan works on is of a row ID given before; a record that
\* follows it goes on with the history of its row.
LEMMA CurrentRecord ==
  ASSUME HistoryInv, NEW t \in Trids, index[t] # 0
  PROVE  /\ RecordOf(t).trid \in 1..lastTrid /\ RecordOf(t).trid \in Trids
         /\ \/ RecordOf(t).trid \in torn
            \/ index[t] \in 1..master.len
<1>1. index[t] \in 1..Len(master.data) /\ Len(master.data) \in Nat /\ master.len \in Nat
  BY DEF HistoryInv, IndexOK, MasterOK
<1>2. RecordOf(t).trid \in 1..lastTrid
  BY <1>1 DEF RecordOf, HistoryInv, TridsCounted
<1>3. RecordOf(t).trid \in Trids
  BY <1>2, SizeAssumption DEF HistoryInv, IndexOK, Trids
<1>4. index[t] > master.len => RecordOf(t).trid \in torn
  BY <1>1 DEF RecordOf, HistoryInv, PendingIsTorn
<1> QED
  BY <1>1, <1>2, <1>3, <1>4

\* A row is updated: its new record follows the one that the index led to.
LEMMA UpdateRowStep ==
  ASSUME HistoryInv, NEW t \in Trids, index[t] # 0, NEW list,
         UpdateRow(list, RecordOf(t), index[t]), torn' = torn, lastTrid' = lastTrid
  PROVE  /\ MasterOK' /\ IndexOK' /\ TridsCounted' /\ PendingIsTorn' /\ Chained'
         /\ \A k \in Trids : index[k] = 0 => index'[k] = 0
<1> DEFINE r == RecordOf(t)
           x == NewRecord(r.trid, "update", UpdatedAddresses(list, r), r.version + 1, index[t])
<1>1. /\ master' = Written(master, x)
      /\ index' = IndexUpdated(r.trid, master.len + 1)
      /\ ends' = ends
  BY DEF UpdateRow
<1>2. x.trid = r.trid /\ x.op = "update" /\ x.version = r.version + 1 /\ x.prev = index[t]
  BY DEF NewRecord
<1>3. /\ r.trid \in 1..lastTrid /\ r.trid \in Trids
      /\ r.trid \in torn \/ index[t] \in 1..master.len
  BY CurrentRecord
<1>4. r = master.data[index[t]]
  BY DEF RecordOf
<1> HIDE DEF x, r
<1>5. lastTrid' \in lastTrid..MaxTrid
  BY DEF HistoryInv, IndexOK
<1>6. /\ MasterOK' /\ TridsCounted' /\ PendingIsTorn' /\ Chained'
      /\ master.len + 1 \in 1..Len(master'.data)
      /\ Len(master.data) <= Len(master'.data)
  BY <1>1, <1>2, <1>3, <1>4, <1>5, RecordWritten
<1>7. Len(master.data) \in Nat /\ Len(master'.data) \in Nat
  BY <1>6 DEF HistoryInv, MasterOK
<1>8. IndexOK' /\ \A k \in Trids : index[k] = 0 => index'[k] = 0
  BY <1>1, <1>3, <1>6, <1>7 DEF HistoryInv, IndexOK, IndexUpdated
<1> QED
  BY <1>6, <1>8

\* A row is deleted.
LEMMA DeleteRowStep ==
  ASSUME HistoryInv, NEW t \in Trids, index[t] # 0,
         DeleteRow(RecordOf(t), index[t]), torn' = torn, lastTrid' = lastTrid
  PROVE  /\ MasterOK' /\ IndexOK' /\ TridsCounted' /\ PendingIsTorn' /\ Chained'
         /\ \A k \in Trids : index[k] = 0 => index'[k] = 0
<1> DEFINE r == RecordOf(t)
           x == NewRecord(r.trid, "delete", NoAddresses, r.version + 1, index[t])
<1>1. /\ master' = Written(master, x)
      /\ index' = [index EXCEPT ![r.trid] = 0]
      /\ ends' = ends \/ ends' = EndsAfterErase(r.trid)
  BY DEF DeleteRow
<1>2. x.trid = r.trid /\ x.op = "delete" /\ x.version = r.version + 1 /\ x.prev = index[t]
  BY DEF NewRecord
<1>3. /\ r.trid \in 1..lastTrid /\ r.trid \in Trids
      /\ r.trid \in torn \/ index[t] \in 1..master.len
  BY CurrentRecord
<1>4. r = master.data[index[t]]
  BY DEF RecordOf
<1> HIDE DEF x, r
<1>5. lastTrid' \in lastTrid..MaxTrid
  BY DEF HistoryInv, IndexOK
<1>6. /\ MasterOK' /\ TridsCounted' /\ PendingIsTorn' /\ Chained'
      /\ Len(master.data) <= Len(master'.data)
  BY <1>1, <1>2, <1>3, <1>4, <1>5, RecordWritten
<1>7. Len(master.data) \in Nat /\ Len(master'.data) \in Nat
  BY <1>6 DEF HistoryInv, MasterOK
<1>8. ends' \in [min : Nat, max : Nat]
  BY <1>1, <1>3, ErasedEndsOK DEF HistoryInv, IndexOK
<1>9. IndexOK' /\ \A k \in Trids : index[k] = 0 => index'[k] = 0
  BY <1>1, <1>3, <1>6, <1>7, <1>8 DEF HistoryInv, IndexOK
<1> QED
  BY <1>6, <1>9

\* A deletion fails, at the index at the latest.
LEMMA DeleteRowFailsStep ==
  ASSUME HistoryInv, NEW t \in Trids, index[t] # 0,
         DeleteRowFails(RecordOf(t), index[t]), lastTrid' = lastTrid
  PROVE  /\ MasterOK' /\ IndexOK' /\ TridsCounted' /\ PendingIsTorn' /\ Chained'
         /\ \A k \in Trids : index[k] = 0 => index'[k] = 0
<1> DEFINE r == RecordOf(t)
           x == NewRecord(r.trid, "delete", NoAddresses, r.version + 1, index[t])
<1>1. /\ ends' = ends
      /\ \/ UNCHANGED <<master, index, torn>>
         \/ /\ master' = Pending(master, x)
            /\ index' \in {index, [index EXCEPT ![r.trid] = 0]}
            /\ torn' = torn \cup {r.trid}
  BY DEF DeleteRowFails
<1>2. x.trid = r.trid
  BY DEF NewRecord
<1>3. r.trid \in 1..lastTrid /\ r.trid \in Trids
  BY CurrentRecord
<1> HIDE DEF x, r
<1>4. lastTrid' \in lastTrid..MaxTrid
  BY DEF HistoryInv, IndexOK
<1>5. CASE UNCHANGED <<master, index, torn>>
  BY <1>1, <1>5 DEF HistoryInv, MasterOK, IndexOK, TridsCounted, PendingIsTorn, Chained
<1>6. CASE /\ master' = Pending(master, x)
           /\ index' \in {index, [index EXCEPT ![r.trid] = 0]}
           /\ torn' = torn \cup {r.trid}
  <2>1. /\ MasterOK' /\ TridsCounted' /\ PendingIsTorn' /\ Chained'
        /\ Len(master.data) <= Len(master'.data)
    BY <1>2, <1>3, <1>4, <1>6, RecordPending
  <2>2. Len(master.data) \in Nat /\ Len(master'.data) \in Nat
    BY <2>1 DEF HistoryInv, MasterOK
  <2>3. IndexOK' /\ \A k \in Trids : index[k] = 0 => index'[k] = 0
    BY <1>1, <1>3, <1>6, <2>1, <2>2 DEF HistoryInv, IndexOK
  <2> QED
    BY <2>1, <2>3
<1> QED
  BY <1>1, <1>5, <1>6

-----------------------------------------------------------------------------
\* The records and the index are as they were.
LEMMA NothingWritten ==
  ASSUME HistoryInv, UNCHANGED <<master, index, ends, lastTrid, torn>>
  PROVE  MasterOK' /\ IndexOK' /\ TridsCounted' /\ PendingIsTorn' /\ Chained'
BY DEF HistoryInv, MasterOK, IndexOK, TridsCounted, PendingIsTorn, Chained

\* A statement begins at the least key of the index.
LEMMA BeginStep ==
  ASSUME HistoryInv, BeginInsert \/ BeginScan("update") \/ BeginScan("delete")
  PROVE  HistoryInv'
<1>1. UNCHANGED <<master, index, ends, lastTrid, torn>>
  BY DEF BeginInsert, BeginScan
<1>2. CASE BeginInsert
  <2>1. PICK n \in 1..MaxRows :
          stmt' = [kind |-> "insert", rows |-> n, done |-> 0, touched |-> {}, target |-> {},
                   crossed |-> {}]
    BY <1>2 DEF BeginInsert
  <2>2. stmt' \in InsertStatement
    BY <2>1, SizeAssumption DEF InsertStatement
  <2> QED
    BY <1>1, <2>2, NothingWritten DEF HistoryInv, StatementOK
<1>3. ASSUME NEW kind \in {"update", "delete"}, BeginScan(kind)
      PROVE  HistoryInv'
  <2>1. PICK where \in Cells, cols \in IF kind = "update" THEN SetColumns ELSE {<<>>} :
          stmt' = [kind |-> kind, where |-> where, cols |-> cols, cur |-> FirstKey,
                   done |-> 0, touched |-> {}, target |-> {t \in Present : Fits(where, t)},
                   crossed |-> {}]
    BY <1>3 DEF BeginScan
  <2>2. cols \in Seq(Columns)
    <3>1. SetColumns \subseteq Seq(Columns)
      BY DEF SetColumns
    <3>2. <<>> \in Seq(Columns)
      OBVIOUS
    <3> QED
      BY <3>1, <3>2
  <2>3. FirstKey \in Nat
    BY CursorOK DEF HistoryInv
  <2> DEFINE hits == {t \in Present : Fits(where, t)}
  <2>4. hits \in SUBSET Trids
    BY DEF Present
  <2> HIDE DEF hits
  <2>5. StatementOK'
    <3>1. stmt' \in ScanStatement
      BY <1>3, <2>1, <2>2, <2>3, <2>4 DEF hits, ScanStatement
    <3> QED
      BY <3>1 DEF StatementOK
  <2> QED
    BY <1>1, <2>5, NothingWritten DEF HistoryInv
<1> QED
  BY <1>2, <1>3

\* One row of an INSERT.
LEMMA InsertStepStep ==
  ASSUME HistoryInv, InsertStep
  PROVE  HistoryInv'
<1>1. stmt.kind = "insert" /\ lastTrid < MaxTrid
  BY DEF InsertStep
<1>2. CASE /\ \E row \in Rows : InsertRow(row)
           /\ stmt' = [stmt EXCEPT !.done = @ + 1, !.touched = @ \cup {lastTrid'},
                                   !.target = @ \cup {lastTrid'}]
  <2>1. /\ MasterOK' /\ IndexOK' /\ TridsCounted' /\ PendingIsTorn' /\ Chained'
        /\ lastTrid' = lastTrid + 1
    BY <1>1, <1>2, InsertRowStep
  <2>2. lastTrid' \in Trids
    BY <1>1, <2>1, SizeAssumption DEF HistoryInv, IndexOK, Trids
  <2>3. stmt \in InsertStatement
    BY <1>1 DEF HistoryInv, StatementOK, NoStatement, ScanStatement
  <2>4. /\ stmt.done + 1 \in Nat /\ stmt.touched \cup {lastTrid'} \in SUBSET Trids
        /\ stmt.target \cup {lastTrid'} \in SUBSET Trids
    BY <2>2, <2>3 DEF InsertStatement
  <2>5. stmt' \in InsertStatement
    BY <1>2, <2>3, <2>4 DEF InsertStatement
  <2>6. StatementOK'
    BY <2>5 DEF StatementOK
  <2> QED
    BY <2>1, <2>6 DEF HistoryInv
<1>3. CASE (\E row \in Rows : InsertRowFails(row)) /\ Finish(FALSE)
  <2>1. MasterOK' /\ IndexOK' /\ TridsCounted' /\ PendingIsTorn' /\ Chained'
    BY <1>1, <1>3, InsertRowFailsStep
  <2> QED
    BY <1>3, <2>1 DEF HistoryInv, StatementOK, Finish
<1> QED
  BY <1>2, <1>3 DEF InsertStep

\* The cursor goes on.
LEMMA AdvanceStep ==
  ASSUME HistoryInv, stmt.kind \in {"update", "delete"}, IndexOK', stmt.cur \in Trids,
         Advance
  PROVE  StatementOK'
<1>1. PICK t \in {stmt.cur} :
        stmt' = [stmt EXCEPT !.cur = NextKey(t)', !.done = @ + 1, !.touched = @ \cup {t},
                             !.crossed = @ \cup (IF Wraps(t)' THEN {t} ELSE {})]
  BY DEF Advance
<1>2. t \in Trids /\ t \in Nat
  BY <1>1 DEF Trids
<1>3. NextKey(t)' \in Nat
  <2>1. PICK P, last : P = Present' /\ last = ends'.max
    OBVIOUS
  <2>2. P \subseteq Trids
    BY <2>1 DEF Present
  <2>3. NextKey(t)' = After(P, t, last)
    BY <2>1 DEF NextKey, KeyAfter, After
  <2> QED
    BY <1>2, <2>2, <2>3, AfterInNat
<1>w. PICK wraps \in BOOLEAN : wraps <=> Wraps(t)'
  OBVIOUS
<1>4. PICK next, more : /\ next = NextKey(t)' /\ next \in Nat
                        /\ more = (IF wraps THEN {t} ELSE {}) /\ more \subseteq Trids
  BY <1>2, <1>3
<1>5. stmt \in ScanStatement
  BY DEF HistoryInv, StatementOK, NoStatement, InsertStatement
<1>6. stmt' = [stmt EXCEPT !.cur = next, !.done = stmt.done + 1,
                           !.touched = stmt.touched \cup {t},
                           !.crossed = stmt.crossed \cup more]
  BY <1>1, <1>4, <1>w
<1>7. /\ stmt.done + 1 \in Nat /\ stmt.touched \cup {t} \in SUBSET Trids
      /\ stmt.crossed \cup more \in SUBSET Trids
  BY <1>2, <1>4, <1>5 DEF ScanStatement
<1>8. stmt' \in ScanStatement
  BY <1>4, <1>5, <1>6, <1>7 DEF ScanStatement
<1> QED
  BY <1>8 DEF StatementOK

\* One row of an UPDATE or of a DELETE.
LEMMA RowStep ==
  ASSUME HistoryInv, UpdateStep \/ DeleteStep
  PROVE  HistoryInv' /\ \A k \in Trids : index[k] = 0 => index'[k] = 0
<1>1. /\ stmt.kind \in {"update", "delete"} /\ stmt.cur \in Present
      /\ lastTrid' = lastTrid
  BY DEF UpdateStep, DeleteStep, OnRow
<1>2. PICK t \in Trids : t = stmt.cur /\ index[t] # 0
  BY <1>1 DEF Present
<1>3. \/ \E list : UpdateRow(list, RecordOf(t), index[t]) /\ Advance /\ torn' = torn
      \/ UNCHANGED <<master, index, ends, torn>> /\ Finish(FALSE)
      \/ DeleteRow(RecordOf(t), index[t]) /\ Advance /\ torn' = torn
      \/ DeleteRowFails(RecordOf(t), index[t]) /\ Finish(FALSE)
  <2>1. CASE UpdateStep
    BY <1>2, <2>1 DEF UpdateStep, UpdateRowFails
  <2>2. CASE DeleteStep
    BY <1>2, <2>2 DEF DeleteStep
  <2> QED
    BY <2>1, <2>2
<1>4. CASE \E list : UpdateRow(list, RecordOf(t), index[t]) /\ Advance /\ torn' = torn
  <2>1. /\ MasterOK' /\ IndexOK' /\ TridsCounted' /\ PendingIsTorn' /\ Chained'
        /\ \A k \in Trids : index[k] = 0 => index'[k] = 0
    BY <1>1, <1>2, <1>4, UpdateRowStep
  <2>2. StatementOK'
    BY <1>1, <1>2, <1>4, <2>1, AdvanceStep
  <2> QED
    BY <2>1, <2>2 DEF HistoryInv
<1>5. CASE UNCHANGED <<master, index, ends, torn>> /\ Finish(FALSE)
  BY <1>1, <1>5, NothingWritten DEF HistoryInv, StatementOK, Finish
<1>6. CASE DeleteRow(RecordOf(t), index[t]) /\ Advance /\ torn' = torn
  <2>1. /\ MasterOK' /\ IndexOK' /\ TridsCounted' /\ PendingIsTorn' /\ Chained'
        /\ \A k \in Trids : index[k] = 0 => index'[k] = 0
    BY <1>1, <1>2, <1>6, DeleteRowStep
  <2>2. StatementOK'
    BY <1>1, <1>2, <1>6, <2>1, AdvanceStep
  <2> QED
    BY <2>1, <2>2 DEF HistoryInv
<1>7. CASE DeleteRowFails(RecordOf(t), index[t]) /\ Finish(FALSE)
  <2>1. /\ MasterOK' /\ IndexOK' /\ TridsCounted' /\ PendingIsTorn' /\ Chained'
        /\ \A k \in Trids : index[k] = 0 => index'[k] = 0
    BY <1>1, <1>2, <1>7, DeleteRowFailsStep
  <2> QED
    BY <1>7, <2>1 DEF HistoryInv, StatementOK, Finish
<1> QED
  BY <1>3, <1>4, <1>5, <1>6, <1>7

\* Steps that write neither records nor the index.
LEMMA QuietStep ==
  ASSUME HistoryInv,
         \/ InsertExhausted \/ CorruptIndex \/ Skip \/ UpdateKills \/ EndStatement
  PROVE  HistoryInv' /\ index' = index
<1>1. UNCHANGED <<master, index, ends, lastTrid, torn>>
  BY DEF InsertExhausted, CorruptIndex, Skip, UpdateKills, EndStatement
<1>2. CASE InsertExhausted \/ CorruptIndex \/ EndStatement
  <2>1. stmt' = NoStatement
    BY <1>2 DEF InsertExhausted, CorruptIndex, EndStatement, Finish
  <2> QED
    BY <1>1, <2>1, NothingWritten DEF HistoryInv, StatementOK
<1>3. CASE UpdateKills
  BY <1>1, <1>3, NothingWritten DEF HistoryInv, StatementOK, UpdateKills
<1>4. CASE Skip
  <2>1. stmt \in ScanStatement
    BY <1>4 DEF Skip, OnRow, HistoryInv, StatementOK, NoStatement, InsertStatement
  <2>2. NextKey(stmt.cur) \in Nat
    <3>1. stmt.cur \in Nat
      BY <2>1 DEF ScanStatement
    <3> QED
      BY <3>1, CursorOK DEF HistoryInv
  <2>3. stmt.cur \in Trids
    BY <1>4 DEF Skip, OnRow, Present
  <2>4. PICK next, more : /\ next = NextKey(stmt.cur) /\ next \in Nat /\ more \subseteq Trids
                          /\ more = IF Wraps(stmt.cur) THEN {stmt.cur} ELSE {}
    BY <2>2, <2>3
  <2>5. stmt' = [stmt EXCEPT !.cur = next, !.crossed = stmt.crossed \cup more]
    BY <1>4, <2>4 DEF Skip
  <2>6. stmt' \in ScanStatement
    BY <2>1, <2>4, <2>5 DEF ScanStatement
  <2>7. StatementOK'
    BY <2>6 DEF StatementOK
  <2> QED
    BY <1>1, <2>7, NothingWritten DEF HistoryInv
<1> QED
  BY <1>1, <1>2, <1>3, <1>4

\* An empty table satisfies the invariant.
LEMMA InitHistory ==
  ASSUME Init
  PROVE  HistoryInv
<1>1. master = [data |-> <<>>, len |-> 0]
  BY DEF Init, Empty
<1>2. <<>> \in Seq({0}) /\ Len(<<>>) = 0
  OBVIOUS
<1>3. MasterOK /\ TridsCounted /\ PendingIsTorn /\ Chained
  BY <1>1, <1>2 DEF MasterOK, TridsCounted, PendingIsTorn, Chained
<1>4. IndexOK /\ StatementOK
  BY SizeAssumption DEF Init, IndexOK, StatementOK, NoKeys
<1> QED
  BY <1>3, <1>4 DEF HistoryInv

\* Every step keeps the history of the rows.
LEMMA NextHistory ==
  ASSUME HistoryInv, [Next]_vars
  PROVE  HistoryInv'
<1>1. CASE BeginInsert \/ BeginScan("update") \/ BeginScan("delete")
  BY <1>1, BeginStep
<1>2. CASE InsertStep
  BY <1>2, InsertStepStep
<1>3. CASE UpdateStep \/ DeleteStep
  BY <1>3, RowStep
<1>4. CASE InsertExhausted \/ CorruptIndex \/ Skip \/ UpdateKills \/ EndStatement
  BY <1>4, QuietStep
<1>5. CASE UNCHANGED vars
  BY <1>5, NothingWritten DEF vars, HistoryInv, StatementOK
<1> QED
  BY <1>1, <1>2, <1>3, <1>4, <1>5 DEF Next

\* The inductive invariant.
THEOREM HistoryInvariant == Spec => []HistoryInv
<1>1. Init => HistoryInv
  BY InitHistory
<1>2. HistoryInv /\ [Next]_vars => HistoryInv'
  BY NextHistory
<1> QED
  BY <1>1, <1>2, PTL DEF Spec

\* Each record of a row that updateRow and deleteRow write follows the record of the
\* same row with the version before it, whatever fails and is written over in between.
THEOREM HistoryStaysChained == Spec => []HistoryIsChained
<1>1. HistoryInv => HistoryIsChained
  <2> SUFFICES ASSUME HistoryInv, NEW p \in 1..master.len
               PROVE  LET r == master.data[p]
                      IN IF r.op = "insert" THEN r.version = 0
                         ELSE r.trid \in torn
                              \/ /\ r.prev < p
                                 /\ master.data[r.prev].trid = r.trid
                                 /\ master.data[r.prev].version + 1 = r.version
    BY DEF HistoryIsChained
  <2>1. p \in Nat /\ (master.data[p].prev \in 1..(p - 1) => master.data[p].prev < p)
    BY DEF HistoryInv, MasterOK
  <2> QED
    BY <2>1 DEF HistoryInv, Chained
<1> QED
  BY <1>1, HistoryInvariant, PTL

\* generateNextUserTrid never gives an ID for which the master column has, or has
\* begun to write, a record.
THEOREM TridsAreFresh == Spec => TridsNotReused
<1>1. ASSUME HistoryInv, [Next]_vars, NEW t \in Trids, index[t] = 0, index'[t] # 0
      PROVE  \A p \in 1..Len(master.data) : master.data[p].trid # t
  <2>1. InsertStep
    <3>1. CASE BeginInsert \/ BeginScan("update") \/ BeginScan("delete")
      BY <1>1, <3>1 DEF BeginInsert, BeginScan
    <3>2. CASE UpdateStep \/ DeleteStep
      BY <1>1, <3>2, RowStep
    <3>3. CASE InsertExhausted \/ CorruptIndex \/ Skip \/ UpdateKills \/ EndStatement
      BY <1>1, <3>3, QuietStep
    <3>4. CASE UNCHANGED vars
      BY <1>1, <3>4 DEF vars
    <3> QED
      BY <1>1, <3>1, <3>2, <3>3, <3>4 DEF Next
  <2>2. \/ index' = index
        \/ index' = [index EXCEPT ![lastTrid + 1] = master.len + 1]
    BY <2>1 DEF InsertStep, InsertRow, InsertRowFails
  <2>3. t = lastTrid + 1
    BY <1>1, <2>2 DEF HistoryInv, IndexOK
  <2> QED
    BY <1>1, <2>3 DEF HistoryInv, TridsCounted, IndexOK
<1>2. HistoryInv /\ [Next]_vars =>
        [\A t \in Trids : index[t] = 0 /\ index'[t] # 0 =>
           \A p \in 1..Len(master.data) : master.data[p].trid # t]_vars
  BY <1>1
<1> QED
  BY <1>2, HistoryInvariant, PTL DEF Spec, TridsNotReused

-----------------------------------------------------------------------------
\* Induction, for a property given as a set.
LEMMA SetInduction ==
  ASSUME NEW S, 0 \in S, \A n \in Nat : n \in S => n + 1 \in S
  PROVE  \A n \in Nat : n \in S
<1> SUFFICES ASSUME Nat \ S # {} PROVE FALSE
  OBVIOUS
<1> DEFINE T == Nat \ S
<1>1. PICK x \in T : \A y \in T : x <= y
  <2>1. T \subseteq Nat /\ T # {}
    OBVIOUS
  <2> HIDE DEF T
  <2> QED
    BY <2>1, LeastNat
<1>2. x # 0 /\ x \in Nat
  OBVIOUS
<1>3. x - 1 \in Nat /\ ~(x <= x - 1)
  BY <1>2
<1>4. x - 1 \in S
  BY <1>1, <1>3
<1>5. (x - 1) + 1 = x
  BY <1>2
<1>6. x \in S
  BY <1>3, <1>4, <1>5
<1> QED
  BY <1>6

\* f[i] is F[i] of f[i - 1].
Iterates(f, M, x0, F) == f = [i \in 0..M |-> IF i = 0 THEN x0 ELSE F[i][f[i - 1]]]

\* A function that is defined by recursion over the first n numbers exists.
LEMMA RecursionExists ==
  ASSUME NEW D, NEW x0 \in D, NEW M \in Nat, NEW F \in [1..M -> [D -> D]]
  PROVE  \E f : Iterates(f, M, x0, F)
<1> DEFINE Good(n, f) == /\ f \in [0..n -> D] /\ f[0] = x0
                         /\ \A i \in 1..n : f[i] = F[i][f[i - 1]]
           S == {n \in Nat : n <= M => \E f : Good(n, f)}
<1>1. 0 \in S
  <2>1. Good(0, [i \in 0..0 |-> x0])
    OBVIOUS
  <2> QED
    BY <2>1
<1>2. ASSUME NEW n \in Nat, n \in S PROVE n + 1 \in S
  <2> SUFFICES ASSUME n + 1 <= M PROVE \E f : Good(n + 1, f)
    OBVIOUS
  <2>1. PICK f : Good(n, f)
    <3>1. n <= M
      OBVIOUS
    <3> QED
      BY <1>2, <3>1
  <2> DEFINE g == [i \in 0..(n + 1) |-> IF i = n + 1 THEN F[n + 1][f[n]] ELSE f[i]]
  <2>2. /\ n + 1 \in 1..M /\ n \in 0..n /\ 0 \in 0..n
        /\ \A i \in 0..(n + 1) : i = n + 1 \/ i \in 0..n
        /\ \A i \in 1..(n + 1) : i - 1 \in 0..n /\ i - 1 \in 0..(n + 1) /\ i - 1 # n + 1
        /\ 0 \in 0..(n + 1) /\ 0 # n + 1
    OBVIOUS
  <2>3. F[n + 1][f[n]] \in D
    BY <2>1, <2>2
  <2>4. g \in [0..(n + 1) -> D] /\ g[0] = x0
    BY <2>1, <2>2, <2>3
  <2>5. ASSUME NEW i \in 1..(n + 1) PROVE g[i] = F[i][g[i - 1]]
    <3>1. g[i - 1] = f[i - 1] /\ i \in 0..(n + 1)
      BY <2>2
    <3>2. CASE i = n + 1
      <4>1. i - 1 = n
        BY <3>2
      <4> QED
        BY <3>1, <3>2, <4>1
    <3>3. CASE i # n + 1
      <4>1. i \in 1..n
        BY <3>3
      <4>2. g[i] = f[i]
        BY <3>1, <3>3
      <4> QED
        BY <2>1, <3>1, <4>1, <4>2
    <3> QED
      BY <3>2, <3>3
  <2> QED
    BY <2>4, <2>5
<1>3. M \in S
  <2> HIDE DEF S
  <2>1. \A n \in Nat : n \in S => n + 1 \in S
    BY <1>2
  <2> QED
    BY <1>1, <2>1, SetInduction
<1>4. PICK f : Good(M, f)
  BY <1>3
<1>5. f = [i \in 0..M |-> IF i = 0 THEN x0 ELSE F[i][f[i - 1]]]
  <2>1. \A i \in 0..M : i = 0 \/ i \in 1..M
    OBVIOUS
  <2>2. \A i \in 0..M : f[i] = IF i = 0 THEN x0 ELSE F[i][f[i - 1]]
    BY <1>4, <2>1
  <2>3. f = [i \in 0..M |-> f[i]]
    BY <1>4
  <2> QED
    BY <2>2, <2>3
<1> QED
  BY <1>5 DEF Iterates

-----------------------------------------------------------------------------
\* Columns whose contents, lengths and addresses make sense; lists of values.
Stores == {s \in [data : Seq(Values), len : Nat] : s.len <= Len(s.data)}
Logs == [Columns -> Stores]
Addresses == [Columns -> Nat]
Items == [col : Columns, val : Cells]
Lists == Seq(Items)

\* What counts in l is in m.
Extended(l, m) ==
  \A c \in Columns :
    /\ l[c].len <= m[c].len
    /\ \A p \in 1..l[c].len : m[c].data[p] = l[c].data[p]

\* The values of a list are cells of columns.
LEMMA ItemsOfList ==
  ASSUME NEW list \in Lists
  PROVE  /\ Len(list) \in Nat
         /\ \A i \in 1..Len(list) : list[i].col \in Columns /\ list[i].val \in Cells
<1>1. Len(list) \in Nat /\ \A i \in 1..Len(list) : list[i] \in Items
  BY DEF Lists
<1> QED
  BY <1>1 DEF Items

\* A value is written after what counts, and what counts stays.
LEMMA WrittenStore ==
  ASSUME NEW s \in Stores, NEW x \in Values
  PROVE  LET w == Written(s, x)
         IN /\ w \in Stores /\ w.len = s.len + 1 /\ w.data[s.len + 1] = x
            /\ \A p \in 1..s.len : w.data[p] = s.data[p]
<1> DEFINE d == s.data
           n == s.len
           w == Written(s, x)
<1>1. d \in Seq(Values) /\ n \in Nat /\ Len(d) \in Nat /\ n <= Len(d)
  BY DEF Stores
<1>2. /\ w = [data |-> w.data, len |-> n + 1] /\ w.len = n + 1
      /\ w.data = IF n < Len(d) THEN [d EXCEPT ![n + 1] = x] ELSE Append(d, x)
  BY DEF Written
<1> HIDE DEF d, n, w
<1>3. CASE n < Len(d)
  <2>1. n + 1 \in 1..Len(d)
    BY <1>1, <1>3
  <2>2. w.data = [d EXCEPT ![n + 1] = x]
    BY <1>2, <1>3
  <2>3. w.data \in Seq(Values) /\ Len(w.data) = Len(d)
    BY <1>1, <2>1, <2>2, ExceptSeq
  <2>4. w.data[n + 1] = x /\ \A p \in 1..n : w.data[p] = d[p]
    BY <1>1, <1>3, <2>1, <2>2
  <2>5. w \in Stores
    BY <1>1, <1>2, <2>1, <2>3 DEF Stores
  <2> QED
    BY <1>2, <2>4, <2>5 DEF d, n, w
<1>4. CASE ~(n < Len(d))
  <2>1. n = Len(d) /\ w.data = Append(d, x)
    BY <1>1, <1>2, <1>4
  <2>2. w.data \in Seq(Values) /\ Len(w.data) = n + 1
    BY <1>1, <2>1
  <2>3. w.data[n + 1] = x /\ \A p \in 1..n : w.data[p] = d[p]
    BY <1>1, <2>1
  <2>4. w \in Stores
    BY <1>1, <1>2, <2>2 DEF Stores
  <2> QED
    BY <1>2, <2>3, <2>4 DEF d, n, w
<1> QED
  BY <1>3, <1>4

\* What counts stays over several writes.
LEMMA ExtendedTrans ==
  ASSUME NEW l \in Logs, NEW m \in Logs, NEW k \in Logs, Extended(l, m), Extended(m, k)
  PROVE  Extended(l, k)
<1> SUFFICES ASSUME NEW c \in Columns
             PROVE  /\ l[c].len <= k[c].len
                    /\ \A p \in 1..l[c].len : k[c].data[p] = l[c].data[p]
  BY DEF Extended
<1>1. l[c].len \in Nat /\ m[c].len \in Nat /\ k[c].len \in Nat
  BY DEF Logs, Stores
<1>2. /\ l[c].len <= m[c].len /\ m[c].len <= k[c].len
      /\ \A p \in 1..l[c].len : m[c].data[p] = l[c].data[p]
      /\ \A p \in 1..m[c].len : k[c].data[p] = m[c].data[p]
  BY DEF Extended
<1> QED
  BY <1>1, <1>2

\* One value of a row: NULL leaves the columns alone and has address 0.
LEMMA ValueWritten ==
  ASSUME NEW l \in Logs, NEW c \in Columns, NEW x \in Cells
  PROVE  LET m == WriteValue(l, c, x)
             n == NewAddress(l, c, x)
         IN /\ m \in Logs /\ Extended(l, m) /\ n \in Nat
            /\ x = Null => n = 0
            /\ x # Null => n = l[c].len + 1 /\ m[c].len = n /\ m[c].data[n] = x
<1>1. l[c] \in Stores /\ l[c].len \in Nat /\ \A b \in Columns : l[b].len \in Nat
  BY DEF Logs, Stores
<1>2. CASE x = Null
  BY <1>1, <1>2 DEF WriteValue, NewAddress, Extended
<1>3. CASE x # Null
  <2>1. x \in Values
    BY <1>3 DEF Cells
  <2> DEFINE m == WriteValue(l, c, x)
             w == Written(l[c], x)
  <2>2. m = [l EXCEPT ![c] = w] /\ NewAddress(l, c, x) = l[c].len + 1
    BY <1>3 DEF WriteValue, NewAddress
  <2>3. /\ w \in Stores /\ w.len = l[c].len + 1 /\ w.data[l[c].len + 1] = x
        /\ \A p \in 1..l[c].len : w.data[p] = l[c].data[p]
    BY <1>1, <2>1, WrittenStore
  <2> HIDE DEF m, w
  <2>4. m \in Logs /\ m[c] = w /\ \A b \in Columns : b # c => m[b] = l[b]
    BY <2>2, <2>3 DEF Logs
  <2>5. Extended(l, m)
    BY <1>1, <2>3, <2>4 DEF Extended
  <2> QED
    BY <1>1, <1>3, <2>2, <2>3, <2>4, <2>5 DEF m
<1> QED
  BY <1>2, <1>3

\* The recursion in WritesOf.
LEMMA WritesRecursion ==
  ASSUME log \in Logs, NEW list \in Lists
  PROVE  WritesOf(list) =
           [i \in 0..Len(list) |->
              IF i = 0 THEN log
              ELSE WriteValue(WritesOf(list)[i - 1], list[i].col, list[i].val)]
<1> DEFINE M == Len(list)
           F == [i \in 1..M |-> [d \in Logs |-> WriteValue(d, list[i].col, list[i].val)]]
           Rec(f) == [i \in 0..M |->
                        IF i = 0 THEN log ELSE WriteValue(f[i - 1], list[i].col, list[i].val)]
<1>1. M \in Nat /\ \A i \in 1..M : list[i].col \in Columns /\ list[i].val \in Cells
  BY ItemsOfList
<1>2. F \in [1..M -> [Logs -> Logs]]
  BY <1>1, ValueWritten
<1>3. PICK f : f = [i \in 0..M |-> IF i = 0 THEN log ELSE F[i][f[i - 1]]]
  <2>1. M \in Nat
    BY <1>1
  <2> HIDE DEF F, M
  <2>2. \E f : Iterates(f, M, log, F)
    BY <1>2, <2>1, RecursionExists, Zenon
  <2> QED
    BY <2>2 DEF Iterates
<1>4. \A n \in Nat : n \in {k \in Nat : k <= M => f[k] \in Logs}
  <2> DEFINE S == {k \in Nat : k <= M => f[k] \in Logs}
  <2>1. 0 \in S
    BY <1>1, <1>3
  <2>2. ASSUME NEW n \in Nat, n \in S PROVE n + 1 \in S
    <3> SUFFICES ASSUME n + 1 <= M PROVE f[n + 1] \in Logs
      OBVIOUS
    <3>1. n + 1 \in 0..M /\ n + 1 \in 1..M /\ n + 1 # 0 /\ (n + 1) - 1 = n /\ n <= M
      BY <1>1
    <3>2. f[n] \in Logs
      BY <2>2, <3>1
    <3>3. f[n + 1] = F[n + 1][f[n]]
      <4> HIDE DEF F
      <4> QED
        BY <1>3, <3>1
    <3> HIDE DEF F
    <3> QED
      BY <1>2, <3>1, <3>2, <3>3
  <2> HIDE DEF S
  <2>3. \A n \in Nat : n \in S
    BY <2>1, <2>2, SetInduction
  <2> QED
    BY <2>3 DEF S
<1>5. f = Rec(f)
  <2>1. ASSUME NEW i \in 0..M, i # 0
        PROVE  F[i][f[i - 1]] = WriteValue(f[i - 1], list[i].col, list[i].val)
    <3>1. i \in 1..M /\ i - 1 \in Nat /\ i - 1 <= M
      BY <1>1, <2>1
    <3>2. f[i - 1] \in Logs
      BY <1>4, <3>1
    <3> QED
      BY <3>1, <3>2
  <2> HIDE DEF F
  <2> QED
    BY <1>3, <2>1
<1>6. WritesOf(list) = CHOOSE g : g = Rec(g)
  BY DEF WritesOf
<1> HIDE DEF Rec
<1>7. WritesOf(list) = Rec(WritesOf(list))
  BY <1>5, <1>6, Zenon
<1> QED
  BY <1>7 DEF Rec

\* WritesOf, step by step.
LEMMA WritesStep ==
  ASSUME log \in Logs, NEW list \in Lists
  PROVE  /\ WritesOf(list)[0] = log
         /\ \A i \in 0..Len(list) : WritesOf(list)[i] \in Logs
         /\ \A i \in 1..Len(list) :
              WritesOf(list)[i] = WriteValue(WritesOf(list)[i - 1], list[i].col, list[i].val)
<1> DEFINE M == Len(list)
           w == WritesOf(list)
           S == {k \in Nat : k <= M => w[k] \in Logs}
<1>1. M \in Nat /\ \A i \in 1..M : list[i].col \in Columns /\ list[i].val \in Cells
  BY ItemsOfList
<1>2. w = [i \in 0..M |-> IF i = 0 THEN log ELSE WriteValue(w[i - 1], list[i].col, list[i].val)]
  BY WritesRecursion
<1> HIDE DEF w, M
<1>3. w[0] = log
  BY <1>1, <1>2
<1>4. \A i \in 1..M : w[i] = WriteValue(w[i - 1], list[i].col, list[i].val)
  BY <1>1, <1>2
<1>5. 0 \in S
  BY <1>3
<1>6. ASSUME NEW n \in Nat, n \in S PROVE n + 1 \in S
  <2> SUFFICES ASSUME n + 1 <= M PROVE w[n + 1] \in Logs
    OBVIOUS
  <2>1. n + 1 \in 1..M /\ (n + 1) - 1 = n /\ n <= M
    BY <1>1
  <2>2. w[n] \in Logs /\ w[n + 1] = WriteValue(w[n], list[n + 1].col, list[n + 1].val)
    BY <1>4, <1>6, <2>1
  <2>3. list[n + 1].col \in Columns /\ list[n + 1].val \in Cells
    BY <1>1, <2>1
  <2> QED
    BY <2>2, <2>3, ValueWritten
<1>7. \A n \in Nat : n \in S
  <2> HIDE DEF S
  <2> QED
    BY <1>5, <1>6, SetInduction
<1>8. \A i \in 0..M : w[i] \in Logs
  BY <1>1, <1>7
<1> QED
  BY <1>3, <1>4, <1>8 DEF w, M

\* The recursion in AddressesOf.
LEMMA AddressesStep ==
  ASSUME log \in Logs, NEW list \in Lists, NEW old \in Addresses
  PROVE  LET w == WritesOf(list)
             a == AddressesOf(list, old)
         IN /\ a[0] = old
            /\ \A i \in 0..Len(list) : a[i] \in Addresses
            /\ \A i \in 1..Len(list) :
                 a[i] = [a[i - 1] EXCEPT ![list[i].col] =
                           NewAddress(w[i - 1], list[i].col, list[i].val)]
<1> DEFINE M == Len(list)
           w == WritesOf(list)
           New(i) == NewAddress(w[i - 1], list[i].col, list[i].val)
           F == [i \in 1..M |-> [d \in Addresses |-> [d EXCEPT ![list[i].col] = New(i)]]]
           Rec(f) == [i \in 0..M |->
                        IF i = 0 THEN old ELSE [f[i - 1] EXCEPT ![list[i].col] = New(i)]]
<1>1. M \in Nat /\ \A i \in 1..M : list[i].col \in Columns /\ list[i].val \in Cells
  BY ItemsOfList
<1>2. ASSUME NEW i \in 1..M PROVE New(i) \in Nat
  <2>1. i - 1 \in 0..M
    BY <1>1
  <2>2. w[i - 1] \in Logs
    BY <2>1, WritesStep
  <2> QED
    BY <1>1, <2>2, ValueWritten
<1>3. AddressesOf(list, old) = CHOOSE g : g = Rec(g)
  BY DEF AddressesOf
<1> HIDE DEF New
<1>4. F \in [1..M -> [Addresses -> Addresses]]
  BY <1>1, <1>2 DEF Addresses
<1>5. PICK f : f = [i \in 0..M |-> IF i = 0 THEN old ELSE F[i][f[i - 1]]]
  <2>1. M \in Nat
    BY <1>1
  <2> HIDE DEF F, M
  <2>2. \E f : Iterates(f, M, old, F)
    BY <1>4, <2>1, RecursionExists, Zenon
  <2> QED
    BY <2>2 DEF Iterates
<1>6. \A n \in Nat : n \in {k \in Nat : k <= M => f[k] \in Addresses}
  <2> DEFINE S == {k \in Nat : k <= M => f[k] \in Addresses}
  <2>1. 0 \in S
    BY <1>1, <1>5
  <2>2. ASSUME NEW n \in Nat, n \in S PROVE n + 1 \in S
    <3> SUFFICES ASSUME n + 1 <= M PROVE f[n + 1] \in Addresses
      OBVIOUS
    <3>1. n + 1 \in 0..M /\ n + 1 \in 1..M /\ n + 1 # 0 /\ (n + 1) - 1 = n /\ n <= M
      BY <1>1
    <3>2. f[n] \in Addresses
      BY <2>2, <3>1
    <3> HIDE DEF F
    <3>3. f[n + 1] = F[n + 1][f[n]]
      BY <1>5, <3>1
    <3> QED
      BY <1>4, <3>1, <3>2, <3>3
  <2> HIDE DEF S
  <2>3. \A n \in Nat : n \in S
    BY <2>1, <2>2, SetInduction
  <2> QED
    BY <2>3 DEF S
<1>7. f = Rec(f)
  <2>1. ASSUME NEW i \in 0..M, i # 0
        PROVE  F[i][f[i - 1]] = [f[i - 1] EXCEPT ![list[i].col] = New(i)]
    <3>1. i \in 1..M /\ i - 1 \in Nat /\ i - 1 <= M
      BY <1>1, <2>1
    <3>2. f[i - 1] \in Addresses
      BY <1>6, <3>1
    <3> QED
      BY <3>1, <3>2
  <2> HIDE DEF F
  <2> QED
    BY <1>5, <2>1
<1> DEFINE a == AddressesOf(list, old)
<1>8. a = Rec(a)
  <2> HIDE DEF Rec
  <2> QED
    BY <1>3, <1>7, Zenon
<1> HIDE DEF a
<1>9. a[0] = old /\ \A i \in 1..M : a[i] = [a[i - 1] EXCEPT ![list[i].col] = New(i)]
  <2>1. a = [i \in 0..M |-> IF i = 0 THEN old ELSE [a[i - 1] EXCEPT ![list[i].col] = New(i)]]
    BY <1>8
  <2> HIDE DEF M
  <2>2. 0 \in 0..M /\ \A i \in 1..M : i \in 0..M /\ i # 0
    BY <1>1
  <2>3. a[0] = old
    BY <2>1, <2>2
  <2>4. ASSUME NEW i \in 1..M PROVE a[i] = [a[i - 1] EXCEPT ![list[i].col] = New(i)]
    BY <2>1, <2>2
  <2> QED
    BY <2>3, <2>4
<1>10. \A n \in Nat : n \in {k \in Nat : k <= M => a[k] \in Addresses}
  <2> DEFINE S == {k \in Nat : k <= M => a[k] \in Addresses}
  <2>1. 0 \in S
    BY <1>9
  <2>2. ASSUME NEW n \in Nat, n \in S PROVE n + 1 \in S
    <3> SUFFICES ASSUME n + 1 <= M PROVE a[n + 1] \in Addresses
      OBVIOUS
    <3>1. n + 1 \in 1..M /\ (n + 1) - 1 = n /\ n <= M
      BY <1>1
    <3>2. a[n] \in Addresses /\ a[n + 1] = [a[n] EXCEPT ![list[n + 1].col] = New(n + 1)]
      BY <1>9, <2>2, <3>1
    <3>3. list[n + 1].col \in Columns /\ New(n + 1) \in Nat
      BY <1>1, <1>2, <3>1
    <3> QED
      BY <3>2, <3>3 DEF Addresses
  <2> HIDE DEF S
  <2>3. \A n \in Nat : n \in S
    BY <2>1, <2>2, SetInduction
  <2> QED
    BY <2>3 DEF S
<1>11. \A i \in 0..M : a[i] \in Addresses
  BY <1>1, <1>10
<1> QED
  BY <1>9, <1>11 DEF a, New

\* After i values have been written: the address a[c] is the old one, or that of the
\* last of the values for column c, in a place that was free before.
Kept(list, i, a, old, c) == a[c] = old[c] /\ \A j \in 1..i : list[j].col # c

Placed(list, i, l, a, c) ==
  \E j \in 1..i :
    /\ list[j].col = c
    /\ \A k \in 1..i : k > j => list[k].col # c
    /\ list[j].val = Null => a[c] = 0
    /\ list[j].val # Null => /\ a[c] \in (log[c].len + 1)..l[c].len
                             /\ l[c].data[a[c]] = list[j].val

\* The addresses of a row after i of its values have been written.
LEMMA AfterWrites ==
  ASSUME log \in Logs, NEW list \in Lists, NEW old \in Addresses
  PROVE  LET w == WritesOf(list)
             a == AddressesOf(list, old)
         IN \A i \in 0..Len(list) :
              /\ Extended(log, w[i])
              /\ \A c \in Columns : Kept(list, i, a[i], old, c) \/ Placed(list, i, w[i], a[i], c)
<1> DEFINE M == Len(list)
           w == WritesOf(list)
           a == AddressesOf(list, old)
           P(i) == /\ Extended(log, w[i])
                   /\ \A c \in Columns :
                        Kept(list, i, a[i], old, c) \/ Placed(list, i, w[i], a[i], c)
           S == {i \in Nat : i <= M => P(i)}
<1>1. M \in Nat /\ \A i \in 1..M : list[i].col \in Columns /\ list[i].val \in Cells
  BY ItemsOfList
<1>2. /\ w[0] = log /\ a[0] = old
      /\ \A i \in 0..M : w[i] \in Logs /\ a[i] \in Addresses
      /\ \A i \in 1..M : w[i] = WriteValue(w[i - 1], list[i].col, list[i].val)
      /\ \A i \in 1..M : a[i] = [a[i - 1] EXCEPT ![list[i].col] =
                                   NewAddress(w[i - 1], list[i].col, list[i].val)]
  BY WritesStep, AddressesStep
<1> HIDE DEF w, a, M
<1>3. 0 \in S
  <2>1. \A c \in Columns : log[c].len \in Nat
    BY DEF Logs, Stores
  <2>2. Extended(log, log)
    BY <2>1 DEF Extended
  <2>3. \A c \in Columns : Kept(list, 0, old, old, c)
    BY DEF Kept
  <2> QED
    BY <1>2, <2>2, <2>3
<1>4. ASSUME NEW n \in Nat, n \in S PROVE n + 1 \in S
  <2> SUFFICES ASSUME n + 1 <= M PROVE P(n + 1)
    OBVIOUS
  <2>0. n + 1 \in 1..M /\ n + 1 \in 0..M /\ n \in 0..M /\ (n + 1) - 1 = n /\ n <= M
    BY <1>1
  <2>1. P(n)
    BY <1>4, <2>0
  <2> DEFINE b == list[n + 1].col
             x == list[n + 1].val
             l == w[n]
             m == w[n + 1]
             y == NewAddress(l, b, x)
  <2>2. /\ l \in Logs /\ m \in Logs /\ b \in Columns /\ x \in Cells /\ m = WriteValue(l, b, x)
        /\ a[n] \in Addresses /\ a[n + 1] = [a[n] EXCEPT ![b] = y]
    BY <1>1, <1>2, <2>0
  <2> HIDE DEF l, m, b, x, y
  <2>3. /\ Extended(l, m)
        /\ x = Null => y = 0
        /\ x # Null => y = l[b].len + 1 /\ m[b].len = y /\ m[b].data[y] = x
    BY <2>2, ValueWritten DEF y
  <2>4. Extended(log, l)
    BY <2>1 DEF l
  <2>5. Extended(log, m)
    BY <2>2, <2>3, <2>4, ExtendedTrans
  <2>6. ASSUME NEW c \in Columns
        PROVE  Kept(list, n + 1, a[n + 1], old, c) \/ Placed(list, n + 1, m, a[n + 1], c)
    <3>0. log[c].len \in Nat /\ l[c].len \in Nat /\ m[c].len \in Nat /\ log[c].len <= l[c].len
      BY <2>2, <2>4 DEF Logs, Stores, Extended
    <3>1. CASE c = b
      <4>1. a[n + 1][c] = y
        BY <2>2, <3>1 DEF Addresses
      <4>2. x # Null => y \in (log[c].len + 1)..m[c].len /\ m[c].data[y] = x
        BY <2>3, <3>0, <3>1
      <4>3. \A k \in 1..(n + 1) : ~(k > n + 1)
        OBVIOUS
      <4>4. n + 1 \in 1..(n + 1)
        OBVIOUS
      <4>5. Placed(list, n + 1, m, a[n + 1], c)
        BY <2>3, <3>1, <4>1, <4>2, <4>3, <4>4 DEF Placed, b, x
      <4> QED
        BY <4>5
    <3>2. CASE c # b
      <4>1. a[n + 1][c] = a[n][c]
        BY <2>2, <3>2 DEF Addresses
      <4>2. list[n + 1].col # c
        BY <3>2 DEF b
      <4>3. CASE Kept(list, n, a[n], old, c)
        <5>1. \A j \in 1..(n + 1) : j \in 1..n \/ j = n + 1
          OBVIOUS
        <5> QED
          BY <4>1, <4>2, <4>3, <5>1 DEF Kept
      <4>4. CASE Placed(list, n, l, a[n], c)
        <5>1. PICK j \in 1..n :
                /\ list[j].col = c
                /\ \A k \in 1..n : k > j => list[k].col # c
                /\ list[j].val = Null => a[n][c] = 0
                /\ list[j].val # Null => /\ a[n][c] \in (log[c].len + 1)..l[c].len
                                         /\ l[c].data[a[n][c]] = list[j].val
          BY <4>4 DEF Placed
        <5>2. j \in 1..(n + 1) /\ \A k \in 1..(n + 1) : k \in 1..n \/ k = n + 1
          OBVIOUS
        <5>3. /\ l[c].len <= m[c].len
              /\ \A p \in 1..l[c].len : m[c].data[p] = l[c].data[p]
          BY <2>3 DEF Extended
        <5>4. list[j].val # Null => /\ a[n][c] \in (log[c].len + 1)..m[c].len
                                    /\ m[c].data[a[n][c]] = list[j].val
          <6> SUFFICES ASSUME list[j].val # Null
                       PROVE  /\ a[n][c] \in (log[c].len + 1)..m[c].len
                              /\ m[c].data[a[n][c]] = list[j].val
            OBVIOUS
          <6>1. a[n][c] \in (log[c].len + 1)..l[c].len /\ l[c].data[a[n][c]] = list[j].val
            BY <5>1
          <6>2. a[n][c] \in 1..l[c].len /\ a[n][c] \in (log[c].len + 1)..m[c].len
            BY <3>0, <5>3, <6>1
          <6> QED
            BY <5>3, <6>1, <6>2
        <5>5. \A k \in 1..(n + 1) : k > j => list[k].col # c
          BY <4>2, <5>1, <5>2
        <5> QED
          BY <4>1, <5>1, <5>2, <5>4, <5>5 DEF Placed
      <4> QED
        BY <2>1, <4>3, <4>4 DEF l
    <3> QED
      BY <3>1, <3>2
  <2> QED
    BY <2>5, <2>6 DEF m
<1>5. \A n \in Nat : n \in S
  <2> HIDE DEF S
  <2> QED
    BY <1>3, <1>4, SetInduction
<1>6. \A i \in 0..M : P(i)
  <2>1. \A i \in 0..M : i \in Nat /\ i <= M
    BY <1>1
  <2> HIDE DEF P
  <2> QED
    BY <1>5, <2>1
<1> QED
  BY <1>6 DEF w, a, M

-----------------------------------------------------------------------------
\* Rolling back values to places that were free keeps what there was.
LEMMA BackToFree ==
  ASSUME log \in Logs, NEW l \in Logs, Extended(log, l), NEW K, NEW a,
         \A c \in Columns : c \in K => a[c] \in (log[c].len + 1)..l[c].len
  PROVE  LET m == [c \in Columns |-> IF c \in K THEN RolledBack(l[c], a[c]) ELSE l[c]]
         IN m \in Logs /\ Extended(log, m)
<1> DEFINE m == [c \in Columns |-> IF c \in K THEN RolledBack(l[c], a[c]) ELSE l[c]]
<1>1. ASSUME NEW c \in Columns
      PROVE  /\ m[c] \in Stores /\ log[c].len <= m[c].len
             /\ \A p \in 1..log[c].len : m[c].data[p] = log[c].data[p]
  <2>1. /\ l[c] \in [data : Seq(Values), len : Nat] /\ l[c].len <= Len(l[c].data)
        /\ l[c].len \in Nat /\ Len(l[c].data) \in Nat /\ log[c].len \in Nat
    BY DEF Logs, Stores
  <2>2. /\ log[c].len <= l[c].len
        /\ \A p \in 1..log[c].len : l[c].data[p] = log[c].data[p]
    BY DEF Extended
  <2>3. CASE c \in K
    <3>1. m[c] = [l[c] EXCEPT !.len = a[c] - 1]
      BY <2>3 DEF RolledBack
    <3>2. a[c] \in (log[c].len + 1)..l[c].len
      BY <2>3
    <3>3. /\ a[c] - 1 \in Nat /\ log[c].len <= a[c] - 1 /\ a[c] - 1 <= Len(l[c].data)
      BY <2>1, <3>2
    <3> HIDE DEF m
    <3>4. /\ m[c] \in [data : Seq(Values), len : Nat] /\ m[c].len = a[c] - 1
          /\ m[c].data = l[c].data
      BY <2>1, <3>1, <3>3
    <3> QED
      BY <2>2, <3>3, <3>4 DEF Stores
  <2>4. CASE c \notin K
    <3>1. m[c] = l[c]
      BY <2>4
    <3> HIDE DEF m
    <3> QED
      BY <2>2, <3>1 DEF Logs
  <2> QED
    BY <2>3, <2>4
<1>2. m \in Logs
  BY <1>1 DEF Logs
<1> HIDE DEF m
<1>3. Extended(log, m)
  BY <1>1 DEF Extended
<1> QED
  BY <1>2, <1>3 DEF m

\* An address of a value that was just written and is not NULL.
LEMMA PlacedFree ==
  ASSUME NEW list, NEW i \in Nat, NEW l, NEW a, NEW c, Placed(list, i, l, a, c), a[c] # 0
  PROVE  a[c] \in (log[c].len + 1)..l[c].len
BY DEF Placed

\* Whatever is rolled back after a failed write, what counted before still counts.
LEMMA RollbacksExtend ==
  ASSUME log \in Logs, NEW list \in Lists, NEW old \in Addresses, NEW i \in 1..Len(list),
         NEW m \in RollbacksOf(list, i, old)
  PROVE  m \in Logs /\ Extended(log, m)
<1>0. /\ Len(list) \in Nat /\ list[i].col \in Columns /\ list[i].val \in Cells
      /\ i - 1 \in 0..Len(list) /\ i - 1 \in Nat
  BY ItemsOfList
<1> DEFINE l == WritesOf(list)[i - 1]
           a == AddressesOf(list, old)[i - 1]
           cols == {list[j].col : j \in 1..(i - 1)}
<1>1. l \in Logs
  BY <1>0, WritesStep
<1>2. /\ Extended(log, l)
      /\ \A c \in Columns : Kept(list, i - 1, a, old, c) \/ Placed(list, i - 1, l, a, c)
  BY <1>0, AfterWrites
<1>3. \/ m = WriteValue(l, list[i].col, list[i].val)
      \/ \E kept : m = [c \in Columns |-> IF c \in cols \ kept /\ a[c] # 0
                                          THEN RolledBack(l[c], a[c]) ELSE l[c]]
  BY DEF RollbacksOf
<1>4. CASE m = WriteValue(l, list[i].col, list[i].val)
  <2> HIDE DEF l
  <2>1. m \in Logs /\ Extended(l, m)
    BY <1>0, <1>1, <1>4, ValueWritten
  <2> QED
    BY <1>1, <1>2, <2>1, ExtendedTrans
<1>5. ASSUME NEW kept,
             m = [c \in Columns |-> IF c \in cols \ kept /\ a[c] # 0
                                    THEN RolledBack(l[c], a[c]) ELSE l[c]]
      PROVE  m \in Logs /\ Extended(log, m)
  <2> DEFINE K == {c \in cols \ kept : a[c] # 0}
  <2>1. ASSUME NEW c \in Columns, c \in K
        PROVE  a[c] \in (log[c].len + 1)..l[c].len
    <3>1. ~Kept(list, i - 1, a, old, c)
      BY <2>1 DEF Kept
    <3>2. Placed(list, i - 1, l, a, c)
      BY <1>2, <3>1
    <3>3. a[c] # 0
      BY <2>1
    <3> HIDE DEF l, a, K
    <3> QED
      BY <1>0, <3>2, <3>3, PlacedFree
  <2>2. m = [c \in Columns |-> IF c \in K THEN RolledBack(l[c], a[c]) ELSE l[c]]
    BY <1>5
  <2> HIDE DEF l, a, K
  <2> QED
    BY <1>1, <1>2, <2>1, <2>2, BackToFree
<1> HIDE DEF l, a, cols
<1> QED
  BY <1>3, <1>4, <1>5

\* A write that fails is one of the list.
LEMMA FailurePlaces ==
  ASSUME NEW list \in Lists
  PROVE  FailurePoints(list) \ {0} \subseteq 1..Len(list)
<1> DEFINE T == {i \in 1..Len(list) : list[i].val = Null /\ list[i].col \in NotNull}
<1>1. Len(list) \in Nat
  BY ItemsOfList
<1>2. FailurePoints(list) = IF T = {} THEN 0..Len(list) ELSE 1..Min(T)
  BY DEF FailurePoints
<1>3. CASE T = {}
  BY <1>1, <1>2, <1>3
<1>4. CASE T # {}
  <2>1. T \subseteq Nat /\ T \subseteq 1..Len(list)
    BY <1>1
  <2> HIDE DEF T
  <2>2. Min(T) \in T
    BY <1>4, <2>1, LeastNat DEF Min
  <2>3. Min(T) \in 1..Len(list)
    BY <2>1, <2>2
  <2> QED
    BY <1>1, <1>2, <1>4, <2>3
<1> QED
  BY <1>3, <1>4

\* The last of the values for a column is the one that is applied.
LEMMA AppliedValue ==
  ASSUME NEW list \in Lists, NEW row \in Rows, NEW c \in Columns
  PROVE  /\ Applied(row, list) \in Rows
         /\ (\A j \in 1..Len(list) : list[j].col # c) => Applied(row, list)[c] = row[c]
         /\ \A j \in 1..Len(list) :
              /\ list[j].col = c
              /\ \A k \in 1..Len(list) : k > j => list[k].col # c
              => Applied(row, list)[c] = list[j].val
<1>0. /\ Len(list) \in Nat
      /\ \A i \in 1..Len(list) : list[i].col \in Columns /\ list[i].val \in Cells
  BY ItemsOfList
<1> DEFINE On(b) == {i \in 1..Len(list) : list[i].col = b}
<1>1. Applied(row, list) =
        [b \in Columns |-> IF On(b) # {} THEN list[Max(On(b))].val ELSE row[b]]
  <2>1. \A b : (\E i \in 1..Len(list) : list[i].col = b) <=> On(b) # {}
    OBVIOUS
  <2> QED
    BY <2>1 DEF Applied
<1>2. ASSUME NEW b \in Columns, On(b) # {}
      PROVE  Max(On(b)) \in On(b) /\ \A k \in On(b) : Max(On(b)) >= k
  <2> DEFINE T == On(b)
             U == {z \in Nat : Len(list) - z \in T}
  <2>1. T \subseteq 1..Len(list) /\ T # {}
    BY <1>2
  <2> HIDE DEF On, T
  <2>2. U \subseteq Nat /\ U # {}
    <3>1. PICK z \in T : TRUE
      BY <2>1
    <3>2. Len(list) - z \in Nat /\ Len(list) - (Len(list) - z) = z
      BY <1>0, <2>1, <3>1
    <3>3. Len(list) - z \in U
      BY <3>1, <3>2
    <3> QED
      BY <3>3
  <2>3. PICK x \in U : \A y \in U : x <= y
    <3> HIDE DEF U
    <3> QED
      BY <2>2, LeastNat
  <2>4. Len(list) - x \in T
    BY <2>3
  <2>5. ASSUME NEW k \in T PROVE Len(list) - x >= k
    <3>1. Len(list) - k \in Nat /\ Len(list) - (Len(list) - k) = k
      BY <1>0, <2>1
    <3>2. Len(list) - k \in U
      BY <3>1
    <3>x. x <= Len(list) - k /\ x \in Nat
      BY <2>3, <3>2, Zenon
    <3>k. k \in Nat
      BY <1>0, <2>1
    <3>3. x <= Len(list) - k /\ x \in Nat /\ k \in Nat
      BY <3>x, <3>k
    <3> QED
      BY <1>0, <3>3
  <2>6. Max(T) \in T /\ \A k \in T : Max(T) >= k
    BY <2>4, <2>5 DEF Max
  <2> QED
    BY <2>6 DEF T
<1>3. Applied(row, list) \in Rows
  <2>1. ASSUME NEW b \in Columns
        PROVE  (IF On(b) # {} THEN list[Max(On(b))].val ELSE row[b]) \in Cells
    <3>1. CASE On(b) # {}
      <4>1. Max(On(b)) \in 1..Len(list)
        <5>1. On(b) \subseteq 1..Len(list)
          OBVIOUS
        <5> HIDE DEF On
        <5> QED
          BY <1>2, <3>1, <5>1
      <4> HIDE DEF On
      <4> QED
        BY <1>0, <3>1, <4>1
    <3>2. CASE On(b) = {}
      <4> HIDE DEF On
      <4> QED
        BY <3>2 DEF Rows
    <3> QED
      BY <3>1, <3>2
  <2> HIDE DEF On
  <2> QED
    BY <1>1, <2>1 DEF Rows
<1>4. (\A j \in 1..Len(list) : list[j].col # c) => Applied(row, list)[c] = row[c]
  BY <1>1
<1>5. ASSUME NEW j \in 1..Len(list), list[j].col = c,
             \A k \in 1..Len(list) : k > j => list[k].col # c
      PROVE  Applied(row, list)[c] = list[j].val
  <2>1. j \in On(c) /\ \A k \in On(c) : ~(k > j) /\ k \in 1..Len(list)
    BY <1>5
  <2> HIDE DEF On
  <2>2. Max(On(c)) \in On(c) /\ Max(On(c)) >= j
    BY <1>2, <2>1
  <2>3. Max(On(c)) = j
    <3>1. PICK m : m = Max(On(c))
      OBVIOUS
    <3>2. m \in 1..Len(list) /\ ~(m > j) /\ m >= j
      BY <2>1, <2>2, <3>1, Zenon
    <3>3. m = j
      BY <1>0, <3>2
    <3> QED
      BY <3>1, <3>3
  <2> QED
    BY <1>1, <2>1, <2>3
<1> QED
  BY <1>3, <1>4, <1>5

\* What the addresses of a row lead to after an update, as Table::updateRow combines
\* the new addresses with those of the old record.
LEMMA RowAfterWrites ==
  ASSUME log \in Logs, NEW list \in Lists, NEW old \in Addresses, NEW row \in Rows,
         \A c \in Columns : old[c] <= log[c].len /\ ValueAt(c, old[c]) = row[c]
  PROVE  LET l == WritesOf(list)[Len(list)]
             a == AddressesOf(list, old)[Len(list)]
         IN /\ l \in Logs /\ Extended(log, l) /\ a \in Addresses /\ Applied(row, list) \in Rows
            /\ \A c \in Columns :
                 /\ a[c] <= l[c].len
                 /\ (IF a[c] = 0 THEN Null ELSE l[c].data[a[c]]) = Applied(row, list)[c]
<1> DEFINE n == Len(list)
           l == WritesOf(list)[n]
           a == AddressesOf(list, old)[n]
<1>1. n \in Nat /\ n \in 0..n
  BY ItemsOfList
<1>2. l \in Logs /\ a \in Addresses
  BY <1>1, WritesStep, AddressesStep
<1>3. /\ Extended(log, l)
      /\ \A c \in Columns : Kept(list, n, a, old, c) \/ Placed(list, n, l, a, c)
  BY <1>1, AfterWrites
<1>4. Columns # {} /\ 1 \in Columns
  BY SizeAssumption DEF Columns
<1>5. Applied(row, list) \in Rows
  BY <1>4, AppliedValue
<1> HIDE DEF l, a
<1>6. ASSUME NEW c \in Columns
      PROVE  /\ a[c] <= l[c].len
             /\ (IF a[c] = 0 THEN Null ELSE l[c].data[a[c]]) = Applied(row, list)[c]
  <2>1. /\ log[c].len \in Nat /\ l[c].len \in Nat /\ a[c] \in Nat /\ log[c].len <= l[c].len
        /\ \A p \in 1..log[c].len : l[c].data[p] = log[c].data[p]
    BY <1>2, <1>3 DEF Logs, Stores, Addresses, Extended
  <2>2. CASE Kept(list, n, a, old, c)
    <3>1. a[c] = old[c] /\ Applied(row, list)[c] = row[c]
      BY <2>2, AppliedValue DEF Kept
    <3>2. old[c] <= log[c].len /\ row[c] = IF old[c] = 0 THEN Null ELSE log[c].data[old[c]]
      BY DEF ValueAt
    <3>3. a[c] # 0 => a[c] \in 1..log[c].len
      BY <2>1, <3>1, <3>2
    <3> QED
      BY <2>1, <3>1, <3>2, <3>3
  <2>3. CASE Placed(list, n, l, a, c)
    <3>1. PICK j \in 1..n :
            /\ list[j].col = c
            /\ \A k \in 1..n : k > j => list[k].col # c
            /\ list[j].val = Null => a[c] = 0
            /\ list[j].val # Null => /\ a[c] \in (log[c].len + 1)..l[c].len
                                     /\ l[c].data[a[c]] = list[j].val
      BY <2>3 DEF Placed
    <3>2. Applied(row, list)[c] = list[j].val
      BY <3>1, AppliedValue
    <3>3. CASE list[j].val = Null
      BY <2>1, <3>1, <3>2, <3>3
    <3>4. CASE list[j].val # Null
      BY <2>1, <3>1, <3>2, <3>4
    <3> QED
      BY <3>3, <3>4
  <2> QED
    BY <1>3, <2>2, <2>3
<1> QED
  BY <1>2, <1>3, <1>5, <1>6 DEF l, a

\* The row of an INSERT as a list of values.
LEMMA ListOfRow ==
  ASSUME NEW row \in Rows
  PROVE  /\ RowAsList(row) \in Lists /\ Len(RowAsList(row)) = NumColumns
         /\ \A c \in Columns : RowAsList(row)[c].col = c /\ RowAsList(row)[c].val = row[c]
         /\ \A any \in Rows : Applied(any, RowAsList(row)) = row
<1> DEFINE list == RowAsList(row)
<1>1. NumColumns \in Nat /\ Columns = 1..NumColumns
  BY SizeAssumption DEF Columns
<1>2. list = [c \in 1..NumColumns |-> [col |-> c, val |-> row[c]]]
  BY <1>1 DEF RowAsList
<1> HIDE DEF list
<1>3. \A c \in 1..NumColumns : list[c] = [col |-> c, val |-> row[c]] /\ list[c] \in Items
  BY <1>1, <1>2 DEF Items, Rows
<1>4. list \in Lists /\ Len(list) = NumColumns
  BY <1>1, <1>2, <1>3 DEF Lists
<1>5. ASSUME NEW c \in Columns PROVE list[c].col = c /\ list[c].val = row[c]
  <2>1. c \in 1..NumColumns
    BY <1>1
  <2>2. list[c] = [col |-> c, val |-> row[c]]
    BY <1>3, <2>1, Zenon
  <2> QED
    BY <2>2
<1>6. ASSUME NEW any \in Rows PROVE Applied(any, list) = row
  <2>1. \A c \in Columns : Applied(any, list)[c] = row[c]
    <3> SUFFICES ASSUME NEW c \in Columns PROVE Applied(any, list)[c] = row[c]
      OBVIOUS
    <3>1. c \in 1..Len(list) /\ list[c].col = c
      BY <1>1, <1>4, <1>5
    <3>2. \A k \in 1..Len(list) : k > c => list[k].col # c
      BY <1>1, <1>4, <1>5
    <3> QED
      BY <1>4, <1>5, <3>1, <3>2, AppliedValue
  <2>2. Applied(any, list) \in Rows /\ row \in Rows
    <3>1. 1 \in Columns
      BY SizeAssumption DEF Columns
    <3> QED
      BY <1>4, <3>1, AppliedValue
  <2> QED
    BY <2>1, <2>2 DEF Rows
<1> QED
  BY <1>4, <1>5, <1>6 DEF list

-----------------------------------------------------------------------------
\* A row that is not there, or one whose newest record counts and leads to its values
\* in parts of the columns that count.
RowHolds(t) ==
  \/ index[t] = 0 /\ want[t] = Absent
  \/ /\ index[t] \in 1..master.len
     /\ want[t] \in Rows
     /\ RecordOf(t).addr \in Addresses
     /\ \A c \in Columns : /\ RecordOf(t).addr[c] <= log[c].len
                           /\ ValueAt(c, RecordOf(t).addr[c]) = want[t][c]

\* The addresses in the records are those of one value for each column.
AddressesOK == \A p \in 1..Len(master.data) : master.data[p].addr \in Addresses

\* The columns lead to the values of every row without an exception of RowsIntact.
ColumnsHold ==
  /\ log \in Logs
  /\ AddressesOK
  /\ \A t \in Trids \ (torn \cup stale) : RowHolds(t)

\* Claimed until a rollback uses addresses that are not its own.
RowsInv ==
  /\ want \in [Trids -> Rows \cup {Absent}]
  /\ ~damaged => ColumnsHold

\* A record in the place after the last one leaves those that count.
LEMMA MasterKept ==
  ASSUME MasterOK, NEW x, master' = Written(master, x) \/ master' = Pending(master, x)
  PROVE  /\ \A p \in 1..master.len : p \in 1..master'.len /\ master'.data[p] = master.data[p]
         /\ master' = Written(master, x) =>
              /\ master'.len = master.len + 1 /\ master'.data[master.len + 1] = x
              /\ master.len + 1 \in 1..master'.len
<1> DEFINE d == Written(master, x).data
<1>1. /\ Len(d) \in Nat /\ master.len + 1 \in 1..Len(d) /\ d[master.len + 1] = x
      /\ \A p \in 1..Len(d) : p # master.len + 1 => d[p] = master.data[p]
  BY OneMoreRecord
<1>2. Written(master, x) = [data |-> d, len |-> master.len + 1]
  BY DEF Written
<1>3. Pending(master, x) = [data |-> d, len |-> master.len]
  BY <1>2 DEF Pending
<1>4. master.len \in Nat
  BY DEF MasterOK
<1> HIDE DEF d
<1>5. /\ master'.data = d /\ master'.len \in {master.len, master.len + 1}
      /\ master' = Written(master, x) => master'.len = master.len + 1
  BY <1>2, <1>3
<1>6. \A p \in 1..master.len : d[p] = master.data[p]
  BY <1>1, <1>4
<1> QED
  BY <1>1, <1>4, <1>5, <1>6

\* Every record has an address or NULL for each column.
LEMMA NewAddresses ==
  ASSUME MasterOK, AddressesOK, NEW x, x.addr \in Addresses,
         master' = Written(master, x) \/ master' = Pending(master, x)
  PROVE  AddressesOK'
<1> DEFINE d == Written(master, x).data
<1>1. /\ d[master.len + 1] = x
      /\ \A p \in 1..Len(d) : p # master.len + 1
           => p \in 1..Len(master.data) /\ d[p] = master.data[p]
  BY OneMoreRecord
<1>2. Written(master, x) = [data |-> d, len |-> master.len + 1]
  BY DEF Written
<1>3. Pending(master, x) = [data |-> d, len |-> master.len]
  BY <1>2 DEF Pending
<1> HIDE DEF d
<1>4. master'.data = d
  BY <1>2, <1>3
<1> QED
  BY <1>1, <1>4 DEF AddressesOK

\* A row that a step does not touch keeps its values when columns only grow.
LEMMA OtherRow ==
  ASSUME HistoryInv, NEW t \in Trids, RowHolds(t), log \in Logs, log' \in Logs,
         Extended(log, log'),
         \/ master' = master
         \/ \E x : master' = Written(master, x) \/ master' = Pending(master, x),
         index'[t] = index[t], want'[t] = want[t]
  PROVE  RowHolds(t)'
<1>1. CASE index[t] = 0 /\ want[t] = Absent
  BY <1>1 DEF RowHolds
<1>2. CASE /\ index[t] \in 1..master.len
           /\ want[t] \in Rows
           /\ RecordOf(t).addr \in Addresses
           /\ \A c \in Columns : /\ RecordOf(t).addr[c] <= log[c].len
                                 /\ ValueAt(c, RecordOf(t).addr[c]) = want[t][c]
  <2> DEFINE p == index[t]
             a == master.data[p].addr
  <2>1. p \in 1..master'.len /\ master'.data[p] = master.data[p]
    <3>1. CASE master' = master
      BY <1>2, <3>1
    <3>2. CASE \E x : master' = Written(master, x) \/ master' = Pending(master, x)
      BY <1>2, <3>2, MasterKept DEF HistoryInv
    <3> QED
      BY <3>1, <3>2
  <2>2. RecordOf(t)' = master.data[p]
    BY <2>1 DEF RecordOf
  <2>3. /\ a \in Addresses
        /\ \A c \in Columns :
             /\ a[c] <= log[c].len
             /\ (IF a[c] = 0 THEN Null ELSE log[c].data[a[c]]) = want[t][c]
    BY <1>2 DEF RecordOf, ValueAt
  <2> HIDE DEF a
  <2>4. ASSUME NEW c \in Columns
        PROVE  /\ a[c] <= log'[c].len
               /\ (IF a[c] = 0 THEN Null ELSE log'[c].data[a[c]]) = want[t][c]
    <3>1. /\ log[c].len \in Nat /\ log'[c].len \in Nat /\ a[c] \in Nat
          /\ log[c].len <= log'[c].len
          /\ \A q \in 1..log[c].len : log'[c].data[q] = log[c].data[q]
      BY <2>3 DEF Logs, Stores, Extended, Addresses
    <3>2. a[c] # 0 => a[c] \in 1..log[c].len
      BY <2>3, <3>1
    <3> QED
      BY <2>3, <3>1, <3>2
  <2> QED
    BY <1>2, <2>1, <2>2, <2>3, <2>4 DEF RowHolds, ValueAt, a
<1> QED
  BY <1>1, <1>2 DEF RowHolds

\* A row whose new record has been written.
LEMMA NewRow ==
  ASSUME HistoryInv, NEW t \in Trids, NEW x, master' = Written(master, x),
         index'[t] = master.len + 1, want'[t] \in Rows, x.addr \in Addresses,
         \A c \in Columns : /\ x.addr[c] <= log'[c].len
                            /\ (IF x.addr[c] = 0 THEN Null ELSE log'[c].data[x.addr[c]])
                               = want'[t][c]
  PROVE  RowHolds(t)'
<1>1. master.len + 1 \in 1..master'.len /\ master'.data[master.len + 1] = x
  BY MasterKept DEF HistoryInv
<1>2. RecordOf(t)' = x
  BY <1>1 DEF RecordOf
<1> QED
  BY <1>1, <1>2 DEF RowHolds, ValueAt

\* doInsertRowUnlocked succeeds.
LEMMA InsertRowHolds ==
  ASSUME HistoryInv, RowsInv, damaged' = damaged, NEW row \in Rows, lastTrid < MaxTrid,
         InsertRow(row)
  PROVE  RowsInv'
<1>0. PICK n \in Trids : n = lastTrid + 1
  BY SizeAssumption DEF HistoryInv, IndexOK, Trids
<1> DEFINE list == RowAsList(row)
           l == WritesOf(list)[NumColumns]
           addr == AddressesOf(list, NoAddresses)[NumColumns]
           x == NewRecord(n, "insert", addr, 0, 0)
<1>1. /\ log' = l /\ master' = Written(master, x)
      /\ index' = [index EXCEPT ![n] = master.len + 1]
      /\ want' = [want EXCEPT ![n] = row] /\ torn' = torn /\ stale' = stale
  BY <1>0 DEF InsertRow
<1>2. x.addr = addr
  BY DEF NewRecord
<1> HIDE DEF x
<1>3. want' \in [Trids -> Rows \cup {Absent}] /\ want'[n] = row
  BY <1>0, <1>1 DEF RowsInv
<1>4. ASSUME ~damaged PROVE ColumnsHold'
  <2>1. log \in Logs /\ AddressesOK /\ \A t \in Trids \ (torn \cup stale) : RowHolds(t)
    BY <1>4 DEF RowsInv, ColumnsHold
  <2>2. /\ list \in Lists /\ Len(list) = NumColumns
        /\ \A any \in Rows : Applied(any, list) = row
    BY ListOfRow
  <2> DEFINE nulls == [c \in Columns |-> Null]
  <2>3. /\ nulls \in Rows /\ NoAddresses \in Addresses
        /\ \A c \in Columns : NoAddresses[c] <= log[c].len /\ ValueAt(c, NoAddresses[c]) = nulls[c]
    <3>1. \A c \in Columns : log[c].len \in Nat /\ NoAddresses[c] = 0
      BY <2>1 DEF Logs, Stores, NoAddresses
    <3> QED
      BY <3>1 DEF Rows, Cells, NoAddresses, Addresses, ValueAt
  <2> HIDE DEF nulls, list
  <2>4. /\ l \in Logs /\ Extended(log, l) /\ addr \in Addresses
        /\ \A c \in Columns : /\ addr[c] <= l[c].len
                              /\ (IF addr[c] = 0 THEN Null ELSE l[c].data[addr[c]]) = row[c]
    BY <2>1, <2>2, <2>3, RowAfterWrites
  <2> HIDE DEF l, addr
  <2>5. index'[n] = master.len + 1
    BY <1>0, <1>1 DEF HistoryInv, IndexOK
  <2>6. RowHolds(n)'
    BY <1>0, <1>1, <1>2, <1>3, <2>4, <2>5, NewRow
  <2>7. ASSUME NEW t \in Trids \ (torn \cup stale), t # n PROVE RowHolds(t)'
    <3>1. index'[t] = index[t] /\ want'[t] = want[t]
      BY <1>1, <2>7 DEF HistoryInv, IndexOK, RowsInv
    <3> QED
      BY <1>1, <2>1, <2>4, <3>1, OtherRow
  <2>8. AddressesOK'
    BY <1>1, <1>2, <2>1, <2>4, NewAddresses DEF HistoryInv
  <2> QED
    BY <1>1, <2>4, <2>6, <2>7, <2>8 DEF ColumnsHold
<1> QED
  BY <1>3, <1>4 DEF RowsInv

\* doInsertRowUnlocked undoes the values of a row.
LEMMA RowUndone ==
  ASSUME log \in Logs, NEW row \in Rows
  PROVE  LET list == RowAsList(row)
             addr == AddressesOf(list, NoAddresses)[NumColumns]
             m == [c \in Columns |-> IF addr[c] = 0 THEN log[c]
                                     ELSE RolledBack(WritesOf(list)[NumColumns][c], addr[c])]
         IN m \in Logs /\ Extended(log, m)
<1> DEFINE list == RowAsList(row)
           l == WritesOf(list)[NumColumns]
           addr == AddressesOf(list, NoAddresses)[NumColumns]
           K == {c \in Columns : addr[c] # 0}
           m == [c \in Columns |-> IF addr[c] = 0 THEN log[c] ELSE RolledBack(l[c], addr[c])]
           k == [c \in Columns |-> IF c \in K THEN RolledBack(l[c], addr[c]) ELSE l[c]]
<1>1. /\ list \in Lists /\ Len(list) = NumColumns
      /\ \A c \in Columns : list[c].col = c
  BY ListOfRow
<1>2. NumColumns \in Nat /\ NumColumns \in 0..NumColumns /\ Columns = 1..NumColumns
  BY SizeAssumption DEF Columns
<1>3. NoAddresses \in Addresses
  BY DEF NoAddresses, Addresses
<1> HIDE DEF list
<1>4. /\ l \in Logs /\ Extended(log, l)
      /\ \A c \in Columns :
           Kept(list, NumColumns, addr, NoAddresses, c) \/ Placed(list, NumColumns, l, addr, c)
  BY <1>1, <1>2, <1>3, WritesStep, AfterWrites
<1> HIDE DEF l, addr
<1>5. ASSUME NEW c \in Columns, c \in K
      PROVE  addr[c] \in (log[c].len + 1)..l[c].len
  <2>1. ~Kept(list, NumColumns, addr, NoAddresses, c)
    BY <1>1, <1>2 DEF Kept
  <2>2. addr[c] # 0
    BY <1>5
  <2> QED
    BY <1>2, <1>4, <2>1, <2>2, PlacedFree
<1>6. k \in Logs /\ Extended(log, k)
  <2> HIDE DEF K
  <2> QED
    BY <1>4, <1>5, BackToFree
<1>7. \A c \in Columns : m[c] = log[c] \/ m[c] = k[c]
  OBVIOUS
<1>8. m = [c \in Columns |-> m[c]]
  OBVIOUS
<1> HIDE DEF m, k
<1>9. m \in Logs
  BY <1>6, <1>7, <1>8 DEF Logs
<1>10. Extended(log, m)
  <2>1. \A c \in Columns : log[c].len \in Nat
    BY DEF Logs, Stores
  <2> QED
    BY <1>6, <1>7, <2>1 DEF Extended
<1> QED
  BY <1>9, <1>10 DEF m, l, addr, list

\* doInsertRowUnlocked fails, at a value, at the record or at the index.
LEMMA InsertRowFailsHolds ==
  ASSUME HistoryInv, RowsInv, damaged' = damaged, NEW row \in Rows, lastTrid < MaxTrid,
         InsertRowFails(row)
  PROVE  RowsInv'
<1>0. PICK n \in Trids : n = lastTrid + 1
  BY SizeAssumption DEF HistoryInv, IndexOK, Trids
<1> DEFINE list == RowAsList(row)
           addr == AddressesOf(list, NoAddresses)[NumColumns]
           x == NewRecord(n, "insert", addr, 0, 0)
           undone == [c \in Columns |-> IF addr[c] = 0 THEN log[c]
                                        ELSE RolledBack(WritesOf(list)[NumColumns][c], addr[c])]
<1>1. /\ want' = want /\ stale' = stale
      /\ \/ log' = undone
         \/ \E i \in FailurePoints(list) \ {0} : log' \in RollbacksOf(list, i, NoAddresses)
      /\ \/ UNCHANGED <<master, index, torn>>
         \/ /\ master' = Pending(master, x)
            /\ index' \in {index, [index EXCEPT ![n] = master.len + 1]}
            /\ torn' = torn \cup {n}
  BY <1>0 DEF InsertRowFails
<1>x. x.addr = addr
  BY DEF NewRecord
<1> HIDE DEF x
<1>2. ASSUME ~damaged PROVE ColumnsHold'
  <2>1. log \in Logs /\ AddressesOK /\ \A t \in Trids \ (torn \cup stale) : RowHolds(t)
    BY <1>2 DEF RowsInv, ColumnsHold
  <2>2. log' \in Logs /\ Extended(log, log')
    <3>1. CASE log' = undone
      BY <2>1, <3>1, RowUndone
    <3>2. CASE \E i \in FailurePoints(list) \ {0} : log' \in RollbacksOf(list, i, NoAddresses)
      <4>1. list \in Lists /\ NoAddresses \in Addresses
        BY ListOfRow DEF NoAddresses, Addresses
      <4> HIDE DEF list
      <4>2. PICK i \in FailurePoints(list) \ {0} : log' \in RollbacksOf(list, i, NoAddresses)
        BY <3>2
      <4>3. i \in 1..Len(list)
        BY <4>1, <4>2, FailurePlaces
      <4> QED
        BY <2>1, <4>1, <4>2, <4>3, RollbacksExtend
    <3> QED
      BY <1>1, <3>1, <3>2
  <2>3. ASSUME NEW t \in Trids, t \notin torn', t \notin stale' PROVE RowHolds(t)'
    <3>1. t \notin torn /\ t \notin stale /\ index'[t] = index[t] /\ want'[t] = want[t]
      BY <1>0, <1>1, <2>3 DEF HistoryInv, IndexOK
    <3>2. RowHolds(t)
      BY <2>1, <3>1
    <3>3. master' = master \/ \E y : master' = Written(master, y) \/ master' = Pending(master, y)
      BY <1>1
    <3> QED
      BY <2>1, <2>2, <3>1, <3>2, <3>3, OtherRow
  <2>4. AddressesOK'
    <3>1. addr \in Addresses
      <4>1. list \in Lists /\ NoAddresses \in Addresses /\ Len(list) = NumColumns
        BY ListOfRow DEF NoAddresses, Addresses
      <4>2. Len(list) \in 0..Len(list)
        BY <4>1, ItemsOfList
      <4> HIDE DEF list
      <4> QED
        BY <2>1, <4>1, <4>2, AddressesStep
    <3>2. CASE UNCHANGED <<master, index, torn>>
      BY <2>1, <3>2 DEF AddressesOK
    <3>3. CASE master' = Pending(master, x)
      <4> HIDE DEF addr
      <4> QED
        BY <1>x, <2>1, <3>1, <3>3, NewAddresses DEF HistoryInv
    <3> QED
      BY <1>1, <3>2, <3>3
  <2> QED
    BY <2>2, <2>3, <2>4 DEF ColumnsHold
<1> QED
  BY <1>1, <1>2 DEF RowsInv

\* The values of SET form a list.
LEMMA SetListsOK ==
  ASSUME HistoryInv, stmt.kind = "update", NEW list \in SetLists
  PROVE  list \in Lists
<1>1. stmt.cols \in Seq(Columns)
  BY DEF HistoryInv, StatementOK, NoStatement, InsertStatement, ScanStatement
<1>2. Len(stmt.cols) \in Nat /\ \A i \in 1..Len(stmt.cols) : stmt.cols[i] \in Columns
  BY <1>1
<1>3. PICK vals \in [1..Len(stmt.cols) -> Cells] :
        list = [i \in 1..Len(stmt.cols) |-> [col |-> stmt.cols[i], val |-> vals[i]]]
  BY DEF SetLists
<1>4. \A i \in 1..Len(stmt.cols) : [col |-> stmt.cols[i], val |-> vals[i]] \in Items
  BY <1>2, <1>3 DEF Items
<1> QED
  BY <1>2, <1>3, <1>4 DEF Lists

\* updateRow succeeds: from the newest record of the row, or the row is stale.
LEMMA UpdateRowHolds ==
  ASSUME HistoryInv, RowsInv, damaged' = damaged, torn' = torn, NEW u \in Trids, index[u] # 0,
         NEW list \in Lists, UpdateRow(list, RecordOf(u), index[u])
  PROVE  RowsInv'
<1>0. PICK r : r = RecordOf(u)
  OBVIOUS
<1>1. PICK n \in Trids : n = r.trid
  BY <1>0, CurrentRecord
<1> DEFINE l == WritesOf(list)[Len(list)]
           addr == AddressesOf(list, r.addr)[Len(list)]
           x == NewRecord(n, "update", addr, r.version + 1, index[u])
<1>2. /\ log' = l /\ master' = Written(master, x)
      /\ index' = [index EXCEPT ![n] = IF @ = 0 THEN 0 ELSE master.len + 1]
      /\ want' = [want EXCEPT ![n] = IF @ = Absent THEN @ ELSE Applied(@, list)]
      /\ stale' = IF index[n] \in {0, index[u]} THEN stale ELSE stale \cup {n}
  BY <1>0, <1>1 DEF UpdateRow, UpdatedAddresses, IndexUpdated
<1>3. x.addr = addr
  BY DEF NewRecord
<1> HIDE DEF x
<1>4. want \in [Trids -> Rows \cup {Absent}] /\ index \in [Trids -> Nat]
  BY DEF RowsInv, HistoryInv, IndexOK
<1>5. 1 \in Columns
  BY SizeAssumption DEF Columns
<1>6. want' \in [Trids -> Rows \cup {Absent}]
  <2>1. \A row \in Rows : Applied(row, list) \in Rows
    BY <1>5, AppliedValue
  <2>2. (IF want[n] = Absent THEN want[n] ELSE Applied(want[n], list)) \in Rows \cup {Absent}
    BY <1>4, <2>1
  <2> QED
    BY <1>2, <1>4, <2>2
<1>7. ASSUME ~damaged PROVE ColumnsHold'
  <2>1. log \in Logs /\ AddressesOK /\ \A t \in Trids \ (torn \cup stale) : RowHolds(t)
    BY <1>7 DEF RowsInv, ColumnsHold
  <2>2. l \in Logs /\ Extended(log, l)
    <3>1. Len(list) \in 0..Len(list)
      BY ItemsOfList
    <3>2. NoAddresses \in Addresses
      BY DEF NoAddresses, Addresses
    <3> QED
      BY <2>1, <3>1, <3>2, WritesStep, AfterWrites
  <2>3. ASSUME NEW t \in Trids, t \notin torn', t \notin stale', t # n PROVE RowHolds(t)'
    <3>1. t \notin torn /\ t \notin stale /\ index'[t] = index[t] /\ want'[t] = want[t]
      BY <1>2, <1>4, <2>3
    <3>2. RowHolds(t)
      BY <2>1, <3>1
    <3> HIDE DEF l
    <3> QED
      BY <1>2, <2>1, <2>2, <3>1, <3>2, OtherRow
  <2>4. ASSUME n \notin torn', n \notin stale' PROVE RowHolds(n)'
    <3>1. RowHolds(n) /\ index[n] \in {0, index[u]}
      BY <1>2, <2>1, <2>4
    <3>2. CASE index[n] = 0
      <4>1. want[n] = Absent
        BY <3>1, <3>2 DEF RowHolds
      <4>2. index'[n] = 0 /\ want'[n] = Absent
        BY <1>2, <1>4, <3>2, <4>1
      <4> QED
        BY <4>2 DEF RowHolds
    <3>3. CASE index[n] # 0
      <4>1. RecordOf(n) = r
        BY <1>0, <3>1, <3>3 DEF RecordOf
      <4>2. /\ want[n] \in Rows /\ r.addr \in Addresses
            /\ \A c \in Columns : r.addr[c] <= log[c].len /\ ValueAt(c, r.addr[c]) = want[n][c]
        BY <3>1, <3>3, <4>1 DEF RowHolds
      <4>3. want[n] # Absent
        BY <4>2, ValueAssumption DEF Rows, Columns, Cells
      <4>4. index'[n] = master.len + 1 /\ want'[n] = Applied(want[n], list)
        BY <1>2, <1>4, <3>3, <4>3
      <4>r. PICK row \in Rows : row = want[n]
        BY <4>2
      <4>a. PICK old \in Addresses : old = r.addr
        BY <4>2
      <4>o. \A c \in Columns : old[c] <= log[c].len /\ ValueAt(c, old[c]) = row[c]
        BY <4>2, <4>r, <4>a
      <4>w. LET k == WritesOf(list)[Len(list)]
                a == AddressesOf(list, old)[Len(list)]
            IN /\ a \in Addresses /\ Applied(row, list) \in Rows
               /\ \A c \in Columns :
                    /\ a[c] <= k[c].len
                    /\ (IF a[c] = 0 THEN Null ELSE k[c].data[a[c]]) = Applied(row, list)[c]
        BY <2>1, <4>o, RowAfterWrites
      <4>5. /\ addr \in Addresses /\ want'[n] \in Rows
            /\ \A c \in Columns :
                 /\ addr[c] <= l[c].len
                 /\ (IF addr[c] = 0 THEN Null ELSE l[c].data[addr[c]]) = want'[n][c]
        BY <4>r, <4>a, <4>w, <4>4
      <4> HIDE DEF l, addr
      <4> QED
        BY <1>2, <1>3, <4>4, <4>5, NewRow
    <3> QED
      BY <3>2, <3>3
  <2>5. AddressesOK'
    <3>1. index[u] \in 1..Len(master.data)
      BY DEF HistoryInv, IndexOK
    <3>2. r.addr \in Addresses
      BY <1>0, <2>1, <3>1 DEF RecordOf, AddressesOK
    <3>3. Len(list) \in 0..Len(list)
      BY ItemsOfList
    <3>4. addr \in Addresses
      BY <2>1, <3>2, <3>3, AddressesStep
    <3> HIDE DEF addr
    <3> QED
      BY <1>2, <1>3, <2>1, <3>4, NewAddresses DEF HistoryInv
  <2> HIDE DEF l
  <2> QED
    BY <1>2, <2>2, <2>3, <2>4, <2>5 DEF ColumnsHold
<1> QED
  BY <1>6, <1>7 DEF RowsInv

\* UPDATE: a value cannot be written.
LEMMA UpdateRowFailsHolds ==
  ASSUME HistoryInv, RowsInv, NEW u \in Trids, index[u] # 0,
         NEW list \in Lists, UpdateRowFails(list, RecordOf(u))
  PROVE  RowsInv'
<1> DEFINE r == RecordOf(u)
<1>1. PICK i \in FailurePoints(list) \ {0} :
        /\ IF i > 1
           THEN log' \in RollbacksOf(list, i, r.addr) /\ UNCHANGED damaged
           ELSE \E hit \in SUBSET {list[j].col : j \in 1..Len(list)} :
                  /\ \A c \in hit : r.addr[c] # 0
                  /\ \E l \in RollbacksOf(list, 1, r.addr) :
                       log' = [c \in Columns |-> IF c \in hit THEN RolledBack(l[c], r.addr[c])
                                                 ELSE l[c]]
                  /\ damaged' = (damaged \/ hit # {})
        /\ UNCHANGED <<master, index, ends, torn, stale, want>>
  BY Zenon DEF UpdateRowFails
<1> HIDE DEF r
<1>2. i \in 1..Len(list) /\ Len(list) \in Nat
  BY <1>1, FailurePlaces, ItemsOfList
<1>3. ASSUME ~damaged' PROVE ColumnsHold'
  <2>1. ~damaged
    BY <1>1, <1>3
  <2>2. log \in Logs /\ AddressesOK /\ \A t \in Trids \ (torn \cup stale) : RowHolds(t)
    BY <2>1 DEF RowsInv, ColumnsHold
  <2>3. r.addr \in Addresses
    <3>1. index[u] \in 1..Len(master.data)
      BY DEF HistoryInv, IndexOK
    <3> QED
      BY <2>2, <3>1 DEF r, RecordOf, AddressesOK
  <2>4. \E k \in 1..Len(list) : log' \in RollbacksOf(list, k, r.addr)
    <3>1. CASE i > 1
      BY <1>1, <1>2, <3>1
    <3>2. CASE ~(i > 1)
      <4>1. PICK hit \in SUBSET {list[j].col : j \in 1..Len(list)} :
              /\ \E l \in RollbacksOf(list, 1, r.addr) :
                   log' = [c \in Columns |-> IF c \in hit THEN RolledBack(l[c], r.addr[c])
                                             ELSE l[c]]
              /\ damaged' = (damaged \/ hit # {})
        BY <1>1, <3>2
      <4>2. hit = {}
        BY <1>3, <4>1
      <4>3. PICK l \in RollbacksOf(list, 1, r.addr) : log' = [c \in Columns |-> l[c]]
        BY <4>1, <4>2
      <4>4. 1 \in 1..Len(list)
        BY <1>2
      <4>5. l \in Logs
        BY <2>2, <2>3, <4>3, <4>4, RollbacksExtend
      <4>6. log' = l
        BY <4>3, <4>5 DEF Logs
      <4> QED
        BY <4>3, <4>4, <4>6
    <3> QED
      BY <3>1, <3>2
  <2>5. log' \in Logs /\ Extended(log, log')
    BY <2>2, <2>3, <2>4, RollbacksExtend
  <2>6. ASSUME NEW t \in Trids, t \notin torn', t \notin stale' PROVE RowHolds(t)'
    <3>1. /\ t \notin torn /\ t \notin stale /\ index'[t] = index[t] /\ want'[t] = want[t]
          /\ master' = master
      BY <1>1, <2>6
    <3>2. RowHolds(t)
      BY <2>2, <3>1
    <3> QED
      BY <2>2, <2>5, <3>1, <3>2, OtherRow
  <2>7. AddressesOK'
    BY <1>1, <2>2 DEF AddressesOK
  <2> QED
    BY <2>5, <2>6, <2>7 DEF ColumnsHold
<1>4. want' = want
  BY <1>1
<1> QED
  BY <1>3, <1>4 DEF RowsInv

\* Table::deleteRow, and its failures.
LEMMA DeleteRowHolds ==
  ASSUME HistoryInv, RowsInv, UNCHANGED <<log, stale, damaged>>, NEW u \in Trids, index[u] # 0,
         \/ DeleteRow(RecordOf(u), index[u]) /\ torn' = torn
         \/ DeleteRowFails(RecordOf(u), index[u]) /\ want' = want
  PROVE  RowsInv'
<1>0. PICK r : r = RecordOf(u)
  OBVIOUS
<1>1. PICK n \in Trids : n = r.trid
  BY <1>0, CurrentRecord
<1> DEFINE x == NewRecord(n, "delete", NoAddresses, r.version + 1, index[u])
<1>2. \/ /\ master' = Written(master, x) /\ index' = [index EXCEPT ![n] = 0]
         /\ want' = [want EXCEPT ![n] = Absent] /\ torn' = torn
      \/ UNCHANGED <<master, index, torn, want>>
      \/ /\ master' = Pending(master, x) /\ index' \in {index, [index EXCEPT ![n] = 0]}
         /\ torn' = torn \cup {n} /\ want' = want
  BY <1>0, <1>1 DEF DeleteRow, DeleteRowFails
<1>3. x.addr = NoAddresses /\ NoAddresses \in Addresses
  BY DEF NewRecord, NoAddresses, Addresses
<1> HIDE DEF x
<1>4. want \in [Trids -> Rows \cup {Absent}] /\ index \in [Trids -> Nat]
  BY DEF RowsInv, HistoryInv, IndexOK
<1>5. want' \in [Trids -> Rows \cup {Absent}]
  BY <1>2, <1>4
<1>6. ASSUME ~damaged PROVE ColumnsHold'
  <2>1. log \in Logs /\ AddressesOK /\ \A t \in Trids \ (torn \cup stale) : RowHolds(t)
    BY <1>6 DEF RowsInv, ColumnsHold
  <2>2. log' = log /\ log' \in Logs /\ Extended(log, log')
    <3>1. \A c \in Columns : log[c].len \in Nat
      BY <2>1 DEF Logs, Stores
    <3> QED
      BY <2>1, <3>1 DEF Extended
  <2>3. ASSUME NEW t \in Trids, t \notin torn', t \notin stale PROVE RowHolds(t)'
    <3>1. /\ t \notin torn
          /\ master' = master \/ \E y : master' = Written(master, y) \/ master' = Pending(master, y)
          /\ \/ index'[t] = index[t] /\ want'[t] = want[t]
             \/ index'[t] = 0 /\ want'[t] = Absent
      BY <1>2, <1>4, <2>3
    <3>2. RowHolds(t)
      BY <2>1, <2>3, <3>1
    <3>3. CASE index'[t] = index[t] /\ want'[t] = want[t]
      BY <2>1, <2>2, <3>1, <3>2, <3>3, OtherRow
    <3>4. CASE index'[t] = 0 /\ want'[t] = Absent
      BY <3>4 DEF RowHolds
    <3> QED
      BY <3>1, <3>3, <3>4
  <2>4. AddressesOK'
    <3>1. CASE master' = master
      BY <2>1, <3>1 DEF AddressesOK
    <3>2. CASE master' = Written(master, x) \/ master' = Pending(master, x)
      BY <1>3, <2>1, <3>2, NewAddresses DEF HistoryInv
    <3> QED
      BY <1>2, <3>1, <3>2
  <2> QED
    BY <2>2, <2>3, <2>4 DEF ColumnsHold
<1> QED
  BY <1>5, <1>6 DEF RowsInv

\* Steps that leave the columns, the records and the index alone.
LEMMA NothingHolds ==
  ASSUME RowsInv, UNCHANGED <<log, master, index, want, torn, stale, damaged>>
  PROVE  RowsInv'
<1>1. \A t \in Trids : RowHolds(t) => RowHolds(t)'
  BY DEF RowHolds, RecordOf, ValueAt
<1>2. want' \in [Trids -> Rows \cup {Absent}]
  BY DEF RowsInv
<1>3. ASSUME ~damaged' PROVE ColumnsHold'
  BY <1>1, <1>3 DEF RowsInv, ColumnsHold, AddressesOK
<1> QED
  BY <1>2, <1>3 DEF RowsInv

\* Every step keeps the values of the rows.
LEMMA NextRows ==
  ASSUME HistoryInv, RowsInv, [Next]_vars
  PROVE  RowsInv'
<1>1. CASE \/ BeginInsert \/ BeginScan("update") \/ BeginScan("delete") \/ InsertExhausted
           \/ CorruptIndex \/ Skip \/ UpdateKills \/ EndStatement \/ UNCHANGED vars
  <2>1. UNCHANGED <<log, master, index, want, torn, stale, damaged>>
    BY <1>1 DEF BeginInsert, BeginScan, InsertExhausted, CorruptIndex, Skip, UpdateKills,
                EndStatement, vars
  <2> QED
    BY <2>1, NothingHolds
<1>2. CASE InsertStep
  <2>1. /\ lastTrid < MaxTrid /\ damaged' = damaged
        /\ \E row \in Rows : InsertRow(row) \/ InsertRowFails(row)
    BY <1>2 DEF InsertStep
  <2> QED
    BY <2>1, InsertRowHolds, InsertRowFailsHolds
<1>3. CASE UpdateStep \/ DeleteStep
  <2>1. stmt.kind \in {"update", "delete"} /\ stmt.cur \in Present
    BY <1>3 DEF UpdateStep, DeleteStep, OnRow
  <2>2. PICK u \in Trids : u = stmt.cur /\ index[u] # 0
    BY <2>1 DEF Present
  <2>3. CASE UpdateStep
    <3>1. stmt.kind = "update"
      BY <2>3 DEF UpdateStep, OnRow
    <3>2. PICK list \in SetLists :
            \/ /\ UpdateRow(list, RecordOf(u), index[u])
               /\ UNCHANGED <<torn, damaged>>
            \/ UpdateRowFails(list, RecordOf(u))
      BY <2>2, <2>3 DEF UpdateStep
    <3>3. list \in Lists
      BY <3>1, <3>2, SetListsOK
    <3>4. CASE UpdateRow(list, RecordOf(u), index[u]) /\ UNCHANGED <<torn, damaged>>
      BY <2>2, <3>3, <3>4, UpdateRowHolds
    <3>5. CASE UpdateRowFails(list, RecordOf(u))
      BY <2>2, <3>3, <3>5, UpdateRowFailsHolds
    <3> QED
      BY <3>2, <3>4, <3>5
  <2>4. CASE DeleteStep
    <3>1. /\ UNCHANGED <<log, stale, damaged>>
          /\ \/ DeleteRow(RecordOf(u), index[u]) /\ torn' = torn
             \/ DeleteRowFails(RecordOf(u), index[u]) /\ want' = want
      BY <2>2, <2>4 DEF DeleteStep
    <3> QED
      BY <2>2, <3>1, DeleteRowHolds
  <2> QED
    BY <1>3, <2>3, <2>4
<1> QED
  BY <1>1, <1>2, <1>3 DEF Next

\* An empty table satisfies the invariant.
LEMMA InitRows ==
  ASSUME Init
  PROVE  RowsInv
<1>1. Empty \in Stores
  BY DEF Empty, Stores
<1>2. log \in Logs
  BY <1>1 DEF Init, Logs
<1>3. AddressesOK /\ \A t \in Trids : RowHolds(t)
  BY DEF Init, Empty, AddressesOK, RowHolds
<1>4. want \in [Trids -> Rows \cup {Absent}]
  BY DEF Init
<1> QED
  BY <1>2, <1>3, <1>4 DEF RowsInv, ColumnsHold

\* Whatever write of doInsertRowUnlocked, updateRow or deleteRow fails, and whatever is
\* rolled back and written over then: every row has the values of the last successful
\* operation on it, with the exceptions that RowsIntact names.
THEOREM RowsStayIntact == Spec => []RowsIntact
<1>1. Init => HistoryInv /\ RowsInv
  BY InitHistory, InitRows
<1>2. HistoryInv /\ RowsInv /\ [Next]_vars => HistoryInv' /\ RowsInv'
  BY NextHistory, NextRows
<1>3. RowsInv => RowsIntact
  <2> SUFFICES ASSUME RowsInv, ~damaged, NEW t \in Trids \ (torn \cup stale)
               PROVE  IF index[t] = 0 THEN want[t] = Absent
                      ELSE [c \in Columns |-> ValueAt(c, RecordOf(t).addr[c])] = want[t]
    BY DEF RowsIntact
  <2>1. RowHolds(t)
    BY DEF RowsInv, ColumnsHold
  <2>2. CASE index[t] = 0 /\ want[t] = Absent
    BY <2>2
  <2>3. CASE index[t] # 0
    <3>1. want[t] \in Rows /\ \A c \in Columns : ValueAt(c, RecordOf(t).addr[c]) = want[t][c]
      BY <2>1, <2>3 DEF RowHolds
    <3>2. want[t] = [c \in Columns |-> want[t][c]]
      BY <3>1 DEF Rows
    <3> QED
      BY <2>3, <3>1, <3>2
  <2>4. index[t] = 0 => want[t] = Absent
    <3>1. ~(0 \in 1..master.len)
      OBVIOUS
    <3> QED
      BY <2>1, <3>1 DEF RowHolds
  <2> QED
    BY <2>3, <2>4
<1> QED
  BY <1>1, <1>2, <1>3, PTL DEF Spec

-----------------------------------------------------------------------------
\* Without a refused write to the index, each entry leads to a record of its own row,
\* and the ends of the index are its least and greatest key.
OwnRecords ==
  \A t \in Trids : index[t] # 0 => index[t] \in 1..master.len /\ RecordOf(t).trid = t

EndsExact ==
  /\ Present = {} => ends = NoKeys
  /\ Present # {} => ends.min \in Present /\ ends.max \in Present
  /\ \A t \in Present : ends.min <= t /\ t <= ends.max

\* A row that the cursor may have missed: it went too far from the last record of a file.
Missable(t, crossed) == \E b \in crossed : t \in (b + 1)..(b + N)

\* A scan has touched the rows of its target before the cursor, but for those it may have
\* missed; from the cursor on, the target is what the condition selects now.
ScanOK ==
  stmt.kind \in {"update", "delete"} =>
    /\ stmt.touched \subseteq stmt.target
    /\ \A t \in stmt.touched : stmt.cur = 0 \/ t < stmt.cur
    /\ \A t \in stmt.target \ stmt.touched :
         (stmt.cur # 0 /\ t >= stmt.cur) \/ Missable(t, stmt.crossed)
    /\ stmt.cur # 0 =>
         \A t \in Trids : t >= stmt.cur =>
           (t \in stmt.target <=> index[t] # 0 /\ Fits(stmt.where, t))

\* An INSERT touches the row IDs it has been given.
InsertOK ==
  stmt.kind = "insert" =>
    stmt.touched = stmt.target /\ \A t \in stmt.touched : t <= lastTrid

\* Each row is counted once.
CountOK == stmt # NoStatement => stmt.done = Cardinality(stmt.touched)

\* Claimed while no write to the index was refused.
ScanInv ==
  /\ torn = {} => OwnRecords /\ stale = {} /\ EndsExact
  /\ torn = {} /\ ~damaged => ScanOK /\ InsertOK /\ CountOK
  /\ StatementIsComplete

\* Row IDs in use have been given.
LEMMA PresentBounds ==
  ASSUME HistoryInv, OwnRecords, NEW t \in Present
  PROVE  t \in Trids /\ t <= lastTrid /\ t # 0
<1>1. t \in Trids /\ index[t] # 0
  BY DEF Present
<1>2. index[t] \in 1..Len(master.data) /\ RecordOf(t).trid = t
  BY <1>1 DEF HistoryInv, IndexOK, OwnRecords
<1>3. t \in 1..lastTrid
  BY <1>2 DEF RecordOf, HistoryInv, TridsCounted
<1> QED
  BY <1>1, <1>3 DEF HistoryInv, IndexOK

\* A new row ID is the greatest key.
LEMMA InsertedEnds ==
  ASSUME HistoryInv, OwnRecords, EndsExact, lastTrid < MaxTrid, NEW n \in Trids, n = lastTrid + 1,
         index' = [index EXCEPT ![n] = master.len + 1], ends' = EndsAfterInsert(n)
  PROVE  EndsExact'
<1>0. index \in [Trids -> Nat] /\ master.len \in Nat /\ lastTrid \in Nat /\ MaxTrid \in Nat
  BY SizeAssumption DEF HistoryInv, IndexOK, MasterOK
<1>1. Present' = Present \cup {n}
  BY <1>0 DEF Present
<1>2. \A t \in Present : t \in Nat /\ t < n
  BY <1>0, PresentBounds DEF Trids
<1>3. CASE Present = {}
  <2>1. ends.max < ends.min
    BY <1>0, <1>3 DEF EndsExact, NoKeys
  <2>2. ends' = [min |-> n, max |-> n]
    BY <2>1 DEF EndsAfterInsert
  <2>3. n \in Nat
    BY DEF Trids
  <2> QED
    BY <1>1, <1>3, <2>2, <2>3 DEF EndsExact
<1>4. CASE Present # {}
  <2>1. ends.min \in Present /\ ends.max \in Present /\ ends.min <= ends.max
    BY <1>4 DEF EndsExact
  <2>2. ends \in [min : Nat, max : Nat] /\ ~(ends.max < ends.min)
    <3>1. ends.min \in Nat /\ ends.max \in Nat
      BY <1>2, <2>1
    <3> QED
      BY <2>1, <3>1 DEF HistoryInv, IndexOK
  <2>3. ends'.min = ends.min /\ ends'.max = n
    BY <2>2 DEF EndsAfterInsert
  <2>4. \A t \in Present \cup {n} : ends.min <= t /\ t <= n
    <3>1. \A t \in Present : ends.min <= t /\ t <= n
      BY <1>2 DEF EndsExact, Trids
    <3>2. ends.min <= n /\ n <= n
      BY <1>2, <2>1 DEF Trids
    <3> QED
      BY <3>1, <3>2
  <2>5. Present' # {}
    BY <1>1
  <2> QED
    BY <1>1, <2>1, <2>3, <2>4, <2>5 DEF EndsExact
<1> QED
  BY <1>3, <1>4

\* EndsAfterErase finds the ends of what is left.
LEMMA ErasedEnds ==
  ASSUME HistoryInv, EndsExact, NEW u \in Trids, index[u] # 0,
         index' = [index EXCEPT ![u] = 0], ends' = EndsAfterErase(u)
  PROVE  EndsExact'
<1>0. index \in [Trids -> Nat] /\ ends \in [min : Nat, max : Nat] /\ MaxTrid \in Nat
  BY SizeAssumption DEF HistoryInv, IndexOK
<1> DEFINE P == Present \ {u}
           before == {k \in P : k < u}
<1>1. Present' = P /\ u \in Present /\ P \subseteq Trids /\ u \in Nat /\ P \subseteq Present
  BY <1>0 DEF Present, Trids
<1>2. /\ ends' = IF u = ends.min /\ u = ends.max THEN NoKeys
                 ELSE [min |-> IF u = ends.min THEN KeyAfter(P, u) ELSE ends.min,
                       max |-> IF u = ends.max THEN KeyBefore(P, u) ELSE ends.max]
      /\ KeyAfter(P, u) = After(P, u, ends.max)
      /\ KeyBefore(P, u) = IF u = ends.min \/ before = {} THEN 0 ELSE Max(before)
  BY DEF EndsAfterErase, KeyAfter, After, KeyBefore
<1>3. /\ ends.min \in Present /\ ends.max \in Present
      /\ \A t \in Present : /\ ends.min <= t /\ t <= ends.max /\ t <= MaxTrid
                            /\ t \in Nat /\ ends.min \in Nat /\ ends.max \in Nat
  BY <1>1, <1>0 DEF EndsExact, Present, Trids
<1>4. CASE u = ends.min /\ u = ends.max
  <2>1. P = {}
    BY <1>3, <1>4
  <2> QED
    BY <1>1, <1>2, <1>4, <2>1 DEF EndsExact
<1>5. CASE ~(u = ends.min /\ u = ends.max)
  <2>1. before \subseteq P /\ before \subseteq Trids
    BY <1>1
  <2>2. P # {}
    BY <1>3, <1>5
  <2>3. u = ends.max => before # {} /\ \A k \in P : k \in before
    BY <1>1, <1>3, <1>5
  <2>4. PICK min, max : min = ends'.min /\ max = ends'.max
    OBVIOUS
  <2> HIDE DEF before, P
  <2>5. min \in P /\ \A k \in P : min <= k
    <3>1. CASE u = ends.min
      <4>1. PICK last : last = ends.max
        OBVIOUS
      <4>2. u \notin {last, MaxTrid} /\ \A k \in P : k > u /\ k \in Nat
        BY <1>1, <1>3, <1>5, <3>1, <4>1 DEF P
      <4>3. ~Restarts(P, u)
        <5> SUFFICES ASSUME Restarts(P, u) PROVE FALSE
          OBVIOUS
        <5>1. PICK k \in P : (u + 1) % N = 0 /\ FileOf(k) = FileOf(u)
          BY DEF Restarts
        <5>2. k \in Nat /\ k <= u
          BY <1>1, <4>2, <5>1, LastOfFile
        <5> QED
          BY <1>1, <4>2, <5>1, <5>2
      <4>4. min = After(P, u, last)
        BY <1>2, <1>5, <2>4, <3>1, <4>1
      <4>5. \A k \in P : ~(k <= u)
        BY <1>1, <4>2
      <4>6. After(P, u, last) \in P /\ \A k \in P : k > u => k >= After(P, u, last)
        BY <1>1, <2>2, <4>2, <4>3, <4>5, AfterExact, Zenon
      <4>7. min \in P /\ \A k \in P : k >= min
        BY <4>2, <4>4, <4>6
      <4> QED
        BY <4>2, <4>7
    <3>2. CASE u # ends.min
      BY <1>1, <1>2, <1>3, <2>4, <3>2 DEF P
    <3> QED
      BY <3>1, <3>2
  <2>6. max \in P /\ \A k \in P : k <= max
    <3>1. CASE u = ends.max
      <4>1. max = Max(before)
        BY <1>2, <1>5, <2>3, <2>4, <3>1
      <4>2. Max(before) \in before /\ \A k \in before : Max(before) >= k
        BY <2>1, <2>3, <3>1, LeastAndGreatest
      <4>3. max \in P /\ \A k \in P : max >= k
        BY <2>1, <2>3, <3>1, <4>1, <4>2
      <4>4. \A k \in P : k \in Nat
        BY <1>1 DEF Trids
      <4> QED
        BY <4>3, <4>4
    <3>2. CASE u # ends.max
      BY <1>1, <1>2, <1>3, <2>4, <3>2 DEF P
    <3> QED
      BY <3>1, <3>2
  <2> QED
    BY <1>1, <2>2, <2>4, <2>5, <2>6 DEF EndsExact
<1> QED
  BY <1>4, <1>5

\* The new record of a row is its own.
LEMMA OwnWritten ==
  ASSUME HistoryInv, OwnRecords, NEW n \in Trids, NEW x, x.trid = n, master' = Written(master, x),
         \A t \in Trids : t # n => index'[t] = index[t], index'[n] \in {0, master.len + 1}
  PROVE  OwnRecords'
<1> SUFFICES ASSUME NEW t \in Trids, index'[t] # 0
             PROVE  index'[t] \in 1..master'.len /\ master'.data[index'[t]].trid = t
  BY DEF OwnRecords, RecordOf
<1>1. /\ \A p \in 1..master.len : p \in 1..master'.len /\ master'.data[p] = master.data[p]
      /\ master.len + 1 \in 1..master'.len /\ master'.data[master.len + 1] = x
  BY MasterKept DEF HistoryInv
<1>2. CASE t = n
  BY <1>1, <1>2
<1>3. CASE t # n
  <2>1. index'[t] = index[t] /\ index[t] \in 1..master.len /\ master.data[index[t]].trid = t
    BY <1>3 DEF OwnRecords, RecordOf
  <2> QED
    BY <1>1, <2>1
<1> QED
  BY <1>2, <1>3

\* An UPDATE or DELETE on the row u, when every entry leads to its own row.
LEMMA RowShape ==
  ASSUME HistoryInv, OwnRecords, UpdateStep \/ DeleteStep, torn' = {}
  PROVE  \E u \in Trids :
           /\ u = stmt.cur /\ index[u] # 0 /\ stmt.kind \in {"update", "delete"}
           /\ lastTrid' = lastTrid /\ torn = {}
           /\ \/ Finish(FALSE) /\ UNCHANGED <<master, index, ends, stale>>
              \/ /\ Advance /\ UNCHANGED <<reply, damaged, stale>>
                 /\ \A t \in Trids : t # u => want'[t] = want[t]
                 /\ \E x : x.trid = u /\ master' = Written(master, x)
                 /\ \/ index' = [index EXCEPT ![u] = master.len + 1] /\ ends' = ends
                    \/ index' = [index EXCEPT ![u] = 0] /\ ends' = EndsAfterErase(u)
<1>1. stmt.kind \in {"update", "delete"} /\ stmt.cur \in Present
  BY DEF UpdateStep, DeleteStep, OnRow
<1>2. PICK u \in Trids : u = stmt.cur /\ index[u] # 0
  BY <1>1 DEF Present
<1>3. RecordOf(u).trid = u
  BY <1>2 DEF OwnRecords
<1>4. CASE UpdateStep
  <2>1. PICK list : \/ /\ UpdateRow(list, RecordOf(u), index[u]) /\ Advance
                       /\ UNCHANGED <<torn, damaged, reply>>
                    \/ UpdateRowFails(list, RecordOf(u)) /\ Finish(FALSE)
    BY <1>2, <1>4 DEF UpdateStep
  <2>2. lastTrid' = lastTrid
    BY <1>4 DEF UpdateStep
  <2>3. CASE UpdateRowFails(list, RecordOf(u)) /\ Finish(FALSE)
    <3>1. UNCHANGED <<master, index, ends, stale, torn>>
      BY <2>3 DEF UpdateRowFails
    <3> QED
      BY <1>1, <1>2, <2>2, <2>3, <3>1
  <2>4. CASE /\ UpdateRow(list, RecordOf(u), index[u]) /\ Advance
             /\ UNCHANGED <<torn, damaged, reply>>
    <3> DEFINE r == RecordOf(u)
               x == NewRecord(u, "update", UpdatedAddresses(list, r), r.version + 1, index[u])
    <3>1. /\ master' = Written(master, x)
          /\ index' = [index EXCEPT ![u] = IF @ = 0 THEN 0 ELSE master.len + 1]
          /\ want' = [want EXCEPT ![u] = IF @ = Absent THEN @ ELSE Applied(@, list)]
          /\ stale' = stale /\ ends' = ends
      BY <1>2, <1>3, <2>4 DEF UpdateRow, IndexUpdated
    <3>2. x.trid = u
      BY DEF NewRecord
    <3> HIDE DEF x
    <3>3. index' = [index EXCEPT ![u] = master.len + 1]
      BY <1>2, <3>1 DEF HistoryInv, IndexOK
    <3>4. \A t \in Trids : t # u => want'[t] = want[t]
      BY <3>1
    <3> QED
      BY <1>1, <1>2, <2>2, <2>4, <3>1, <3>2, <3>3, <3>4
  <2> QED
    BY <2>1, <2>3, <2>4
<1>5. CASE DeleteStep
  <2>1. /\ lastTrid' = lastTrid /\ UNCHANGED <<damaged, stale>>
        /\ \/ /\ DeleteRow(RecordOf(u), index[u]) /\ Advance
              /\ UNCHANGED <<torn, reply>>
           \/ DeleteRowFails(RecordOf(u), index[u]) /\ Finish(FALSE)
    BY <1>2, <1>5 DEF DeleteStep
  <2>2. CASE DeleteRowFails(RecordOf(u), index[u]) /\ Finish(FALSE)
    <3>1. UNCHANGED <<master, index, ends, torn>>
      BY <2>2 DEF DeleteRowFails
    <3> QED
      BY <1>1, <1>2, <2>1, <2>2, <3>1
  <2>3. CASE DeleteRow(RecordOf(u), index[u]) /\ Advance /\ UNCHANGED <<torn, reply>>
    <3> DEFINE x == NewRecord(u, "delete", NoAddresses, RecordOf(u).version + 1, index[u])
    <3>1. /\ master' = Written(master, x)
          /\ index' = [index EXCEPT ![u] = 0] /\ ends' = EndsAfterErase(u)
          /\ want' = [want EXCEPT ![u] = Absent]
      BY <1>2, <1>3, <2>3 DEF DeleteRow
    <3>2. x.trid = u
      BY DEF NewRecord
    <3> HIDE DEF x
    <3>3. \A t \in Trids : t # u => want'[t] = want[t]
      BY <3>1
    <3> QED
      BY <1>1, <1>2, <2>1, <2>3, <3>1, <3>2, <3>3
  <2> QED
    BY <2>1, <2>2, <2>3
<1> QED
  BY <1>4, <1>5

\* An INSERT of a row, or its failure before the index.
LEMMA InsertShape ==
  ASSUME HistoryInv, InsertStep, torn' = {}
  PROVE  \E n \in Trids :
           /\ n = lastTrid + 1 /\ n = lastTrid' /\ torn = {} /\ UNCHANGED <<damaged, stale>>
           /\ stmt.kind = "insert"
           /\ \/ Finish(FALSE) /\ UNCHANGED <<master, index, ends>>
              \/ /\ stmt' = [stmt EXCEPT !.done = @ + 1, !.touched = @ \cup {n},
                                         !.target = @ \cup {n}]
                 /\ UNCHANGED reply
                 /\ \E x : x.trid = n /\ master' = Written(master, x)
                 /\ index' = [index EXCEPT ![n] = master.len + 1]
                 /\ ends' = EndsAfterInsert(n)
<1>1. stmt.kind = "insert" /\ lastTrid < MaxTrid /\ damaged' = damaged
  BY DEF InsertStep
<1>2. PICK n \in Trids : n = lastTrid + 1
  BY <1>1, SizeAssumption DEF HistoryInv, IndexOK, Trids
<1>3. CASE \E row \in Rows : InsertRowFails(row) /\ Finish(FALSE)
  <2>1. PICK row \in Rows : InsertRowFails(row) /\ Finish(FALSE)
    BY <1>3
  <2>2. /\ lastTrid' = lastTrid + 1 /\ UNCHANGED <<ends, stale>>
        /\ UNCHANGED <<master, index, torn>> \/ torn' = torn \cup {lastTrid + 1}
    BY <2>1 DEF InsertRowFails, TridAfterFailure
  <2>3. UNCHANGED <<master, index, torn>>
    BY <2>2
  <2> QED
    BY <1>1, <1>2, <2>1, <2>2, <2>3
<1>4. CASE \E row \in Rows :
             /\ InsertRow(row) /\ UNCHANGED reply
             /\ stmt' = [stmt EXCEPT !.done = @ + 1, !.touched = @ \cup {lastTrid'},
                                     !.target = @ \cup {lastTrid'}]
  <2>1. PICK row \in Rows :
          /\ InsertRow(row) /\ UNCHANGED reply
          /\ stmt' = [stmt EXCEPT !.done = @ + 1, !.touched = @ \cup {lastTrid'},
                                  !.target = @ \cup {lastTrid'}]
    BY <1>4
  <2> DEFINE x == NewRecord(n, "insert", AddressesOf(RowAsList(row), NoAddresses)[NumColumns], 0, 0)
  <2>2. /\ master' = Written(master, x) /\ index' = [index EXCEPT ![n] = master.len + 1]
        /\ ends' = EndsAfterInsert(n) /\ lastTrid' = n /\ UNCHANGED <<torn, stale>>
    BY <1>2, <2>1 DEF InsertRow
  <2>3. x.trid = n
    BY DEF NewRecord
  <2> HIDE DEF x
  <2> QED
    BY <1>1, <1>2, <2>1, <2>2, <2>3
<1> QED
  BY <1>3, <1>4 DEF InsertStep

\* The index keeps its order.
LEMMA KeysStep ==
  ASSUME HistoryInv, torn = {} => OwnRecords /\ stale = {} /\ EndsExact, [Next]_vars, torn' = {}
  PROVE  torn = {} /\ OwnRecords' /\ stale' = {} /\ EndsExact'
<1>0. torn = {} => OwnRecords /\ stale = {} /\ EndsExact
  OBVIOUS
<1>1. ASSUME torn = {}, UNCHANGED <<master, index, ends, stale>>
      PROVE  OwnRecords' /\ stale' = {} /\ EndsExact'
  <2>1. OwnRecords'
    BY <1>0, <1>1 DEF OwnRecords, RecordOf
  <2>2. Present' = Present
    BY <1>1 DEF Present
  <2>3. EndsExact'
    BY <1>0, <1>1, <2>2 DEF EndsExact
  <2> QED
    BY <1>0, <1>1, <2>1, <2>3
<1>2. CASE \/ BeginInsert \/ BeginScan("update") \/ BeginScan("delete") \/ InsertExhausted
           \/ CorruptIndex \/ Skip \/ UpdateKills \/ EndStatement \/ UNCHANGED vars
  <2>1. UNCHANGED <<master, index, ends, stale, torn>>
    BY <1>2 DEF BeginInsert, BeginScan, InsertExhausted, CorruptIndex, Skip, UpdateKills,
                EndStatement, vars
  <2> QED
    BY <1>1, <2>1
<1>3. CASE InsertStep
  <2>1. PICK n \in Trids :
           /\ n = lastTrid + 1 /\ torn = {} /\ stale' = stale
           /\ \/ UNCHANGED <<master, index, ends>>
              \/ /\ \E x : x.trid = n /\ master' = Written(master, x)
                 /\ index' = [index EXCEPT ![n] = master.len + 1]
                 /\ ends' = EndsAfterInsert(n)
    BY <1>3, InsertShape
  <2>2. CASE UNCHANGED <<master, index, ends>>
    BY <1>1, <2>1, <2>2
  <2>3. CASE /\ \E x : x.trid = n /\ master' = Written(master, x)
             /\ index' = [index EXCEPT ![n] = master.len + 1]
             /\ ends' = EndsAfterInsert(n)
    <3>1. lastTrid < MaxTrid
      BY <1>3 DEF InsertStep
    <3>2. index'[n] = master.len + 1 /\ \A t \in Trids : t # n => index'[t] = index[t]
      BY <2>3 DEF HistoryInv, IndexOK
    <3>3. OwnRecords'
      BY <1>0, <2>1, <2>3, <3>2, OwnWritten
    <3>4. EndsExact'
      BY <1>0, <2>1, <2>3, <3>1, InsertedEnds
    <3> QED
      BY <1>0, <2>1, <3>3, <3>4
  <2> QED
    BY <2>1, <2>2, <2>3
<1>4. CASE UpdateStep \/ DeleteStep
  <2>0. torn = {}
    <3>1. torn \subseteq torn'
      BY <1>4 DEF UpdateStep, DeleteStep, UpdateRowFails, DeleteRowFails
    <3> QED
      BY <3>1
  <2>1. PICK u \in Trids :
           /\ index[u] # 0 /\ stale' = stale
           /\ \/ UNCHANGED <<master, index, ends>>
              \/ /\ \E x : x.trid = u /\ master' = Written(master, x)
                 /\ \/ index' = [index EXCEPT ![u] = master.len + 1] /\ ends' = ends
                    \/ index' = [index EXCEPT ![u] = 0] /\ ends' = EndsAfterErase(u)
    BY <1>0, <1>4, <2>0, RowShape
  <2>2. CASE UNCHANGED <<master, index, ends>>
    BY <1>1, <2>0, <2>1, <2>2
  <2>3. CASE /\ \E x : x.trid = u /\ master' = Written(master, x)
             /\ \/ index' = [index EXCEPT ![u] = master.len + 1] /\ ends' = ends
                \/ index' = [index EXCEPT ![u] = 0] /\ ends' = EndsAfterErase(u)
    <3>0. index \in [Trids -> Nat] /\ master.len \in Nat
      BY DEF HistoryInv, IndexOK, MasterOK
    <3>1. index'[u] \in {0, master.len + 1} /\ \A t \in Trids : t # u => index'[t] = index[t]
      BY <2>3, <3>0
    <3>2. OwnRecords'
      BY <1>0, <2>0, <2>3, <3>1, OwnWritten
    <3>3. EndsExact'
      <4>1. CASE index' = [index EXCEPT ![u] = master.len + 1] /\ ends' = ends
        <5>1. Present' = Present
          BY <2>1, <3>0, <4>1 DEF Present
        <5> QED
          BY <1>0, <2>0, <4>1, <5>1 DEF EndsExact
      <4>2. CASE index' = [index EXCEPT ![u] = 0] /\ ends' = EndsAfterErase(u)
        BY <1>0, <2>0, <2>1, <4>2, ErasedEnds
      <4> QED
        BY <2>3, <4>1, <4>2
    <3> QED
      BY <1>0, <2>0, <2>1, <3>2, <3>3
  <2> QED
    BY <2>0, <2>1, <2>2, <2>3
<1> QED
  BY <1>2, <1>3, <1>4 DEF Next

\* The cursor goes to its end or to a greater key, and between the two there is no row, or
\* it may have gone too far.
Moved(P, t, last, n) ==
  /\ n \in Nat
  /\ n = 0 => \A k \in P : k <= t
  /\ n # 0 => n > t
  /\ n # 0 => \A k \in P : k > t /\ k < n =>
                Restarts(P, t) /\ t # last /\ k \in (t + 1)..(t + N)

LEMMA NextIsLeast ==
  ASSUME NEW P, P \subseteq Trids, NEW t \in Trids, NEW last,
         t = last => \A k \in P : k <= t
  PROVE  Moved(P, t, last, After(P, t, last))
<1>0. PICK n : n = After(P, t, last)
  OBVIOUS
<1>1. t \in Nat /\ P \subseteq Nat /\ t <= MaxTrid /\ \A k \in P : k <= MaxTrid
  BY DEF Trids
<1>2. n \in Nat
  BY <1>0, <1>1, AfterInNat
<1>3. CASE t \in {last, MaxTrid}
  <2>1. n = 0
    BY <1>0, <1>3 DEF After
  <2>2. \A k \in P : k <= t
    BY <1>1, <1>3
  <2> QED
    BY <1>0, <1>2, <2>1, <2>2 DEF Moved
<1>4. CASE t \notin {last, MaxTrid} /\ Restarts(P, t)
  <2>1. n \in (t + 1)..(t + N)
    BY <1>0, <1>1, <1>4, AfterRestart
  <2>2. n # 0 /\ n > t /\ n <= t + N
    BY <1>1, <2>1, NAssumption
  <2>3. \A k \in P : k > t /\ k < n => k \in (t + 1)..(t + N)
    BY <1>1, <1>2, <2>2, NAssumption
  <2> QED
    BY <1>0, <1>2, <1>4, <2>2, <2>3 DEF Moved
<1>5. CASE t \notin {last, MaxTrid} /\ ~Restarts(P, t)
  <2>1. \/ n = 0 /\ \A k \in P : k <= t
        \/ n \in P /\ n > t /\ \A k \in P : k > t => k >= n
    <3>1. \/ After(P, t, last) = 0 /\ \A k \in P : k <= t
          \/ After(P, t, last) \in P /\ After(P, t, last) > t
             /\ \A k \in P : k > t => k >= After(P, t, last)
      BY <1>1, <1>5, AfterExact, Zenon
    <3> QED
      BY <1>0, <3>1
  <2> QED
    BY <1>0, <1>1, <1>2, <2>1 DEF Moved
<1> QED
  BY <1>3, <1>4, <1>5

\* What WHERE sees is the value that the statements have given to the row.
LEMMA FitsWant ==
  ASSUME RowsInv, ~damaged, torn = {}, stale = {}, NEW t \in Trids, index[t] # 0, NEW w
  PROVE  Fits(w, t) <=> (w = Null \/ want[t][1] = w)
<1>1. RowHolds(t)
  BY DEF RowsInv, ColumnsHold
<1>2. 1 \in Columns
  BY SizeAssumption DEF Columns
<1>3. ValueAt(1, RecordOf(t).addr[1]) = want[t][1]
  BY <1>1, <1>2 DEF RowHolds
<1> QED
  BY <1>3 DEF Fits

\* The cursor moves on, and the rows behind it are as they were.
LEMMA ScanMoves ==
  ASSUME HistoryInv, ScanOK, NEW u \in Trids, u = stmt.cur, stmt.kind \in {"update", "delete"},
         EndsExact', NEW n, n = NextKey(u)',
         stmt'.kind = stmt.kind, stmt'.cur = n, stmt'.where = stmt.where,
         stmt'.target = stmt.target,
         stmt'.touched = stmt.touched \cup ({u} \cap stmt.target),
         stmt.crossed \subseteq stmt'.crossed, Wraps(u)' => u \in stmt'.crossed,
         \A t \in Trids : t > u =>
           /\ index'[t] # 0 <=> index[t] # 0
           /\ index[t] # 0 => (Fits(stmt.where, t)' <=> Fits(stmt.where, t))
  PROVE  ScanOK'
<1>1. u # 0 /\ u \in Nat
  BY DEF Trids
<1>2. /\ stmt.touched \subseteq stmt.target
      /\ \A t \in stmt.touched : t < u
      /\ \A t \in stmt.target \ stmt.touched : t >= u \/ Missable(t, stmt.crossed)
      /\ \A t \in Trids : t >= u => (t \in stmt.target <=> index[t] # 0 /\ Fits(stmt.where, t))
  BY <1>1 DEF ScanOK
<1>0. PICK P, last : P = Present' /\ last = ends'.max
  OBVIOUS
<1>3. P \subseteq Trids /\ \A t \in Trids : t \in P <=> index'[t] # 0
  BY <1>0 DEF Present
<1>4. stmt.target \subseteq Trids /\ \A t \in stmt.target : t \in Nat
  <2>1. stmt.target \subseteq Trids
    BY DEF HistoryInv, StatementOK, NoStatement, InsertStatement, ScanStatement
  <2> QED
    BY <2>1 DEF Trids
<1>5. /\ n \in Nat
      /\ n = 0 => \A k \in P : k <= u
      /\ n # 0 => n > u
      /\ n # 0 => \A k \in P : k > u /\ k < n =>
                    Restarts(P, u) /\ u # last /\ k \in (u + 1)..(u + N)
  <2>1. u = last => \A k \in P : k <= u
    BY <1>0 DEF EndsExact
  <2>2. n = After(P, u, last)
    BY <1>0 DEF NextKey, KeyAfter, After
  <2>3. P \subseteq Trids
    BY <1>3
  <2>4. Moved(P, u, last, After(P, u, last))
    BY <2>1, <2>3, NextIsLeast, Zenon
  <2> QED
    BY <2>2, <2>4 DEF Moved
<1>6. ASSUME NEW t \in Trids, t > u
      PROVE  t \in stmt.target <=> index'[t] # 0 /\ Fits(stmt.where, t)'
  <2>1. t >= u
    BY <1>1, <1>6 DEF Trids
  <2> QED
    BY <1>2, <1>6, <2>1
<1>7. stmt'.touched \subseteq stmt.target /\ \A t \in stmt'.touched : n = 0 \/ t < n
  <2>1. stmt'.touched \subseteq stmt.target
    BY <1>2
  <2>2. \A t \in stmt'.touched : t <= u /\ t \in Nat
    BY <1>1, <1>2, <1>4
  <2> QED
    BY <1>1, <1>5, <2>1, <2>2
<1>8. ASSUME NEW t \in stmt.target \ stmt'.touched
      PROVE  (n # 0 /\ t >= n) \/ Missable(t, stmt'.crossed)
  <2>1. t \in stmt.target \ stmt.touched /\ t # u /\ t \in Trids /\ t \in Nat
    BY <1>4
  <2>2. CASE Missable(t, stmt.crossed)
    BY <2>2 DEF Missable
  <2>3. CASE t >= u /\ ~(n # 0 /\ t >= n)
    <3>1. t > u
      BY <1>1, <2>1, <2>3
    <3>2. t \in P
      BY <1>3, <1>6, <2>1, <3>1
    <3>3. n # 0 /\ t < n
      <4>1. ~(t <= u)
        BY <1>1, <2>1, <3>1
      <4>2. n # 0
        BY <1>5, <3>2, <4>1
      <4> QED
        BY <1>5, <2>1, <2>3, <4>2
    <3>4. Restarts(P, u) /\ u # last /\ t \in (u + 1)..(u + N)
      BY <1>5, <3>1, <3>2, <3>3
    <3>5. Wraps(u)'
      BY <1>0, <3>4 DEF Wraps, Restarts
    <3> QED
      BY <3>4, <3>5 DEF Missable
  <2> QED
    BY <1>2, <2>1, <2>2, <2>3
<1>9. n # 0 =>
        \A t \in Trids : t >= n =>
          (t \in stmt.target <=> index'[t] # 0 /\ Fits(stmt.where, t)')
  <2> SUFFICES ASSUME n # 0, NEW t \in Trids, t >= n
               PROVE  t \in stmt.target <=> index'[t] # 0 /\ Fits(stmt.where, t)'
    OBVIOUS
  <2>1. n \in Nat /\ n > u
    BY <1>5
  <2>2. t > u
    BY <1>1, <2>1 DEF Trids
  <2> QED
    BY <1>6, <2>2
<1> QED
  BY <1>7, <1>8, <1>9 DEF ScanOK

\* A row is counted once.
LEMMA OneMoreTouched ==
  ASSUME NEW T, T \subseteq Trids, NEW u, u \notin T
  PROVE  Cardinality(T \cup {u}) = Cardinality(T) + 1
<1>1. IsFiniteSet(Trids)
  BY FS_Interval, SizeAssumption DEF Trids
<1>2. IsFiniteSet(T)
  BY <1>1, FS_Subset
<1> QED
  BY <1>2, FS_AddElement

\* A statement that has ended.
LEMMA Finished ==
  ASSUME stmt' = NoStatement
  PROVE  ScanOK' /\ InsertOK' /\ CountOK'
BY DEF NoStatement, ScanOK, InsertOK, CountOK

\* A statement that fails claims nothing.
LEMMA FailedReply ==
  ASSUME Finish(FALSE)
  PROVE  ScanOK' /\ InsertOK' /\ CountOK' /\ StatementIsComplete'
BY Finished DEF Finish, StatementIsComplete

\* The statement begins, ends or goes on to the next row without a change of the table.
LEMMA QuietScan ==
  ASSUME HistoryInv, RowsInv, ScanInv, torn = {}, ~damaged,
         \/ BeginInsert \/ BeginScan("update") \/ BeginScan("delete") \/ InsertExhausted
         \/ CorruptIndex \/ Skip \/ UpdateKills \/ EndStatement \/ UNCHANGED vars,
         EndsExact'
  PROVE  ScanOK' /\ InsertOK' /\ CountOK' /\ StatementIsComplete'
<1>0. /\ OwnRecords /\ EndsExact /\ ScanOK /\ InsertOK /\ CountOK /\ StatementIsComplete
      /\ UNCHANGED <<log, master, index, ends, torn, damaged>>
  BY DEF ScanInv, BeginInsert, BeginScan, InsertExhausted, CorruptIndex, Skip, UpdateKills,
         EndStatement, vars
<1>1. \A w : \A t \in Trids : Fits(w, t)' <=> Fits(w, t)
  BY <1>0 DEF Fits, ValueAt, RecordOf
<1>2. CASE BeginInsert
  <2>1. PICK n : stmt' = [kind |-> "insert", rows |-> n, done |-> 0, touched |-> {}, target |-> {},
                          crossed |-> {}]
    BY <1>2 DEF BeginInsert
  <2>2. reply' = NoReply
    BY <1>2 DEF BeginInsert
  <2>3. Cardinality({}) = 0
    BY FS_EmptySet
  <2> QED
    BY <2>1, <2>2, <2>3 DEF ScanOK, InsertOK, CountOK, StatementIsComplete, NoReply
<1>3. ASSUME NEW kind \in {"update", "delete"}, BeginScan(kind)
      PROVE  ScanOK' /\ InsertOK' /\ CountOK' /\ StatementIsComplete'
  <2>1. PICK where, cols :
          stmt' = [kind |-> kind, where |-> where, cols |-> cols, cur |-> FirstKey, done |-> 0,
                   touched |-> {}, target |-> {t \in Present : Fits(where, t)}, crossed |-> {}]
    BY <1>3 DEF BeginScan
  <2>2. reply' = NoReply
    BY <1>3 DEF BeginScan
  <2>3. Cardinality({}) = 0
    BY FS_EmptySet
  <2>4. PICK first : first = FirstKey
    OBVIOUS
  <2>5. PICK hits : hits = {t \in Present : Fits(where, t)}
    OBVIOUS
  <2>6. /\ stmt'.kind = kind /\ stmt'.cur = first /\ stmt'.where = where /\ stmt'.touched = {}
        /\ stmt'.target = hits /\ stmt'.done = 0
    BY <2>1, <2>4, <2>5
  <2>7. Present \subseteq Trids /\ \A t \in Trids : t \in Present <=> index[t] # 0
    BY DEF Present
  <2>8. /\ first # 0 => first \in Present
        /\ first = 0 => Present = {}
        /\ \A t \in Present : first <= t
    <3>1. CASE Present = {}
      <4>1. ends.min = MaxTrid /\ ends.max = 0
        BY <1>0, <3>1 DEF EndsExact, NoKeys
      <4>2. first = 0
        BY <2>4, <4>1, SizeAssumption DEF FirstKey
      <4> QED
        BY <3>1, <4>2
    <3>2. CASE Present # {}
      <4>1. ends.min \in Present /\ ends.max \in Present /\ \A t \in Present : ends.min <= t
        BY <1>0, <3>2 DEF EndsExact
      <4>2. ends.min \in Nat /\ ends.max \in Nat /\ ends.min <= ends.max /\ ends.min # 0
        <5>1. ends.min \in Trids /\ ends.max \in Trids /\ ends.min <= ends.max
          BY <2>7, <4>1, Zenon
        <5> QED
          BY <5>1 DEF Trids
      <4>3. first = ends.min
        BY <2>4, <4>2 DEF FirstKey
      <4> QED
        BY <3>2, <4>1, <4>2, <4>3
    <3> QED
      BY <3>1, <3>2
  <2>9. ASSUME NEW t \in hits PROVE first # 0 /\ t >= first
    <3>1. t \in Present /\ first # 0
      BY <2>5, <2>8
    <3>2. first <= t /\ first \in Trids /\ t \in Trids
      BY <2>7, <2>8, <3>1, Zenon
    <3>3. first \in Nat /\ t \in Nat
      BY <3>2 DEF Trids
    <3> QED
      BY <3>1, <3>2, <3>3
  <2>10. \A t \in Trids : t \in hits <=> index'[t] # 0 /\ Fits(where, t)'
    BY <1>0, <1>1, <2>5, <2>7
  <2>11. ScanOK'
    BY <2>6, <2>9, <2>10 DEF ScanOK
  <2>12. InsertOK' /\ CountOK' /\ StatementIsComplete'
    BY <2>2, <2>3, <2>6 DEF InsertOK, CountOK, StatementIsComplete, NoReply
  <2> QED
    BY <2>11, <2>12
<1>4. CASE InsertExhausted \/ CorruptIndex
  BY <1>4, FailedReply DEF InsertExhausted, CorruptIndex
<1>5. CASE UpdateKills \/ UNCHANGED vars
  <2>1. UNCHANGED <<stmt, reply, lastTrid>>
    BY <1>5 DEF UpdateKills, vars
  <2>2. ScanOK'
    BY <1>0, <1>1, <2>1 DEF ScanOK
  <2> QED
    BY <1>0, <2>1, <2>2 DEF InsertOK, CountOK, StatementIsComplete
<1>6. CASE EndStatement
  <2>1. /\ stmt' = NoStatement
        /\ reply' = [ok |-> TRUE, affected |-> stmt.done, touched |-> stmt.touched,
                     target |-> stmt.target, crossed |-> stmt.crossed]
    BY <1>6 DEF EndStatement, Finish
  <2>2. \/ stmt.kind = "insert"
        \/ stmt.kind \in {"update", "delete"} /\ stmt.cur = 0
    BY <1>6 DEF EndStatement
  <2>3. /\ stmt.touched \subseteq stmt.target
        /\ \A t \in stmt.target \ stmt.touched : Missable(t, stmt.crossed)
    BY <1>0, <2>2 DEF ScanOK, InsertOK
  <2>4. stmt.done = Cardinality(stmt.touched)
    <3>1. stmt # NoStatement
      BY <2>2 DEF NoStatement
    <3> QED
      BY <1>0, <3>1 DEF CountOK
  <2> QED
    BY <2>1, <2>3, <2>4, Finished DEF StatementIsComplete, Missable
<1>7. CASE Skip
  <2>w. PICK wraps \in BOOLEAN : wraps <=> Wraps(stmt.cur)
    OBVIOUS
  <2>1. /\ stmt.kind \in {"update", "delete"} /\ stmt.cur \in Present
        /\ ~Fits(stmt.where, stmt.cur) /\ reply' = reply
        /\ stmt' = [stmt EXCEPT !.cur = NextKey(stmt.cur),
                                !.crossed = stmt.crossed \cup (IF wraps THEN {stmt.cur} ELSE {})]
    BY <1>7, <2>w DEF Skip, OnRow
  <2>2. stmt \in ScanStatement
    BY <2>1 DEF HistoryInv, StatementOK, NoStatement, InsertStatement
  <2>3. PICK u \in Trids : u = stmt.cur /\ u # 0
    BY <2>1 DEF Present, Trids
  <2>4. u \notin stmt.target
    <3>1. u >= stmt.cur
      BY <2>3 DEF Trids
    <3> QED
      BY <1>0, <2>1, <2>3, <3>1 DEF ScanOK
  <2>5. PICK n : n = NextKey(u)
    OBVIOUS
  <2>6. n = NextKey(u)'
    BY <1>0, <2>5 DEF NextKey, KeyAfter, Present
  <2>7. /\ stmt'.kind = stmt.kind /\ stmt'.cur = n /\ stmt'.where = stmt.where
        /\ stmt'.target = stmt.target /\ stmt'.touched = stmt.touched
        /\ stmt'.done = stmt.done
        /\ stmt'.crossed = stmt.crossed \cup (IF wraps THEN {stmt.cur} ELSE {})
    BY <2>1, <2>2, <2>3, <2>5 DEF ScanStatement
  <2>c. stmt.crossed \subseteq stmt'.crossed /\ (Wraps(u)' => u \in stmt'.crossed)
    <3>1. Wraps(u)' <=> wraps
      BY <1>0, <2>w, <2>3 DEF Wraps, Present
    <3> QED
      BY <2>3, <2>7, <3>1
  <2>8. stmt'.touched = stmt.touched \cup ({u} \cap stmt.target)
    BY <2>4, <2>7
  <2>9. ScanOK'
    <3>1. \A t \in Trids : t > u =>
            /\ index'[t] # 0 <=> index[t] # 0
            /\ index[t] # 0 => (Fits(stmt.where, t)' <=> Fits(stmt.where, t))
      <4>1. PICK w : w = stmt.where
        OBVIOUS
      <4>2. \A t \in Trids : Fits(w, t)' <=> Fits(stmt.where, t)
        BY <1>1, <4>1
      <4>3. stmt'.where = w
        BY <2>7, <4>1
      <4> QED
        BY <1>0, <4>2, <4>3
    <3> QED
      BY <1>0, <2>1, <2>3, <2>6, <2>7, <2>8, <2>c, <3>1, ScanMoves
  <2>10. InsertOK' /\ CountOK' /\ StatementIsComplete'
    <3>1. stmt # NoStatement
      BY <2>1 DEF NoStatement
    <3> QED
      BY <1>0, <2>1, <2>7, <3>1 DEF InsertOK, CountOK, StatementIsComplete
  <2> QED
    BY <2>9, <2>10
<1> QED
  BY <1>2, <1>3, <1>4, <1>5, <1>6, <1>7

\* One row of an INSERT.
LEMMA InsertScan ==
  ASSUME HistoryInv, ScanInv, ~damaged, InsertStep, torn' = {}
  PROVE  ScanOK' /\ InsertOK' /\ CountOK' /\ StatementIsComplete'
<1>1. PICK n \in Trids :
         /\ n = lastTrid + 1 /\ n = lastTrid' /\ torn = {} /\ UNCHANGED damaged
         /\ stmt.kind = "insert"
         /\ \/ Finish(FALSE)
            \/ /\ stmt' = [stmt EXCEPT !.done = @ + 1, !.touched = @ \cup {n},
                                       !.target = @ \cup {n}]
               /\ UNCHANGED reply
  BY InsertShape
<1>2. CASE Finish(FALSE)
  BY <1>2, FailedReply
<1>3. CASE /\ stmt' = [stmt EXCEPT !.done = @ + 1, !.touched = @ \cup {n},
                                   !.target = @ \cup {n}]
           /\ UNCHANGED reply
  <2>1. InsertOK /\ CountOK /\ StatementIsComplete
    BY <1>1 DEF ScanInv
  <2>2. stmt \in InsertStatement
    BY <1>1 DEF HistoryInv, StatementOK, NoStatement, ScanStatement
  <2>3. /\ stmt'.kind = "insert" /\ stmt'.done = stmt.done + 1
        /\ stmt'.touched = stmt.touched \cup {n} /\ stmt'.target = stmt.target \cup {n}
    BY <1>3, <2>2 DEF InsertStatement
  <2>4. lastTrid \in Nat /\ stmt.touched \subseteq Trids
    BY <2>2 DEF HistoryInv, IndexOK, InsertStatement
  <2>5. stmt.touched = stmt.target /\ \A t \in stmt.touched : t <= lastTrid
    BY <1>1, <2>1 DEF InsertOK
  <2>6. n \notin stmt.touched /\ \A t \in stmt.touched \cup {n} : t <= n
    BY <1>1, <2>4, <2>5 DEF Trids
  <2>7. stmt # NoStatement
    BY <1>1 DEF NoStatement
  <2>8. stmt'.done = Cardinality(stmt'.touched)
    BY <2>1, <2>3, <2>4, <2>6, <2>7, OneMoreTouched DEF CountOK
  <2>9. StatementIsComplete'
    BY <1>1, <1>3, <2>1 DEF StatementIsComplete
  <2> QED
    BY <1>1, <2>3, <2>5, <2>6, <2>8, <2>9 DEF ScanOK, InsertOK, CountOK
<1> QED
  BY <1>1, <1>2, <1>3

\* One row of an UPDATE or DELETE: the cursor goes on in the index that the row has left.
LEMMA RowScan ==
  ASSUME HistoryInv, RowsInv, ScanInv, ~damaged, UpdateStep \/ DeleteStep,
         torn = {}, torn' = {}, ~damaged', RowsInv', EndsExact', stale' = {}
  PROVE  ScanOK' /\ InsertOK' /\ CountOK' /\ StatementIsComplete'
<1>0. /\ OwnRecords /\ stale = {} /\ ScanOK /\ CountOK /\ StatementIsComplete
  BY DEF ScanInv
<1>1. PICK u \in Trids :
         /\ u = stmt.cur /\ index[u] # 0 /\ stmt.kind \in {"update", "delete"}
         /\ \/ Finish(FALSE)
            \/ /\ Advance /\ UNCHANGED <<reply, damaged>>
               /\ \A t \in Trids : t # u => want'[t] = want[t]
               /\ \/ index' = [index EXCEPT ![u] = master.len + 1]
                  \/ index' = [index EXCEPT ![u] = 0]
  BY <1>0, RowShape
<1>2. CASE Finish(FALSE)
  BY <1>2, FailedReply
<1>3. CASE /\ Advance /\ UNCHANGED <<reply, damaged>>
           /\ \A t \in Trids : t # u => want'[t] = want[t]
           /\ \/ index' = [index EXCEPT ![u] = master.len + 1]
              \/ index' = [index EXCEPT ![u] = 0]
  <2>1. stmt \in ScanStatement
    BY <1>1 DEF HistoryInv, StatementOK, NoStatement, InsertStatement
  <2>2. PICK n : n = NextKey(u)'
    OBVIOUS
  <2>w. PICK wraps \in BOOLEAN : wraps <=> Wraps(u)'
    OBVIOUS
  <2>3. stmt' = [stmt EXCEPT !.cur = n, !.done = stmt.done + 1,
                             !.touched = stmt.touched \cup {u},
                             !.crossed = stmt.crossed \cup (IF wraps THEN {u} ELSE {})]
    <3>1. PICK t \in {stmt.cur} :
            stmt' = [stmt EXCEPT !.cur = NextKey(t)', !.done = @ + 1, !.touched = @ \cup {t},
                                 !.crossed = @ \cup (IF Wraps(t)' THEN {t} ELSE {})]
      BY <1>3 DEF Advance
    <3>2. t = u
      BY <1>1, <3>1
    <3> QED
      BY <2>2, <2>w, <3>1, <3>2
  <2>4. /\ stmt'.kind = stmt.kind /\ stmt'.cur = n /\ stmt'.where = stmt.where
        /\ stmt'.target = stmt.target /\ stmt'.touched = stmt.touched \cup {u}
        /\ stmt'.done = stmt.done + 1
        /\ stmt'.crossed = stmt.crossed \cup (IF wraps THEN {u} ELSE {})
    BY <2>1, <2>3 DEF ScanStatement
  <2>c. stmt.crossed \subseteq stmt'.crossed /\ (Wraps(u)' => u \in stmt'.crossed)
    BY <2>4, <2>w
  <2>5. u # 0 /\ u \in Nat
    BY DEF Trids
  <2>6. Fits(stmt.where, u)
    BY <1>1 DEF UpdateStep, DeleteStep
  <2>7. u \in stmt.target /\ u \notin stmt.touched
    <3>1. /\ \A t \in stmt.touched : t < u
          /\ \A t \in Trids : t >= u => (t \in stmt.target <=> index[t] # 0 /\ Fits(stmt.where, t))
      BY <1>0, <1>1, <2>5 DEF ScanOK
    <3>2. u >= u /\ ~(u < u)
      BY <2>5
    <3> QED
      BY <1>1, <2>6, <3>1, <3>2
  <2>8. stmt'.touched = stmt.touched \cup ({u} \cap stmt.target)
    BY <2>4, <2>7
  <2>9. ASSUME NEW t \in Trids, t > u
        PROVE  /\ index'[t] # 0 <=> index[t] # 0
               /\ index[t] # 0 => (Fits(stmt.where, t)' <=> Fits(stmt.where, t))
    <3>1. t # u
      BY <2>5, <2>9
    <3>2. index'[t] = index[t] /\ want'[t] = want[t]
      BY <1>3, <3>1 DEF HistoryInv, IndexOK
    <3>3. ASSUME index[t] # 0 PROVE Fits(stmt.where, t)' <=> Fits(stmt.where, t)
      <4>1. PICK w : w = stmt.where
        OBVIOUS
      <4>2. Fits(w, t) <=> (w = Null \/ want[t][1] = w)
        BY <1>0, <3>3, FitsWant
      <4>3. Fits(w, t)' <=> (w = Null \/ want'[t][1] = w)
        <5>1. index'[t] # 0 /\ RowHolds(t)'
          BY <3>2, <3>3 DEF RowsInv, ColumnsHold
        <5>2. 1 \in Columns
          BY SizeAssumption DEF Columns
        <5>3. ValueAt(1, RecordOf(t).addr[1])' = want'[t][1]
          BY <5>1, <5>2 DEF RowHolds
        <5> QED
          BY <5>3 DEF Fits
      <4>4. Fits(w, t)' <=> Fits(w, t)
        BY <3>2, <4>2, <4>3
      <4>5. stmt'.where = w
        BY <2>4, <4>1
      <4> QED
        BY <4>1, <4>4, <4>5
    <3> QED
      BY <3>2, <3>3
  <2>10. ScanOK'
    BY <1>0, <1>1, <2>2, <2>4, <2>8, <2>9, <2>c, ScanMoves
  <2>11. CountOK'
    <3>1. stmt # NoStatement
      BY <1>1 DEF NoStatement
    <3>2. stmt.done = Cardinality(stmt.touched) /\ stmt.touched \subseteq Trids
      BY <1>0, <2>1, <3>1 DEF CountOK, ScanStatement
    <3> QED
      BY <2>4, <2>7, <3>2, OneMoreTouched DEF CountOK
  <2>12. InsertOK'
    BY <1>1, <2>4 DEF InsertOK
  <2>13. StatementIsComplete'
    BY <1>0, <1>3 DEF StatementIsComplete
  <2> QED
    BY <2>10, <2>11, <2>12, <2>13
<1> QED
  BY <1>1, <1>2, <1>3

\* Every step keeps the account of the statement.
LEMMA NextScan ==
  ASSUME HistoryInv, RowsInv, ScanInv, [Next]_vars
  PROVE  ScanInv'
<1>1. ASSUME torn' = {} PROVE torn = {} /\ OwnRecords' /\ stale' = {} /\ EndsExact'
  BY <1>1, KeysStep DEF ScanInv
<1>2. ASSUME ~damaged' PROVE ~damaged
  BY <1>2 DEF Next, BeginInsert, BeginScan, InsertStep, InsertExhausted, CorruptIndex, Skip,
              UpdateStep, UpdateRowFails, UpdateKills, DeleteStep, EndStatement, vars
<1>3. RowsInv'
  BY NextRows
<1>4. ASSUME torn' = {}, ~damaged'
      PROVE  ScanOK' /\ InsertOK' /\ CountOK' /\ StatementIsComplete'
  <2>1. CASE \/ BeginInsert \/ BeginScan("update") \/ BeginScan("delete") \/ InsertExhausted
             \/ CorruptIndex \/ Skip \/ UpdateKills \/ EndStatement \/ UNCHANGED vars
    BY <1>1, <1>2, <1>4, <2>1, QuietScan
  <2>2. CASE InsertStep
    BY <1>2, <1>4, <2>2, InsertScan
  <2>3. CASE UpdateStep \/ DeleteStep
    BY <1>1, <1>2, <1>3, <1>4, <2>3, RowScan
  <2> QED
    BY <2>1, <2>2, <2>3 DEF Next
<1>5. StatementIsComplete'
  <2>1. CASE torn' = {} /\ ~damaged'
    BY <1>4, <2>1
  <2>2. CASE ~(torn' = {} /\ ~damaged')
    BY <2>2 DEF StatementIsComplete
  <2> QED
    BY <2>1, <2>2
<1> QED
  BY <1>1, <1>4, <1>5 DEF ScanInv

\* An empty table satisfies the invariant.
LEMMA InitScan ==
  ASSUME Init
  PROVE  ScanInv
<1>1. Present = {}
  BY DEF Init, Present
<1> QED
  BY <1>1 DEF Init, ScanInv, OwnRecords, EndsExact, ScanOK, InsertOK, CountOK, NoStatement,
              StatementIsComplete, NoReply

\* executeUpdateRequest and executeDeleteRequest: a statement that succeeds has changed
\* only rows that its WHERE selected when it began, once each, although it changes the
\* index that its cursor walks along, and it has missed none but those among the N row
\* IDs after the last record of an index file in which it left a row; INSERT likewise
\* reports the rows it made.
THEOREM StatementsAreComplete == Spec => []StatementIsComplete
<1>1. Init => HistoryInv /\ RowsInv /\ ScanInv
  BY InitHistory, InitRows, InitScan
<1>2. HistoryInv /\ RowsInv /\ ScanInv /\ [Next]_vars => HistoryInv' /\ RowsInv' /\ ScanInv'
  BY NextHistory, NextRows, NextScan
<1>3. ScanInv => StatementIsComplete
  BY DEF ScanInv
<1> QED
  BY <1>1, <1>2, <1>3, PTL DEF Spec

=============================================================================
