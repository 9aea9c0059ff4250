------------------------- MODULE TextColumnProofs -------------------------
(***************************************************************************)
(* Proofs about TextColumn.                                                *)
(*                                                                         *)
(* IInv says of a text that can be read that its chunks lie before the     *)
(* position of their blocks, and that each is linked to one in a later     *)
(* block or is the last; of the text being written that its chunks so far  *)
(* have this form, but for the last one.  A write touches only bytes from  *)
(* the position on, and a rollback moves the position back to the start of *)
(* the last text, before which all others end (BeforeFresh).  Reading goes *)
(* from block to later block and therefore ends.                           *)
(***************************************************************************)
EXTENDS TextColumn, FiniteSetTheorems, SequenceTheorems, NaturalsInduction,
        WellFoundedInduction, TLAPS

-----------------------------------------------------------------------------
(* The invariant.                                                          *)

Address == Nat \X Nat
ChunkType == [text : Nat, from : Nat, remaining : Nat, length : Nat, ok : BOOLEAN, next : Address]
WritingType == [text : Nat, kind : {"string", "stream"}, len : Nat, left : Nat, first : Nat, at : Nat,
                block : Nat, header : Address, lost : BOOLEAN]
TextType == [len : Nat, at : Address, kind : {"string", "stream", "failed", "undone"}, lost : BOOLEAN]

End(a) == a[2] + HeaderSize + chunks[a].length

(* The chunks of text t.                                                   *)
Own(t) == {a \in DOMAIN chunks : chunks[a].text = t}

TypeOK ==
  /\ pos \in Seq(Nat) /\ Len(pos) <= MaxBlocks /\ \A b \in 1..Len(pos) : pos[b] <= AreaSize
  /\ DOMAIN chunks \subseteq Address /\ \A a \in DOMAIN chunks : chunks[a] \in ChunkType
  /\ DOMAIN avail \subseteq 1..Len(pos)
  /\ texts \in Seq(TextType)
  /\ writing = Nothing \/ writing \in WritingType
  /\ fresh \in BOOLEAN

(* Chunks are in blocks, and belong to texts up to the one being written.  *)
ChunksOK ==
  \A a \in DOMAIN chunks :
    /\ a[1] \in 1..Len(pos)
    /\ chunks[a].text <= Len(texts) \/ (writing # Nothing /\ chunks[a].text = writing.text)

(* A chunk of a text of len bytes that starts at start.                    *)
ChunkOK(a, start, len) ==
  /\ chunks[a].ok /\ End(a) <= pos[a[1]]
  /\ chunks[a].remaining <= len /\ chunks[a].from = len - chunks[a].remaining
  /\ chunks[a].length <= chunks[a].remaining
  /\ a = start \/ (a[1] > start[1] /\ chunks[a].length > 0)

(* The chunk has a successor in a later block.                             *)
Linked(a) ==
  LET b == chunks[a].next
  IN /\ b \in DOMAIN chunks /\ b[1] > a[1] /\ chunks[b].text = chunks[a].text
     /\ chunks[b].remaining = chunks[a].remaining - chunks[a].length

Last(a) == chunks[a].next = NoAddress /\ chunks[a].length = chunks[a].remaining

StartOK(t, start, len) ==
  /\ start \in Own(t) /\ chunks[start].remaining = len /\ start[2] + HeaderSize <= AreaSize

Good(t) == texts[t].kind = "string" /\ ~texts[t].lost

TextOK(t) ==
  /\ StartOK(t, texts[t].at, texts[t].len)
  /\ \A a \in Own(t) : ChunkOK(a, texts[t].at, texts[t].len) /\ (Linked(a) \/ Last(a))

Start == <<writing.first, writing.at>>

(* A text of which no chunk is written yet.                                *)
Unwritten ==
  /\ Own(writing.text) = {} /\ writing.left = writing.len
  /\ writing.block = writing.first /\ pos[writing.block] = writing.at

(* A text with its chunks so far; it goes on in a new block, if at all.    *)
Partial ==
  LET h == writing.header IN
  /\ StartOK(writing.text, Start, writing.len)
  /\ \A a \in Own(writing.text) : ChunkOK(a, Start, writing.len) /\ (a = h \/ Linked(a))
  /\ h \in Own(writing.text) /\ chunks[h].remaining - chunks[h].length = writing.left
  /\ \/ /\ writing.block = h[1] /\ chunks[h].next = NoAddress
        /\ writing.left > 0 => pos[writing.block] = AreaSize
     \/ /\ writing.block > h[1] /\ chunks[h].next = <<writing.block, 0>>
        /\ pos[writing.block] = 0 /\ writing.left > 0

WritingOK ==
  writing # Nothing =>
    /\ writing.text = Len(texts) + 1 /\ ~fresh
    /\ writing.block \in 1..Len(pos) /\ writing.first \in 1..Len(pos) /\ writing.at <= AreaSize
    /\ writing.left <= writing.len
    /\ writing.header \in DOMAIN chunks => chunks[writing.header].text = writing.text
    /\ ~writing.lost => IF writing.header = NoAddress THEN Unwritten ELSE Partial

(* Older texts end where the text begins that may be rolled back.          *)
Before(start) ==
  \A t \in 1..Len(texts) : Good(t) =>
     \A a \in Own(t) : a[1] = start[1] => End(a) <= start[2]

BeforeFresh ==
  fresh =>
    /\ texts # <<>> /\ texts[Len(texts)].at[2] <= AreaSize
    /\ \A t \in 1..(Len(texts) - 1) : Good(t) =>
         \A a \in Own(t) : a[1] = texts[Len(texts)].at[1] => End(a) <= texts[Len(texts)].at[2]

BeforeWriting == writing # Nothing => Before(Start)

TextsOK == \A t \in 1..Len(texts) : Good(t) => TextOK(t)

IInv == TypeOK /\ ChunksOK /\ TextsOK /\ WritingOK /\ BeforeWriting /\ BeforeFresh

-----------------------------------------------------------------------------
(* Helpers.                                                                *)

(* What the assumptions say of the sizes: a block has room for a header and*)
(* more.                                                                   *)
LEMMA Sizes ==
  /\ AreaSize \in Nat /\ HeaderSize \in Nat \ {0} /\ HeaderSize < AreaSize
  /\ MinRequired \in Nat /\ MinRequired < HeaderSize /\ MaxBlocks \in Nat /\ Lengths \subseteq Nat
BY SizeAssumption, LengthAssumption, BoundAssumption

(* A set of natural numbers has a least one.                               *)
LEMMA LeastNat ==
  ASSUME NEW T, T \subseteq Nat, T # {}
  PROVE  \E x \in T : \A y \in T : x <= y
<1> DEFINE R == {p \in Nat \X Nat : p[1] < p[2]}
<1>1. IsWellFoundedOn(R, Nat)
  BY NatLessThanWellFounded, Zenon DEF OpToRel
<1>2. \E x \in T : \A y \in T : ~(<<y, x>> \in R)
  <2> HIDE DEF R
  <2> QED
    BY <1>1, WFMin, Zenon
<1>3. ASSUME NEW x \in T, NEW y \in T, ~(x <= y)
      PROVE  <<y, x>> \in R
  <2>1. <<y, x>> \in Nat \X Nat /\ <<y, x>>[1] < <<y, x>>[2]
    BY <1>3
  <2> QED
    BY <2>1, Zenon
<1> HIDE DEF R
<1> QED
  BY <1>2, <1>3, Zenon

(* The first block of a set of blocks is one of them.                      *)
LEMMA MinOfBlocks ==
  ASSUME NEW S \in SUBSET Nat, S # {}
  PROVE  Min(S) \in S
BY LeastNat DEF Min

(* The smaller of two numbers.                                             *)
LEMMA MinOfTwo ==
  ASSUME NEW m \in Int, NEW n \in Int
  PROVE  Min({m, n}) = IF m <= n THEN m ELSE n
<1> DEFINE S == {m, n}
           x == IF m <= n THEN m ELSE n
<1>1. x \in S /\ \A y \in S : x <= y
  OBVIOUS
<1>2. \A z \in S : (\A y \in S : z <= y) => z = x
  OBVIOUS
<1>3. Min(S) = CHOOSE z \in S : \A y \in S : z <= y
  BY DEF Min
<1> HIDE DEF S, x
<1>4. Min(S) = x
  BY <1>1, <1>2, <1>3
<1> QED
  BY <1>4 DEF S, x

(* Induction, for a property given as a set.                               *)
LEMMA SetInduction ==
  ASSUME NEW S, 1 \in S, \A n \in Nat \ {0} : n \in S => n + 1 \in S
  PROVE  \A n \in Nat \ {0} : n \in S
<1> DEFINE T == (Nat \ {0}) \ S
<1> SUFFICES ASSUME T # {} PROVE FALSE
  OBVIOUS
<1>1. PICK x \in T : \A y \in T : x <= y
  <2>1. T \subseteq Nat
    OBVIOUS
  <2> HIDE DEF T
  <2> QED
    BY <2>1, LeastNat
<1>2. x # 1 /\ x \in Nat \ {0}
  OBVIOUS
<1>3. x - 1 \in Nat \ {0} /\ ~(x <= x - 1) /\ (x - 1) + 1 = x
  BY <1>2
<1>4. x - 1 \in S
  BY <1>1, <1>3
<1>5. x \in S
  BY <1>3, <1>4
<1> QED
  BY <1>5

(* f[k] is F of f[k - 1].                                                  *)
Iterates(f, N, x0, F) == f = [k \in 1..N |-> IF k = 1 THEN x0 ELSE F[f[k - 1]]]

(* The function defined by such a recursion exists.                        *)
LEMMA RecursionExists ==
  ASSUME NEW D, NEW x0 \in D, NEW N \in Nat \ {0}, NEW F \in [D -> D]
  PROVE  \E f \in [1..N -> D] : Iterates(f, N, x0, F)
<1> DEFINE Fits(n, f) == /\ f \in [1..n -> D] /\ f[1] = x0
                         /\ \A i \in 2..n : f[i] = F[f[i - 1]]
           S == {n \in Nat \ {0} : \E f : Fits(n, f)}
<1>1. 1 \in S
  <2>1. PICK g : g = [i \in 1..1 |-> x0]
    OBVIOUS
  <2>2. Fits(1, g)
    BY <2>1
  <2> HIDE DEF Fits
  <2> QED
    BY <2>2
<1>2. ASSUME NEW n \in Nat \ {0}, n \in S PROVE n + 1 \in S
  <2>1. PICK f : Fits(n, f)
    BY <1>2
  <2> DEFINE g == [i \in 1..(n + 1) |-> IF i = n + 1 THEN F[f[n]] ELSE f[i]]
  <2>2. /\ n \in 1..n /\ 1 \in 1..n /\ 1 \in 1..(n + 1) /\ 1 # n + 1
        /\ \A i \in 1..(n + 1) : i = n + 1 \/ i \in 1..n
        /\ \A i \in 2..(n + 1) : /\ i - 1 \in 1..n /\ i - 1 \in 1..(n + 1) /\ i - 1 # n + 1
                                 /\ i \in 1..(n + 1)
                                 /\ i = n + 1 \/ i \in 2..n
    OBVIOUS
  <2>3. F[f[n]] \in D
    BY <2>1, <2>2
  <2>4. g \in [1..(n + 1) -> D] /\ g[1] = x0
    BY <2>1, <2>2, <2>3
  <2>5. ASSUME NEW i \in 2..(n + 1) PROVE g[i] = F[g[i - 1]]
    <3>1. g[i - 1] = f[i - 1] /\ i \in 1..(n + 1)
      BY <2>2
    <3>2. CASE i = n + 1
      <4>1. i - 1 = n
        BY <3>2
      <4> QED
        BY <3>1, <3>2, <4>1
    <3>3. CASE i # n + 1
      BY <2>1, <2>2, <3>1, <3>3
    <3> QED
      BY <3>2, <3>3
  <2>6. Fits(n + 1, g)
    BY <2>4, <2>5
  <2>7. n + 1 \in Nat \ {0}
    OBVIOUS
  <2> HIDE DEF Fits, g
  <2> QED
    BY <2>6, <2>7
<1>3. N \in S
  <2> HIDE DEF S
  <2> QED
    BY <1>1, <1>2, SetInduction
<1>4. PICK f : Fits(N, f)
  BY <1>3
<1>5. Iterates(f, N, x0, F)
  <2>1. \A i \in 1..N : i = 1 \/ i \in 2..N
    OBVIOUS
  <2>2. \A i \in 1..N : f[i] = IF i = 1 THEN x0 ELSE F[f[i - 1]]
    BY <1>4, <2>1
  <2> QED
    BY <1>4, <2>2 DEF Iterates
<1> QED
  BY <1>4, <1>5

-----------------------------------------------------------------------------
(* Reading.  The chunks from an address on, without recursion.             *)
Follow(f, a) ==
  /\ f \in [1..(MaxBlocks + 1) -> Address] /\ f[1] = a
  /\ \A k \in 2..(MaxBlocks + 1) :
       f[k] = IF f[k - 1] \in DOMAIN chunks THEN chunks[f[k - 1]].next ELSE NoAddress

Reached(f) == {k \in 1..(MaxBlocks + 1) : \A j \in 1..k : f[j] \in DOMAIN chunks}

(* Chain(a), which is defined by recursion, follows the links from a on.   *)
LEMMA ChainFollows ==
  ASSUME TypeOK, NEW a \in Address
  PROVE  \E f : /\ Follow(f, a)
                /\ Chain(a) = [k \in 1..Cardinality(Reached(f)) |-> chunks[f[k]]]
<1> DEFINE N == MaxBlocks + 1
           F == [d \in Address |-> IF d \in DOMAIN chunks THEN chunks[d].next ELSE NoAddress]
           Rec(f) == [k \in 1..N |->
                        IF k = 1 THEN a
                        ELSE IF f[k - 1] \in DOMAIN chunks THEN chunks[f[k - 1]].next ELSE NoAddress]
<1>1. N \in Nat \ {0}
  BY Sizes
<1>2. F \in [Address -> Address]
  BY DEF TypeOK, ChunkType, NoAddress, Address
<1>3. PICK f \in [1..N -> Address] : Iterates(f, N, a, F)
  <2> HIDE DEF N, F
  <2> QED
    BY <1>1, <1>2, RecursionExists, Zenon
<1>4. f = Rec(f)
  <2>1. \A k \in 1..N : k # 1 => k - 1 \in 1..N
    BY <1>1
  <2>2. \A k \in 1..N : k # 1 => F[f[k - 1]] =
            IF f[k - 1] \in DOMAIN chunks THEN chunks[f[k - 1]].next ELSE NoAddress
    BY <1>3, <2>1
  <2> HIDE DEF N, F
  <2> QED
    BY <1>3, <2>2 DEF Iterates
<1> DEFINE g == CHOOSE f_1 : f_1 = Rec(f_1)
<1>5. Chain(a) = [k \in 1..Cardinality(Reached(g)) |-> chunks[g[k]]]
  BY DEF Chain, Reached
<1>6. g = Rec(g)
  <2> HIDE DEF Rec
  <2> QED
    BY <1>4, Zenon
<1> HIDE DEF g
<1>7. \A k \in 1..N : g[k] = f[k]
  <2> DEFINE S == {k \in Nat \ {0} : k <= N => g[k] = f[k]}
  <2>1. 1 \in S
    BY <1>1, <1>4, <1>6
  <2>2. ASSUME NEW n \in Nat \ {0}, n \in S PROVE n + 1 \in S
    <3> SUFFICES ASSUME n + 1 <= N PROVE g[n + 1] = f[n + 1]
      OBVIOUS
    <3>1. n + 1 \in 1..N /\ n + 1 # 1 /\ (n + 1) - 1 = n /\ g[n] = f[n]
      BY <1>1, <2>2
    <3>2. g[n + 1] = IF g[n] \in DOMAIN chunks THEN chunks[g[n]].next ELSE NoAddress
      <4>1. g[n + 1] = Rec(g)[n + 1]
        BY <1>6, Zenon
      <4> HIDE DEF N
      <4> QED
        BY <3>1, <4>1
    <3>3. f[n + 1] = IF f[n] \in DOMAIN chunks THEN chunks[f[n]].next ELSE NoAddress
      <4>1. f[n + 1] = Rec(f)[n + 1]
        BY <1>4, Zenon
      <4> HIDE DEF N
      <4> QED
        BY <3>1, <4>1
    <3> QED
      BY <3>1, <3>2, <3>3, Zenon
  <2>3. \A k \in Nat \ {0} : k \in S
    <3> HIDE DEF S
    <3> QED
      BY <2>1, <2>2, SetInduction
  <2> QED
    BY <1>1, <2>3
<1>8. g \in [1..N -> Address]
  <2>1. g = [k \in 1..N |-> g[k]]
    BY <1>6
  <2> QED
    BY <1>3, <1>7, <2>1
<1>9. Follow(g, a)
  <2>1. \A k \in 2..N : k \in 1..N /\ k # 1
    BY <1>1
  <2>2. 1 \in 1..N
    BY <1>1
  <2>3. g[1] = a
    BY <1>6, <2>2
  <2>4. \A k \in 2..N :
          g[k] = IF g[k - 1] \in DOMAIN chunks THEN chunks[g[k - 1]].next ELSE NoAddress
    BY <1>6, <2>1
  <2> QED
    BY <1>8, <2>3, <2>4 DEF Follow
<1> QED
  BY <1>5, <1>9

(* Down-closed sets of positions are intervals.                            *)
LEMMA ReachedIsInterval ==
  ASSUME NEW f, 1 \in Reached(f), MaxBlocks + 1 \notin Reached(f)
  PROVE  \E m \in 1..MaxBlocks : /\ Reached(f) = 1..m /\ Cardinality(Reached(f)) = m
                                 /\ f[m + 1] \notin DOMAIN chunks
<1>0. MaxBlocks \in Nat
  BY Sizes
<1> DEFINE T == (1..(MaxBlocks + 1)) \ Reached(f)
<1>1. PICK x \in T : \A y \in T : x <= y
  <2>1. T \subseteq Nat /\ MaxBlocks + 1 \in T
    BY <1>0
  <2> HIDE DEF T
  <2> QED
    BY <2>1, LeastNat
<1>2. x \in 2..(MaxBlocks + 1) /\ x - 1 \in 1..MaxBlocks
  BY <1>0
<1>3. \A k \in 1..(x - 1) : k \in Reached(f)
  <2> SUFFICES ASSUME NEW k \in 1..(x - 1) PROVE k \in Reached(f)
    OBVIOUS
  <2>1. k \in 1..(MaxBlocks + 1) /\ ~(x <= k)
    BY <1>0, <1>2
  <2> QED
    BY <1>1, <2>1
<1>4. ASSUME NEW k \in Reached(f) PROVE k \in 1..(x - 1)
  <2> SUFFICES ASSUME k >= x PROVE FALSE
    BY <1>0, <1>2 DEF Reached
  <2>1. \A j \in 1..x : j \in 1..k
    BY <1>0, <1>2 DEF Reached
  <2>2. x \in Reached(f)
    BY <1>0, <1>2, <2>1 DEF Reached
  <2> QED
    BY <1>1, <2>2
<1>5. Reached(f) = 1..(x - 1)
  BY <1>3, <1>4
<1>6. Cardinality(1..(x - 1)) = x - 1
  <2>1. 1 \in Int /\ x - 1 \in Int /\ 1 <= x - 1
    BY <1>2
  <2>2. Cardinality(1..(x - 1)) = (x - 1) - 1 + 1
    BY <2>1, FS_Interval
  <2> QED
    BY <1>2, <2>2
<1>7. f[x] \notin DOMAIN chunks
  <2> SUFFICES ASSUME f[x] \in DOMAIN chunks PROVE FALSE
    OBVIOUS
  <2>1. x - 1 \in Reached(f)
    BY <1>2, <1>3
  <2>2. \A j \in 1..x : j = x \/ j \in 1..(x - 1)
    BY <1>2
  <2>3. \A j \in 1..x : f[j] \in DOMAIN chunks
    BY <2>1, <2>2 DEF Reached
  <2>4. x \in Reached(f)
    BY <1>2, <2>3 DEF Reached
  <2> QED
    BY <1>1, <2>4
<1>8. (x - 1) + 1 = x
  BY <1>2
<1> QED
  BY <1>2, <1>5, <1>6, <1>7, <1>8, Zenon

(* What IInv says of a text makes it readable.                             *)
LEMMA Reading ==
  ASSUME TypeOK, ChunksOK, NEW t \in 1..Len(texts), TextOK(t)
  PROVE  EndsInLastBlock(t) \/ ReadsBack(t)
<1>0. /\ MaxBlocks \in Nat /\ HeaderSize \in Nat /\ AreaSize \in Nat
      /\ MinRequired \in Nat /\ MinRequired < HeaderSize
  BY Sizes
<1>1. texts[t] \in TextType /\ texts[t].at \in Address /\ texts[t].len \in Nat /\ Len(pos) \in Nat
      /\ Len(pos) <= MaxBlocks
  <2>1. texts[t] \in TextType
    BY DEF TypeOK
  <2>2. texts[t].at \in Address /\ texts[t].len \in Nat
    BY <2>1 DEF TextType
  <2>3. Len(pos) \in Nat /\ Len(pos) <= MaxBlocks
    BY DEF TypeOK
  <2> QED
    BY <2>1, <2>2, <2>3
<1>2. PICK at \in Address : at = texts[t].at
  BY <1>1, Zenon
<1>3. PICK f : /\ Follow(f, at)
               /\ Chain(at) = [k \in 1..Cardinality(Reached(f)) |-> chunks[f[k]]]
  BY ChainFollows, Zenon
<1>4. at \in Own(t) /\ chunks[at].remaining = texts[t].len /\ at[2] + HeaderSize <= AreaSize
  BY <1>2 DEF TextOK, StartOK
<1>5. \A a \in Own(t) : ChunkOK(a, at, texts[t].len) /\ (Linked(a) \/ Last(a))
  BY <1>2 DEF TextOK
<1>6. \A a \in DOMAIN chunks : /\ a[1] \in 1..Len(pos) /\ a \in Nat \X Nat /\ a # NoAddress
                               /\ chunks[a] \in ChunkType
  BY DEF ChunksOK, TypeOK, Address, NoAddress
<1>7. ASSUME NEW a \in Own(t), chunks[a].next \in DOMAIN chunks
      PROVE  Linked(a)
  <2>1. chunks[a].next # NoAddress
    BY <1>6, <1>7
  <2> QED
    BY <1>5, <2>1 DEF Last
<1>8. \A k \in 1..MaxBlocks : f[k] \in DOMAIN chunks => f[k + 1] = chunks[f[k]].next
  <2> SUFFICES ASSUME NEW k \in 1..MaxBlocks, f[k] \in DOMAIN chunks
               PROVE  f[k + 1] = chunks[f[k]].next
    OBVIOUS
  <2>1. k + 1 \in 2..(MaxBlocks + 1) /\ (k + 1) - 1 = k
    BY <1>0
  <2> QED
    BY <1>3, <2>1 DEF Follow
<1> DEFINE S == {k \in Nat \ {0} : k \in Reached(f) =>
                   /\ f[k] \in Own(t) /\ f[k][1] >= k
                   /\ k > 1 => f[k][1] > at[1]}
<1>9. 1 \in S
  <2>1. f[1] = at
    BY <1>3 DEF Follow
  <2>2. at[1] >= 1
    BY <1>1, <1>4, <1>6 DEF Own
  <2> QED
    BY <1>4, <2>1, <2>2
<1>10. ASSUME NEW n \in Nat \ {0}, n \in S PROVE n + 1 \in S
  <2> SUFFICES ASSUME n + 1 \in Reached(f)
               PROVE  /\ f[n + 1] \in Own(t) /\ f[n + 1][1] >= n + 1
                      /\ f[n + 1][1] > at[1]
    OBVIOUS
  <2>1. n \in 1..MaxBlocks /\ n \in 1..(MaxBlocks + 1) /\ n + 1 \in 1..(n + 1)
        /\ \A j \in 1..n : j \in 1..(n + 1)
    BY <1>0 DEF Reached
  <2>2. n \in Reached(f) /\ f[n] \in DOMAIN chunks /\ f[n + 1] \in DOMAIN chunks
    <3>1. \A j \in 1..(n + 1) : f[j] \in DOMAIN chunks
      BY DEF Reached
    <3>2. n \in 1..(n + 1)
      OBVIOUS
    <3> QED
      BY <2>1, <3>1, <3>2 DEF Reached
  <2>3. f[n] \in Own(t) /\ f[n][1] >= n /\ (n > 1 => f[n][1] > at[1])
    BY <1>10, <2>2
  <2>4. f[n + 1] = chunks[f[n]].next
    BY <1>8, <2>1, <2>2
  <2>5. Linked(f[n])
    BY <1>7, <2>2, <2>3, <2>4
  <2>6. f[n + 1][1] > f[n][1] /\ f[n + 1] \in Own(t)
    BY <2>3, <2>4, <2>5 DEF Linked, Own
  <2>7. f[n + 1][1] \in Nat /\ f[n][1] \in Nat /\ at[1] \in Nat
    BY <1>1, <1>6, <2>2, <1>4 DEF Own
  <2>8. n = 1 => f[n] = at
    BY <1>3 DEF Follow
  <2> QED
    BY <2>3, <2>6, <2>7, <2>8
<1>11. \A k \in Nat \ {0} : k \in S
  <2> HIDE DEF S
  <2> QED
    BY <1>9, <1>10, SetInduction
<1>12. \A k \in Reached(f) : /\ f[k] \in Own(t) /\ f[k][1] >= k
                             /\ k > 1 => f[k][1] > at[1]
  <2>1. \A k \in Reached(f) : k \in Nat \ {0}
    BY <1>0 DEF Reached
  <2> QED
    BY <1>11, <2>1
<1>13. 1 \in Reached(f)
  <2>1. f[1] = at /\ at \in DOMAIN chunks
    BY <1>3, <1>4 DEF Follow, Own
  <2>2. 1 \in 1..(MaxBlocks + 1) /\ \A j \in 1..1 : j = 1
    BY <1>0
  <2> QED
    BY <2>1, <2>2 DEF Reached
<1>14. MaxBlocks + 1 \notin Reached(f)
  <2> SUFFICES ASSUME MaxBlocks + 1 \in Reached(f) PROVE FALSE
    OBVIOUS
  <2>1. f[MaxBlocks + 1] \in DOMAIN chunks /\ f[MaxBlocks + 1][1] >= MaxBlocks + 1
    BY <1>12 DEF Own
  <2>2. f[MaxBlocks + 1][1] \in 1..Len(pos)
    BY <1>6, <2>1
  <2> QED
    BY <1>0, <1>1, <2>1, <2>2
<1>15. PICK m \in 1..MaxBlocks : /\ Reached(f) = 1..m /\ Cardinality(Reached(f)) = m
                                 /\ f[m + 1] \notin DOMAIN chunks
  BY <1>13, <1>14, ReachedIsInterval, Zenon
<1>16. PICK c : c = [k \in 1..m |-> chunks[f[k]]]
  OBVIOUS
<1>17. Chain(texts[t].at) = c
  BY <1>2, <1>3, <1>15, <1>16
<1>18. ASSUME NEW k \in 1..m
       PROVE  /\ c[k] = chunks[f[k]] /\ f[k] \in Own(t) /\ f[k] \in DOMAIN chunks
              /\ ChunkOK(f[k], at, texts[t].len)
              /\ k > 1 => f[k] # at
  <2>1. f[k] \in Own(t) /\ (k > 1 => f[k][1] > at[1])
    BY <1>12, <1>15
  <2>2. at[1] \in Nat
    BY <1>2 DEF Address
  <2> QED
    BY <1>5, <1>16, <2>1, <2>2 DEF Own
<1>19. c \in Seq(ChunkType) /\ Len(c) = m /\ DOMAIN c = 1..m /\ m \in 1..m /\ 1 \in 1..m
  <2>1. m \in Nat /\ \A k \in 1..m : chunks[f[k]] \in ChunkType
    BY <1>0, <1>6, <1>18
  <2>2. c \in [1..m -> ChunkType]
    BY <1>16, <2>1
  <2>3. c \in Seq(ChunkType)
    BY <2>1, <2>2
  <2>4. DOMAIN c = 1..m
    BY <1>16
  <2>5. Len(c) = m
    BY <2>1, <2>3, <2>4
  <2> QED
    BY <1>0, <2>3, <2>4, <2>5
<1>20. c[m].length = c[m].remaining
  <2>1. f[m] \in Own(t) /\ c[m] = chunks[f[m]] /\ f[m] \in DOMAIN chunks
    BY <1>18, <1>19
  <2>2. f[m + 1] = chunks[f[m]].next
    BY <1>8, <2>1
  <2>3. ~Linked(f[m])
    BY <1>15, <2>2 DEF Linked
  <2> QED
    BY <1>5, <2>1, <2>3 DEF Last
<1>21. ASSUME NEW k \in 1..m, k < m
       PROVE  c[k].length + c[k + 1].remaining = c[k].remaining
  <2>1. k + 1 \in 1..m /\ k \in 1..MaxBlocks
    BY <1>0, <1>21
  <2>2. /\ f[k] \in Own(t) /\ c[k] = chunks[f[k]] /\ f[k] \in DOMAIN chunks
        /\ f[k + 1] \in DOMAIN chunks /\ c[k + 1] = chunks[f[k + 1]]
    BY <1>18, <2>1
  <2>3. f[k + 1] = chunks[f[k]].next
    BY <1>8, <2>1, <2>2
  <2>4. Linked(f[k])
    BY <1>7, <2>2, <2>3
  <2>5. c[k + 1].remaining = c[k].remaining - c[k].length
    BY <2>2, <2>3, <2>4 DEF Linked
  <2>6. c[k].remaining \in Nat /\ c[k].length \in Nat
    BY <1>6, <2>2 DEF ChunkType
  <2> QED
    BY <2>5, <2>6
<1>22. ASSUME NEW k \in 1..m
       PROVE  /\ c[k].text = t /\ c[k].ok
              /\ c[k].from = texts[t].len - c[k].remaining
              /\ k > 1 => c[k].length > 0
  BY <1>18 DEF ChunkOK, Own
<1>23. AddressIsValid(at)
  <2>1. at # NoAddress /\ at[2] \in Nat
    BY <1>2, <1>4, <1>6 DEF Own, Address
  <2> QED
    BY <1>0, <1>4, <2>1 DEF AddressIsValid
<1>24. c[1].remaining = texts[t].len
  <2>1. f[1] = at
    BY <1>3 DEF Follow
  <2> QED
    BY <1>4, <1>18, <1>19, <2>1
<1>25. CASE \E k \in 1..m : RefusesLink(c, k)
  <2>1. \E k \in DOMAIN c : RefusesLink(c, k)
    BY <1>19, <1>25, Zenon
  <2> QED
    BY <1>17, <2>1, Zenon DEF EndsInLastBlock
<1>26. CASE \A k \in 1..m : ~RefusesLink(c, k)
  <2>1. c # <<>>
    BY <1>0, <1>19
  <2>2. \A k \in DOMAIN c :
          /\ c[k].text = t /\ c[k].ok
          /\ c[k].from = texts[t].len - c[k].remaining
          /\ k > 1 => c[k].length > 0
          /\ k < Len(c) => c[k].length + c[k + 1].remaining = c[k].remaining
          /\ ~RefusesLink(c, k)
    BY <1>19, <1>21, <1>22, <1>26
  <2>3. c[Len(c)].length = c[Len(c)].remaining
    BY <1>19, <1>20
  <2>4. AddressIsValid(texts[t].at)
    BY <1>2, <1>23
  <2>5. c = Chain(texts[t].at) => ReadsBack(t)
    BY <1>24, <2>1, <2>2, <2>3, <2>4, Zenon DEF ReadsBack
  <2> QED
    BY <1>17, <2>5
<1> QED
  BY <1>25, <1>26, Zenon

-----------------------------------------------------------------------------
(* What a step leaves alone.                                               *)

(* The blocks in the list after a removal and after an entry.              *)
LEMMA Domains ==
  /\ \A b : DOMAIN Without(b) = DOMAIN avail \ {b}
  /\ \A f, b, n : DOMAIN WithRoom(f, b, n) = DOMAIN f \cup {b}
BY DEF Without, WithRoom, Restrict

(* The invariant, in the pieces that the steps use.                        *)
LEMMA Pieces ==
  ASSUME IInv
  PROVE  /\ Len(pos) \in Nat /\ Len(pos) <= MaxBlocks /\ Len(texts) \in Nat
         /\ \A b \in 1..Len(pos) : pos[b] \in Nat /\ pos[b] <= AreaSize
         /\ \A a \in DOMAIN chunks :
              /\ a \in Nat \X Nat /\ a[1] \in Nat /\ a[2] \in Nat /\ a[1] \in 1..Len(pos) /\ a # NoAddress
              /\ chunks[a].text \in Nat /\ chunks[a].from \in Nat /\ chunks[a].remaining \in Nat
              /\ chunks[a].length \in Nat /\ chunks[a].next \in Nat \X Nat
         /\ \A t \in 1..Len(texts) :
              /\ texts[t] \in TextType /\ texts[t].at \in Nat \X Nat /\ texts[t].at[2] \in Nat
              /\ texts[t].len \in Nat
<1> USE DEF IInv
<1>1. Len(pos) \in Nat /\ Len(pos) <= MaxBlocks /\ Len(texts) \in Nat
  BY DEF TypeOK
<1>2. \A b \in 1..Len(pos) : pos[b] \in Nat /\ pos[b] <= AreaSize
  BY DEF TypeOK
<1>3. ASSUME NEW a \in DOMAIN chunks
      PROVE  /\ a \in Nat \X Nat /\ a[1] \in Nat /\ a[2] \in Nat /\ a[1] \in 1..Len(pos) /\ a # NoAddress
             /\ chunks[a].text \in Nat /\ chunks[a].from \in Nat /\ chunks[a].remaining \in Nat
             /\ chunks[a].length \in Nat /\ chunks[a].next \in Nat \X Nat
  <2>1. a \in Nat \X Nat /\ a[1] \in 1..Len(pos)
    BY DEF TypeOK, Address, ChunksOK
  <2>2. chunks[a] \in ChunkType
    BY DEF TypeOK
  <2>3. /\ chunks[a].text \in Nat /\ chunks[a].from \in Nat /\ chunks[a].remaining \in Nat
        /\ chunks[a].length \in Nat /\ chunks[a].next \in Nat \X Nat
    BY <2>2 DEF ChunkType, Address
  <2>4. a[1] \in Nat /\ a[2] \in Nat /\ a # NoAddress
    BY <2>1 DEF NoAddress
  <2> QED
    BY <2>1, <2>3, <2>4
<1>4. ASSUME NEW t \in 1..Len(texts)
      PROVE  /\ texts[t] \in TextType /\ texts[t].at \in Nat \X Nat /\ texts[t].at[2] \in Nat
             /\ texts[t].len \in Nat
  <2>1. texts[t] \in TextType
    BY DEF TypeOK
  <2>2. texts[t].at \in Nat \X Nat /\ texts[t].len \in Nat
    BY <2>1 DEF TextType, Address
  <2> QED
    BY <2>1, <2>2
<1> QED
  BY <1>1, <1>2, <1>3, <1>4

(* The chunks of text t are the same after the step.                       *)
SameText(t) == Own(t)' = Own(t) /\ \A a \in Own(t) : chunks'[a] = chunks[a]

(* A text whose chunks and address a step leaves alone is as good as       *)
(* before.                                                                 *)
LEMMA TextKept ==
  ASSUME NEW t, TextOK(t), SameText(t), texts'[t].at = texts[t].at, texts'[t].len = texts[t].len,
         \A a \in Own(t) : End(a) <= pos'[a[1]]
  PROVE  TextOK(t)'
<1>1. StartOK(t, texts[t].at, texts[t].len)'
  BY DEF TextOK, StartOK, SameText
<1>2. ASSUME NEW a \in Own(t)'
      PROVE  (ChunkOK(a, texts[t].at, texts[t].len) /\ (Linked(a) \/ Last(a)))'
  <2>1. a \in Own(t) /\ chunks'[a] = chunks[a] /\ End(a)' = End(a)
    BY <1>2 DEF SameText, End
  <2>2. ChunkOK(a, texts[t].at, texts[t].len) /\ (Linked(a) \/ Last(a))
    BY <2>1 DEF TextOK
  <2>3. ChunkOK(a, texts[t].at, texts[t].len)'
    BY <2>1, <2>2 DEF ChunkOK
  <2>4. CASE Last(a)
    BY <2>1, <2>3, <2>4 DEF Last
  <2>5. CASE Linked(a)
    <3>1. chunks[a].next \in Own(t)
      BY <2>1, <2>5 DEF Linked, Own
    <3>2. chunks'[chunks[a].next] = chunks[chunks[a].next] /\ chunks[a].next \in DOMAIN chunks'
      BY <3>1 DEF SameText, Own
    <3> QED
      BY <2>1, <2>3, <2>5, <3>2 DEF Linked
  <2> QED
    BY <2>2, <2>4, <2>5
<1> QED
  BY <1>1, <1>2 DEF TextOK

(* A chunk is not empty: it has a header.                                  *)
LEMMA PastTheHeader ==
  ASSUME NEW x \in Nat, NEW h \in Nat \ {0}, NEW l \in Nat
  PROVE  x + h + l \in Nat /\ x < x + h + l
OBVIOUS

(* Chunks of a text that can be read end before the position of a block.   *)
LEMMA EndsBefore ==
  ASSUME IInv, NEW t \in 1..Len(texts), Good(t), NEW a \in Own(t)
  PROVE  End(a) <= pos[a[1]] /\ a[1] \in 1..Len(pos) /\ End(a) \in Nat /\ a[2] < End(a) /\ a[2] \in Nat
<1>1. TextOK(t)
  BY DEF IInv, TextsOK
<1>2. End(a) <= pos[a[1]]
  BY <1>1 DEF TextOK, ChunkOK
<1>3. a \in DOMAIN chunks
  BY DEF Own
<1>4. a[1] \in 1..Len(pos) /\ a[2] \in Nat /\ chunks[a].length \in Nat
  BY <1>3, Pieces
<1>5. HeaderSize \in Nat \ {0}
  BY Sizes
<1>6. End(a) \in Nat /\ a[2] < End(a)
  BY <1>4, <1>5, PastTheHeader, Zenon DEF End
<1> QED
  BY <1>2, <1>4, <1>6, Zenon

(* A new block at the end leaves the others alone.                         *)
LEMMA Grown ==
  ASSUME IInv, pos' = Append(pos, 0), Len(pos) < MaxBlocks
  PROVE  /\ pos' \in Seq(Nat) /\ Len(pos') = Len(pos) + 1 /\ Len(pos') <= MaxBlocks
         /\ \A b \in 1..Len(pos) : pos'[b] = pos[b] /\ b \in 1..Len(pos')
         /\ pos'[Len(pos) + 1] = 0
         /\ \A b \in 1..Len(pos') : pos'[b] <= AreaSize
<1>1. pos \in Seq(Nat) /\ MaxBlocks \in Nat /\ AreaSize \in Nat
  BY Sizes DEF IInv, TypeOK
<1>2. Len(pos') = Len(pos) + 1 /\ pos' \in Seq(Nat) /\ Len(pos) \in Nat
  BY <1>1
<1>3. \A b \in 1..Len(pos) : pos'[b] = pos[b] /\ b \in 1..Len(pos')
  BY <1>1, <1>2
<1>4. pos'[Len(pos) + 1] = 0
  BY <1>1, <1>2
<1>5. \A b \in 1..Len(pos') : b = Len(pos) + 1 \/ b \in 1..Len(pos)
  BY <1>2
<1>6. \A b \in 1..Len(pos') : pos'[b] <= AreaSize
  <2>1. \A b \in 1..Len(pos) : pos[b] <= AreaSize
    BY DEF IInv, TypeOK
  <2> QED
    BY <1>1, <1>3, <1>4, <1>5, <2>1
<1> QED
  BY <1>1, <1>2, <1>3, <1>4, <1>6

-----------------------------------------------------------------------------
(* The steps.                                                              *)

(* The selected block is a block of the column.                            *)
LEMMA SelectedBlock ==
  ASSUME IInv, Fitting # {}
  PROVE  Min(Fitting) \in 1..Len(pos)
<1>1. Fitting \subseteq 1..Len(pos) /\ Len(pos) \in Nat
  BY DEF IInv, TypeOK, Fitting
<1>2. Fitting \in SUBSET Nat
  BY <1>1
<1>3. Min(Fitting) \in Fitting
  BY <1>2, MinOfBlocks, Zenon
<1> QED
  BY <1>1, <1>3

(* selectAvailableBlockUnlocked, at the begin of writeBuffer or writeLob.  *)
LEMMA BeginPreserves ==
  ASSUME IInv, NEW n \in Nat, NEW kind \in {"string", "stream"}, Begin(n, kind)
  PROVE  IInv'
<1>0. /\ writing = Nothing /\ chunks' = chunks /\ texts' = texts /\ fresh' = FALSE
      /\ AreaSize \in Nat /\ Len(pos) \in Nat /\ Len(texts) \in Nat
  BY Sizes, Pieces DEF Begin
<1>1. PICK b, p :
        /\ writing' = Writing(b, p, n, kind) /\ p = pos'[b] /\ b \in 1..Len(pos') /\ p \in Nat
        /\ p <= AreaSize
        /\ pos' \in Seq(Nat) /\ Len(pos') <= MaxBlocks /\ Len(pos') \in Nat
        /\ \A c \in 1..Len(pos') : pos'[c] <= AreaSize
        /\ \A c \in 1..Len(pos) : pos'[c] = pos[c] /\ c \in 1..Len(pos')
        /\ DOMAIN avail' \subseteq 1..Len(pos')
  <2>1. CASE Fitting # {} /\ UNCHANGED <<pos, avail>>
                          /\ writing' = Writing(Min(Fitting), pos[Min(Fitting)], n, kind)
    <3>1. PICK b : b = Min(Fitting)
      OBVIOUS
    <3>2. b \in 1..Len(pos)
      BY <2>1, <3>1, SelectedBlock
    <3>3. pos[b] \in Nat /\ pos[b] <= AreaSize
      BY <3>2, Pieces
    <3>4. /\ pos' \in Seq(Nat) /\ Len(pos') <= MaxBlocks /\ Len(pos') \in Nat
          /\ \A c \in 1..Len(pos') : pos'[c] <= AreaSize
          /\ \A c \in 1..Len(pos) : pos'[c] = pos[c] /\ c \in 1..Len(pos')
          /\ DOMAIN avail' \subseteq 1..Len(pos')
      BY <2>1 DEF IInv, TypeOK
    <3>5. writing' = Writing(b, pos[b], n, kind) /\ pos[b] = pos'[b] /\ b \in 1..Len(pos')
      BY <2>1, <3>1, <3>2
    <3> QED
      BY <3>3, <3>4, <3>5, Zenon
  <2>2. CASE /\ LastBlock < MaxBlocks /\ pos' = Append(pos, 0)
             /\ writing' = Writing(LastBlock + 1, 0, n, kind)
             /\ avail' = WithRoom(IF avail = <<>> THEN avail ELSE Without(Fullest), LastBlock + 1, AreaSize)
    <3>1. LastBlock = Len(pos)
      BY DEF LastBlock
    <3>2. /\ pos' \in Seq(Nat) /\ Len(pos') = Len(pos) + 1 /\ Len(pos') <= MaxBlocks
          /\ \A c \in 1..Len(pos) : pos'[c] = pos[c] /\ c \in 1..Len(pos')
          /\ pos'[Len(pos) + 1] = 0
          /\ \A c \in 1..Len(pos') : pos'[c] <= AreaSize
      BY <2>2, <3>1, Grown
    <3>3. Len(pos) + 1 \in 1..Len(pos') /\ 0 <= AreaSize /\ Len(pos') \in Nat
      BY <1>0, <3>2
    <3>4. DOMAIN avail' \subseteq 1..Len(pos')
      <4>1. DOMAIN avail' \subseteq DOMAIN avail \cup {Len(pos) + 1}
        <5>1. PICK f : f = IF avail = <<>> THEN avail ELSE Without(Fullest)
          OBVIOUS
        <5>2. avail' = WithRoom(f, Len(pos) + 1, AreaSize)
          BY <2>2, <3>1, <5>1, Zenon
        <5>3. DOMAIN f \subseteq DOMAIN avail
          BY <5>1, Domains
        <5>4. DOMAIN avail' = DOMAIN f \cup {Len(pos) + 1}
          BY <5>2, Domains, Zenon
        <5> QED
          BY <5>3, <5>4
      <4>2. DOMAIN avail \subseteq 1..Len(pos)
        BY DEF IInv, TypeOK
      <4> QED
        BY <3>2, <3>3, <4>1, <4>2
    <3>5. writing' = Writing(Len(pos) + 1, 0, n, kind) /\ 0 = pos'[Len(pos) + 1] /\ 0 \in Nat
      BY <2>2, <3>1, <3>2
    <3> QED
      BY <3>2, <3>3, <3>4, <3>5, Zenon
  <2> QED
    BY <2>1, <2>2 DEF Begin
<1>2. /\ writing'.text = Len(texts) + 1 /\ writing'.len = n /\ writing'.left = n /\ writing'.first = b
      /\ writing'.at = p /\ writing'.block = b /\ writing'.header = NoAddress /\ writing'.lost = FALSE
      /\ writing' \in WritingType
  BY <1>0, <1>1 DEF Writing, WritingType, NoAddress, Address
<1>3. \A t : Own(t)' = Own(t) /\ SameText(t)
  BY <1>0 DEF Own, SameText
<1>4. \A a : End(a)' = End(a)
  BY <1>0 DEF End
<1>5. \A t \in 1..Len(texts) : Good(t)' <=> Good(t)
  BY <1>0 DEF Good
<1>6. TypeOK'
  BY <1>0, <1>1, <1>2 DEF IInv, TypeOK
<1>7. ChunksOK'
  <2> SUFFICES ASSUME NEW a \in DOMAIN chunks
               PROVE  a[1] \in 1..Len(pos') /\ chunks[a].text <= Len(texts)
    BY <1>0 DEF ChunksOK
  <2>1. a[1] \in 1..Len(pos) /\ chunks[a].text <= Len(texts)
    BY <1>0 DEF IInv, ChunksOK
  <2> QED
    BY <1>1, <2>1
<1>8. ASSUME NEW t \in 1..Len(texts), Good(t), NEW a \in Own(t)
      PROVE  End(a) <= pos'[a[1]]
  <2>1. End(a) <= pos[a[1]] /\ a[1] \in 1..Len(pos)
    BY <1>8, EndsBefore
  <2> QED
    BY <1>1, <2>1
<1>9. TextsOK'
  <2> SUFFICES ASSUME NEW t \in 1..Len(texts), Good(t)
               PROVE  TextOK(t)'
    BY <1>0, <1>5 DEF TextsOK
  <2>1. TextOK(t)
    BY DEF IInv, TextsOK
  <2> QED
    BY <1>0, <1>3, <1>8, <2>1, TextKept
<1>10. WritingOK'
  <2>1. NoAddress \notin DOMAIN chunks
    BY Pieces
  <2>2. Own(Len(texts) + 1) = {}
    <3> SUFFICES ASSUME NEW a \in DOMAIN chunks, chunks[a].text = Len(texts) + 1
                 PROVE  FALSE
      BY DEF Own
    <3>1. chunks[a].text <= Len(texts)
      BY <1>0 DEF IInv, ChunksOK
    <3> QED
      BY <1>0, <3>1
  <2>3. Unwritten'
    BY <1>0, <1>1, <1>2, <1>3, <2>2 DEF Unwritten
  <2> QED
    BY <1>0, <1>1, <1>2, <2>1, <2>3 DEF WritingOK
<1>11. BeforeWriting'
  <2> SUFFICES ASSUME NEW t \in 1..Len(texts), Good(t), NEW a \in Own(t), a[1] = b
               PROVE  End(a) <= p
    BY <1>0, <1>2, <1>3, <1>4, <1>5 DEF BeforeWriting, Before, Start
  <2> QED
    BY <1>1, <1>8
<1>12. BeforeFresh'
  BY <1>0 DEF BeforeFresh
<1> QED
  BY <1>6, <1>7, <1>9, <1>10, <1>11, <1>12 DEF IInv

(* No block can be made.                                                   *)
LEMMA BeginFailsPreserves ==
  ASSUME IInv, BeginFails
  PROVE  IInv'
<1>1. /\ chunks' = chunks /\ texts' = texts /\ pos' = pos /\ writing' = writing /\ writing = Nothing
      /\ fresh' = FALSE /\ DOMAIN avail' \subseteq DOMAIN avail
  BY Domains DEF BeginFails
<1>2. TypeOK'
  BY <1>1 DEF IInv, TypeOK
<1>3. ChunksOK'
  BY <1>1 DEF IInv, ChunksOK
<1>4. TextsOK'
  <2> SUFFICES ASSUME NEW t \in 1..Len(texts), Good(t)
               PROVE  TextOK(t)'
    BY <1>1 DEF TextsOK, Good
  <2>1. TextOK(t) /\ SameText(t)
    BY <1>1 DEF IInv, TextsOK, SameText, Own
  <2>2. \A a \in Own(t) : End(a) <= pos'[a[1]]
    BY <1>1, EndsBefore
  <2> QED
    BY <1>1, <2>1, <2>2, TextKept
<1>5. WritingOK' /\ BeforeWriting' /\ BeforeFresh'
  BY <1>1 DEF WritingOK, BeforeWriting, BeforeFresh
<1> QED
  BY <1>2, <1>3, <1>4, <1>5 DEF IInv

(* Bytes of a block are written from its position on, as a chunk of the    *)
(* text being written.  No text that can be read has bytes there.          *)
Overwritten(b, place) ==
  /\ Survivors(b, pos[b]) \subseteq DOMAIN chunks'
  /\ DOMAIN chunks' \subseteq Survivors(b, pos[b]) \cup {place}
  /\ \A a \in Survivors(b, pos[b]) \ {place} : chunks'[a] = chunks[a]
  /\ place \in DOMAIN chunks' /\ (place \notin DOMAIN chunks \/ chunks'[place] # chunks[place]) =>
       chunks'[place] \in ChunkType /\ chunks'[place].text = writing.text

(* The text that is being written, in the pieces that the steps use.       *)
LEMMA WrittenAt ==
  ASSUME IInv, writing # Nothing
  PROVE  /\ writing \in WritingType /\ writing.text = Len(texts) + 1 /\ ~fresh
         /\ writing.block \in 1..Len(pos) /\ writing.first \in 1..Len(pos)
         /\ writing.at \in Nat /\ writing.at <= AreaSize /\ writing.left \in Nat /\ writing.len \in Nat
         /\ writing.left <= writing.len
         /\ writing.header \in DOMAIN chunks => chunks[writing.header].text = writing.text
         /\ writing.kind \in {"string", "stream"} /\ writing.lost \in BOOLEAN
         /\ writing.header \in Nat \X Nat /\ writing.first \in Nat /\ writing.block \in Nat
         /\ pos[writing.block] \in Nat /\ pos[writing.block] <= AreaSize
<1>1. writing \in WritingType
  BY DEF IInv, TypeOK
<1>2. /\ writing.at \in Nat /\ writing.left \in Nat /\ writing.len \in Nat
      /\ writing.kind \in {"string", "stream"} /\ writing.lost \in BOOLEAN
      /\ writing.header \in Nat \X Nat /\ writing.first \in Nat /\ writing.block \in Nat
  BY <1>1 DEF WritingType, Address
<1>3. /\ writing.text = Len(texts) + 1 /\ ~fresh
      /\ writing.block \in 1..Len(pos) /\ writing.first \in 1..Len(pos)
      /\ writing.at <= AreaSize /\ writing.left <= writing.len
      /\ writing.header \in DOMAIN chunks => chunks[writing.header].text = writing.text
  BY DEF IInv, WritingOK
<1>4. pos[writing.block] \in Nat /\ pos[writing.block] <= AreaSize
  BY <1>3, Pieces
<1> QED
  BY <1>1, <1>2, <1>3, <1>4

(* The chunks that end before the position of their block are kept.        *)
EndsInside(t) == \A a \in Own(t) : End(a) <= pos[a[1]]

Survives(t, place) ==
  /\ \A a \in Own(t) : a \in DOMAIN chunks' /\ chunks'[a] = chunks[a] /\ a # place
  /\ \A a \in DOMAIN chunks' : a # place /\ chunks'[a].text = t => a \in Own(t)

(* Such chunks survive a write at the position of a block.                 *)
LEMMA OwnSurvive ==
  ASSUME IInv, writing # Nothing, NEW t, NEW b, b = writing.block,
         NEW place, place = <<b, pos[b]>>, Overwritten(b, place),
         EndsInside(t)
  PROVE  Survives(t, place)
<1>1. place[1] = b /\ place[2] = pos[b]
  OBVIOUS
<1>2. ASSUME NEW a \in Own(t)
      PROVE  a \in Survivors(b, pos[b]) \ {place}
  <2>1. a \in DOMAIN chunks /\ End(a) <= pos[a[1]]
    BY DEF Own, EndsInside
  <2>2. a[2] \in Nat /\ a[1] \in 1..Len(pos) /\ chunks[a].length \in Nat
    BY <2>1, Pieces
  <2>3. pos[a[1]] \in Nat /\ HeaderSize \in Nat \ {0}
    BY <2>2, Pieces, Sizes
  <2>4. End(a) \in Nat /\ a[2] < End(a)
    BY <2>2, <2>3, PastTheHeader, Zenon DEF End
  <2>5. a[1] = b => ~(End(a) > pos[b])
    BY <2>1, <2>3, <2>4
  <2>6. a # place
    BY <1>1, <2>1, <2>2, <2>3, <2>4
  <2> QED
    BY <2>1, <2>5, <2>6 DEF Survivors, End
<1>3. ASSUME NEW a \in DOMAIN chunks', a # place, chunks'[a].text = t
      PROVE  a \in Own(t)
  <2>1. a \in Survivors(b, pos[b]) \ {place}
    BY <1>3 DEF Overwritten
  <2> QED
    BY <1>3, <2>1 DEF Overwritten, Survivors, Own
<1>4. \A a \in Own(t) : a \in DOMAIN chunks' /\ chunks'[a] = chunks[a] /\ a # place
  BY <1>2 DEF Overwritten
<1> QED
  BY <1>3, <1>4 DEF Survives

(* A write leaves the chunks of other texts alone.                         *)
LEMMA OthersSurvive ==
  ASSUME IInv, writing # Nothing, NEW t \in 1..Len(texts), Good(t),
         NEW b, b = writing.block, NEW place, place = <<b, pos[b]>>, Overwritten(b, place)
  PROVE  SameText(t)
<1>1. t # writing.text
  BY WrittenAt, Pieces
<1>2. EndsInside(t)
  BY EndsBefore DEF EndsInside
<1>3. /\ \A a \in Own(t) : a \in DOMAIN chunks' /\ chunks'[a] = chunks[a] /\ a # place
      /\ \A a \in DOMAIN chunks' : a # place /\ chunks'[a].text = t => a \in Own(t)
  BY <1>2, OwnSurvive DEF Survives
<1>4. ASSUME place \in DOMAIN chunks', chunks'[place].text = t
      PROVE  place \in Own(t)
  <2>1. place \in DOMAIN chunks /\ chunks'[place] = chunks[place]
    BY <1>1, <1>4 DEF Overwritten
  <2> QED
    BY <1>4, <2>1 DEF Own
<1>5. Own(t)' = Own(t)
  <2>1. \A a : a \in Own(t)' <=> (a \in DOMAIN chunks' /\ chunks'[a].text = t)
    BY DEF Own
  <2>2. \A a : a \in Own(t) => chunks[a].text = t
    BY DEF Own
  <2> QED
    BY <1>3, <1>4, <2>1, <2>2
<1> QED
  BY <1>3, <1>5 DEF SameText

(* What a written chunk, or a refused one, leaves of the chunks.           *)
LEMMA ChunksAfterWrite ==
  ASSUME IInv, writing # Nothing, NEW b, b = writing.block, NEW place, place = <<b, pos[b]>>,
         Overwritten(b, place)
  PROVE  /\ DOMAIN chunks' \subseteq Address
         /\ \A a \in DOMAIN chunks' :
              /\ chunks'[a] \in ChunkType /\ a[1] \in 1..Len(pos)
              /\ chunks'[a].text <= Len(texts) \/ chunks'[a].text = writing.text
<1>1. place[1] = b /\ place[2] = pos[b]
  OBVIOUS
<1>2. b \in 1..Len(pos) /\ b \in Nat /\ pos[b] \in Nat
  BY WrittenAt, Pieces
<1>3. \A a \in DOMAIN chunks' : a = place \/ (a \in DOMAIN chunks /\ chunks'[a] = chunks[a])
  BY <1>1 DEF Overwritten, Survivors
<1>4. \A a \in DOMAIN chunks : /\ a \in Address /\ chunks[a] \in ChunkType /\ a[1] \in 1..Len(pos)
                               /\ chunks[a].text <= Len(texts) \/ chunks[a].text = writing.text
  BY DEF IInv, TypeOK, ChunksOK
<1>5. place \in Address
  BY <1>1, <1>2 DEF Address
<1>6. place \in DOMAIN chunks' =>
        /\ chunks'[place] \in ChunkType
        /\ chunks'[place].text <= Len(texts) \/ chunks'[place].text = writing.text
  <2>1. CASE place \in DOMAIN chunks /\ chunks'[place] = chunks[place]
    BY <1>4, <2>1
  <2>2. CASE ~(place \in DOMAIN chunks /\ chunks'[place] = chunks[place])
    BY <1>1, <2>2 DEF Overwritten
  <2> QED
    BY <2>1, <2>2
<1> QED
  BY <1>1, <1>2, <1>3, <1>4, <1>5, <1>6

(* How much of a text a chunk takes.                                       *)
LEMMA ChunkFits ==
  ASSUME IInv, NEW b \in 1..Len(pos), NEW left \in Nat, Free(b) >= HeaderSize,
         NEW n, n = ChunkLength(b, left)
  PROVE  /\ n \in Nat /\ n <= left /\ pos[b] + HeaderSize + n <= AreaSize
         /\ n # left => pos[b] + HeaderSize + n = AreaSize
         /\ pos[b] = 0 /\ left > 0 => n > 0
<1>1. AreaSize \in Nat /\ HeaderSize \in Nat /\ HeaderSize < AreaSize /\ pos[b] \in Nat
  BY Sizes, Pieces
<1>2. Free(b) - HeaderSize \in Int /\ left \in Int
  BY <1>1 DEF Free
<1>3. n = IF Free(b) - HeaderSize <= left THEN Free(b) - HeaderSize ELSE left
  BY <1>2, MinOfTwo, Zenon DEF ChunkLength
<1> QED
  BY <1>1, <1>3 DEF Free

(* A chunk is written at the position of the block: the first one, or one  *)
(* that the chunk before it is linked to.                                  *)
LEMMA WriteChunkPreserves ==
  ASSUME IInv, WriteChunk
  PROVE  IInv'
<1>1. /\ writing # Nothing /\ (writing.left > 0 \/ writing.header = NoAddress)
      /\ texts' = texts /\ fresh' = fresh /\ avail' = avail
  BY DEF WriteChunk
<1>2. PICK b, left, n, place :
        /\ b = writing.block /\ left = writing.left /\ n = ChunkLength(b, left) /\ place = <<b, pos[b]>>
        /\ Free(b) >= HeaderSize
        /\ chunks' = [a \in Survivors(b, pos[b]) \cup {place} |->
                        IF a = place THEN Chunk(writing.text, writing.len - left, left, n, TRUE) ELSE chunks[a]]
        /\ pos' = [pos EXCEPT ![b] = @ + HeaderSize + n]
        /\ writing' = [writing EXCEPT !.left = @ - n, !.header = place]
  BY Zenon DEF WriteChunk
<1>3. /\ writing \in WritingType /\ writing.text = Len(texts) + 1 /\ ~fresh
      /\ b \in 1..Len(pos) /\ writing.first \in 1..Len(pos)
      /\ writing.at \in Nat /\ writing.at <= AreaSize /\ left \in Nat /\ writing.len \in Nat
      /\ left <= writing.len /\ b \in Nat /\ pos[b] \in Nat
      /\ writing.lost \in BOOLEAN /\ writing.first \in Nat
  BY <1>1, <1>2, WrittenAt, Zenon
<1>4. /\ n \in Nat /\ n <= left /\ pos[b] + HeaderSize + n <= AreaSize
      /\ n # left => pos[b] + HeaderSize + n = AreaSize
      /\ pos[b] = 0 /\ left > 0 => n > 0
  <2>1. Free(b) >= HeaderSize /\ n = ChunkLength(b, left)
    BY <1>2
  <2>2. b \in 1..Len(pos) /\ left \in Nat
    BY <1>3
  <2> QED
    BY <2>1, <2>2, ChunkFits, Zenon
<1>5. AreaSize \in Nat /\ HeaderSize \in Nat \ {0} /\ HeaderSize < AreaSize /\ Len(pos) \in Nat
      /\ Len(texts) \in Nat
  BY Sizes, Pieces
<1>6. place[1] = b /\ place[2] = pos[b] /\ place \in Address /\ place # NoAddress
  BY <1>2, <1>3, <1>5 DEF Address, NoAddress
<1>7. PICK new : new = Chunk(writing.text, writing.len - left, left, n, TRUE)
  OBVIOUS
<1>8. /\ new \in ChunkType /\ new.text = writing.text /\ new.from = writing.len - left /\ new.remaining = left
      /\ new.length = n /\ new.ok /\ new.next = NoAddress
  <2>1. writing.text \in Nat /\ writing.len - left \in Nat /\ NoAddress \in Address
    BY <1>3, <1>5 DEF NoAddress, Address
  <2>2. new = [text |-> writing.text, from |-> writing.len - left, remaining |-> left, length |-> n,
               ok |-> TRUE, next |-> NoAddress]
    BY <1>7 DEF Chunk
  <2>3. new \in ChunkType
    BY <1>3, <1>4, <2>1, <2>2 DEF ChunkType
  <2> QED
    BY <2>2, <2>3
<1>9. /\ DOMAIN chunks' = Survivors(b, pos[b]) \cup {place} /\ chunks'[place] = new
      /\ \A a \in Survivors(b, pos[b]) \ {place} : chunks'[a] = chunks[a]
  BY <1>2, <1>7
<1>10. Overwritten(b, place)
  BY <1>8, <1>9 DEF Overwritten
<1>11. /\ writing' \in WritingType /\ writing'.text = writing.text /\ writing'.left = left - n
       /\ writing'.header = place /\ writing'.first = writing.first /\ writing'.at = writing.at
       /\ writing'.block = b /\ writing'.len = writing.len /\ writing'.lost = writing.lost
       /\ left - n \in Nat /\ left - n <= writing.len
  <2>1. left - n \in Nat /\ left - n <= writing.len
    BY <1>3, <1>4
  <2>2. /\ writing'.text = writing.text /\ writing'.left = left - n
        /\ writing'.header = place /\ writing'.first = writing.first /\ writing'.at = writing.at
        /\ writing'.block = b /\ writing'.len = writing.len /\ writing'.lost = writing.lost
    BY <1>2, <1>3 DEF WritingType
  <2>3. writing' \in WritingType
    BY <1>2, <1>3, <1>6, <2>1 DEF WritingType
  <2> QED
    BY <2>1, <2>2, <2>3
<1>12. /\ pos' \in Seq(Nat) /\ Len(pos') = Len(pos) /\ pos'[b] = pos[b] + HeaderSize + n
       /\ \A c \in 1..Len(pos) : c # b => pos'[c] = pos[c]
  <2>1. pos \in Seq(Nat)
    BY DEF IInv, TypeOK
  <2>2. pos[b] + HeaderSize + n \in Nat
    BY <1>3, <1>4, <1>5
  <2>3. pos' = [pos EXCEPT ![b] = pos[b] + HeaderSize + n]
    BY <1>2
  <2> QED
    BY <1>3, <2>1, <2>2, <2>3
<1>13. \A c \in 1..Len(pos) : pos'[c] >= pos[c] /\ pos'[c] <= AreaSize /\ pos'[c] \in Nat /\ pos[c] \in Nat
  <2>1. \A c \in 1..Len(pos) : pos[c] \in Nat /\ pos[c] <= AreaSize
    BY Pieces
  <2>2. pos'[b] >= pos[b] /\ pos'[b] <= AreaSize /\ pos'[b] \in Nat
    BY <1>3, <1>4, <1>5, <1>12
  <2> QED
    BY <1>12, <2>1, <2>2
<1>14. /\ DOMAIN chunks' \subseteq Address
       /\ \A a \in DOMAIN chunks' :
            /\ chunks'[a] \in ChunkType /\ a[1] \in 1..Len(pos)
            /\ chunks'[a].text <= Len(texts) \/ chunks'[a].text = writing.text
  BY <1>1, <1>2, <1>10, ChunksAfterWrite, Zenon
<1>15. TypeOK'
  <2>1. DOMAIN avail' \subseteq 1..Len(pos') /\ texts' \in Seq(TextType) /\ fresh' \in BOOLEAN
    BY <1>1, <1>12 DEF IInv, TypeOK
  <2>2. Len(pos') <= MaxBlocks
    BY <1>12, Pieces
  <2>3. \A c \in 1..Len(pos') : pos'[c] <= AreaSize
    BY <1>12, <1>13
  <2> QED
    BY <1>11, <1>12, <1>14, <2>1, <2>2, <2>3 DEF TypeOK
<1>16. writing' # Nothing
  BY <1>3, <1>5, <1>11 DEF Nothing
<1>17. ChunksOK'
  BY <1>1, <1>11, <1>12, <1>14, <1>16 DEF ChunksOK
<1>18. ASSUME NEW t \in 1..Len(texts), Good(t)
       PROVE  SameText(t) /\ TextOK(t)' /\ \A a \in Own(t) : End(a)' = End(a)
  <2>1. SameText(t)
    BY <1>1, <1>2, <1>10, <1>18, OthersSurvive, Zenon
  <2>2. TextOK(t)
    BY <1>18 DEF IInv, TextsOK
  <2>3. ASSUME NEW a \in Own(t) PROVE End(a) <= pos'[a[1]]
    <3>1. End(a) <= pos[a[1]] /\ a[1] \in 1..Len(pos) /\ End(a) \in Nat
      BY <1>18, <2>3, EndsBefore
    <3> QED
      BY <1>13, <3>1
  <2>4. TextOK(t)'
    BY <1>1, <2>1, <2>2, <2>3, TextKept
  <2>5. \A a \in Own(t) : End(a)' = End(a)
    BY <2>1 DEF SameText, End
  <2> QED
    BY <2>1, <2>4, <2>5
<1>19. \A t \in 1..Len(texts) : Good(t)' <=> Good(t)
  BY <1>1 DEF Good
<1>20. TextsOK'
  BY <1>1, <1>18, <1>19 DEF TextsOK
<1>21. BeforeWriting'
  <2>1. Start' = Start
    BY <1>11 DEF Start
  <2>2. Before(Start)
    BY <1>1 DEF IInv, BeforeWriting
  <2>3. ASSUME NEW t \in 1..Len(texts), Good(t)', NEW a \in Own(t)', a[1] = Start[1]
        PROVE  End(a)' <= Start[2]
    <3>1. Good(t)
      BY <1>19, <2>3
    <3>2. SameText(t) /\ \A c \in Own(t) : End(c)' = End(c)
      BY <1>18, <3>1
    <3>3. a \in Own(t) /\ End(a)' = End(a)
      BY <2>3, <3>2 DEF SameText
    <3>4. End(a) <= Start[2]
      BY <2>2, <2>3, <3>1, <3>3 DEF Before
    <3> QED
      BY <3>3, <3>4
  <2> QED
    BY <1>1, <2>1, <2>3 DEF BeforeWriting, Before
<1>22. BeforeFresh'
  BY <1>1, <1>3 DEF BeforeFresh
<1>23. ASSUME ~writing.lost PROVE Partial'
  <2>1. PICK w : w = writing.text
    OBVIOUS
  <2>2. place \in Own(w)' /\ place \in DOMAIN chunks'
    BY <1>8, <1>9, <2>1 DEF Own
  <2>3. End(place)' = pos'[b]
    BY <1>6, <1>8, <1>9, <1>12 DEF End
  <2>4. /\ chunks'[place].remaining - chunks'[place].length = writing'.left
        /\ writing'.block = place[1] /\ chunks'[place].next = NoAddress
        /\ writing'.left > 0 => pos'[writing'.block] = AreaSize
    BY <1>3, <1>4, <1>6, <1>8, <1>9, <1>11, <1>12
  <2>5. CASE writing.header = NoAddress
    <3>1. Unwritten
      BY <1>1, <1>23, <2>5 DEF IInv, WritingOK
    <3>2. Own(w) = {} /\ left = writing.len /\ place = Start
      BY <1>2, <2>1, <3>1 DEF Unwritten, Start
    <3>3. \A a \in DOMAIN chunks' : a # place /\ chunks'[a].text = w => a \in Own(w)
      <4>1. EndsInside(w)
        BY <3>2 DEF EndsInside
      <4>2. Survives(w, place)
        BY <1>1, <1>2, <1>10, <4>1, OwnSurvive, Zenon
      <4> QED
        BY <4>2 DEF Survives
    <3>4. Own(w)' = {place}
      <4>1. \A a : a \in Own(w)' <=> (a \in DOMAIN chunks' /\ chunks'[a].text = w)
        BY DEF Own
      <4> QED
        BY <2>2, <3>2, <3>3, <4>1
    <3>5. ChunkOK(place, place, writing.len)'
      <4>1. chunks'[place].ok /\ End(place)' <= pos'[place[1]]
        BY <1>3, <1>6, <1>8, <1>9, <1>12, <1>13, <2>3
      <4>2. /\ chunks'[place].remaining <= writing'.len
            /\ chunks'[place].from = writing'.len - chunks'[place].remaining
            /\ chunks'[place].length <= chunks'[place].remaining
        BY <1>3, <1>4, <1>8, <1>9, <1>11
      <4> QED
        BY <4>1, <4>2 DEF ChunkOK
    <3>6. StartOK(w, place, writing.len)'
      <4>1. chunks'[place].remaining = writing'.len
        BY <1>8, <1>9, <1>11, <3>2
      <4>2. place[2] + HeaderSize <= AreaSize
        BY <1>3, <1>4, <1>5, <1>6
      <4> QED
        BY <2>2, <4>1, <4>2 DEF StartOK
    <3>7. Start' = place /\ writing'.text = w
      BY <1>11, <2>1, <3>2 DEF Start
    <3> QED
      BY <1>11, <2>2, <2>4, <3>4, <3>5, <3>6, <3>7 DEF Partial
  <2>6. CASE writing.header # NoAddress
    <3>1. Partial /\ left > 0
      BY <1>1, <1>2, <1>23, <2>6 DEF IInv, WritingOK
    <3>2. PICK h : h = writing.header
      OBVIOUS
    <3>3. /\ StartOK(w, Start, writing.len)
          /\ \A a \in Own(w) : ChunkOK(a, Start, writing.len) /\ (a = h \/ Linked(a))
          /\ h \in Own(w) /\ chunks[h].remaining - chunks[h].length = left
      BY <1>2, <2>1, <3>1, <3>2 DEF Partial
    <3>4. b > h[1] /\ chunks[h].next = place /\ pos[b] = 0 /\ n > 0
      <4>1. CASE writing.block = h[1] /\ pos[b] = AreaSize
        BY <1>2, <1>5, <4>1 DEF Free
      <4>2. CASE b > h[1] /\ chunks[h].next = <<b, 0>> /\ pos[b] = 0
        BY <1>2, <1>4, <3>1, <4>2
      <4> QED
        BY <1>2, <3>1, <3>2, <4>1, <4>2 DEF Partial
    <3>5. /\ \A a \in Own(w) : a \in DOMAIN chunks' /\ chunks'[a] = chunks[a] /\ a # place
          /\ \A a \in DOMAIN chunks' : a # place /\ chunks'[a].text = w => a \in Own(w)
      <4>1. EndsInside(w)
        BY <3>3 DEF ChunkOK, EndsInside
      <4>2. Survives(w, place)
        BY <1>1, <1>2, <1>10, <4>1, OwnSurvive, Zenon
      <4> QED
        BY <4>2 DEF Survives
    <3>6. \A a : a \in Own(w)' <=> (a \in Own(w) \/ a = place)
      <4>1. \A a : a \in Own(w)' <=> (a \in DOMAIN chunks' /\ chunks'[a].text = w)
        BY DEF Own
      <4>2. \A a : a \in Own(w) => chunks[a].text = w
        BY DEF Own
      <4> QED
        BY <2>2, <3>5, <4>1, <4>2
    <3>7. Start' = Start /\ writing'.text = w /\ Start \in Own(w) /\ Start[1] \in Nat
      BY <1>3, <1>11, <2>1, <3>3 DEF Start, StartOK
    <3>8. StartOK(w, Start, writing.len)'
      <4>1. chunks'[Start] = chunks[Start] /\ Start \in Own(w)'
        BY <3>5, <3>6, <3>7
      <4> QED
        BY <1>11, <3>3, <3>7, <4>1 DEF StartOK
    <3>9. h \in DOMAIN chunks /\ h[1] \in Nat /\ chunks'[h] = chunks[h] /\ chunks[h].text = w
      BY <3>3, <3>5, Pieces DEF Own
    <3>10. ASSUME NEW a \in Own(w) PROVE ChunkOK(a, Start, writing.len)' /\ Linked(a)'
      <4>1. ChunkOK(a, Start, writing.len) /\ (a = h \/ Linked(a)) /\ chunks'[a] = chunks[a]
            /\ a \in DOMAIN chunks
        BY <3>3, <3>5, <3>10 DEF Own
      <4>2. a[1] \in 1..Len(pos) /\ a[2] \in Nat /\ chunks[a].length \in Nat
        BY <4>1, Pieces
      <4>3. pos[a[1]] <= pos'[a[1]] /\ pos[a[1]] \in Nat /\ pos'[a[1]] \in Nat
        BY <1>13, <4>2
      <4>4. End(a)' = End(a) /\ End(a) \in Int /\ End(a) <= pos[a[1]]
        BY <1>5, <4>1, <4>2 DEF End, ChunkOK
      <4>5. End(a)' <= pos'[a[1]]
        BY <4>3, <4>4
      <4>6. ChunkOK(a, Start, writing.len)'
        BY <1>11, <3>7, <4>1, <4>5 DEF ChunkOK
      <4>7. CASE a = h
        <5>1. chunks'[place].remaining = chunks'[a].remaining - chunks'[a].length
          BY <1>8, <1>9, <3>3, <3>9, <4>7
        <5> QED
          BY <1>6, <1>8, <1>9, <2>1, <2>2, <3>4, <3>9, <4>6, <4>7, <5>1 DEF Linked
      <4>8. CASE Linked(a)
        <5>1. chunks[a].next \in Own(w)
          BY <3>10, <4>8 DEF Linked, Own
        <5>2. chunks'[chunks[a].next] = chunks[chunks[a].next] /\ chunks[a].next \in DOMAIN chunks'
          BY <3>5, <5>1
        <5> QED
          BY <4>1, <4>6, <4>8, <5>2 DEF Linked
      <4> QED
        BY <4>1, <4>7, <4>8
    <3>11. ChunkOK(place, Start, writing.len)'
      <4>1. chunks'[place].ok /\ End(place)' <= pos'[place[1]]
        BY <1>3, <1>6, <1>8, <1>9, <1>12, <1>13, <2>3
      <4>2. /\ chunks'[place].remaining <= writing'.len
            /\ chunks'[place].from = writing'.len - chunks'[place].remaining
            /\ chunks'[place].length <= chunks'[place].remaining
        BY <1>3, <1>4, <1>8, <1>9, <1>11
      <4>3. h = Start \/ h[1] > Start[1]
        BY <3>3 DEF ChunkOK
      <4>4. place[1] > Start'[1]
        BY <1>3, <1>6, <3>4, <3>7, <3>9, <4>3
      <4>5. chunks'[place].length > 0
        BY <1>8, <1>9, <3>4
      <4> QED
        BY <4>1, <4>2, <4>4, <4>5 DEF ChunkOK
    <3>12. \A a \in Own(w)' : (ChunkOK(a, Start, writing.len) /\ (a = writing.header \/ Linked(a)))'
      BY <1>11, <3>6, <3>10, <3>11
    <3> QED
      BY <1>11, <2>2, <2>4, <3>7, <3>8, <3>12 DEF Partial
  <2> QED
    BY <2>5, <2>6
<1>24. WritingOK'
  <2>1. writing'.text = Len(texts') + 1 /\ ~fresh'
    BY <1>1, <1>3, <1>11
  <2>2. writing'.block \in 1..Len(pos') /\ writing'.first \in 1..Len(pos') /\ writing'.at <= AreaSize
    BY <1>3, <1>11, <1>12
  <2>3. chunks'[writing'.header].text = writing'.text /\ writing'.header # NoAddress
    BY <1>6, <1>8, <1>9, <1>11
  <2>4. ~writing'.lost => Partial'
    BY <1>11, <1>23
  <2> QED
    BY <1>11, <2>1, <2>2, <2>3, <2>4 DEF WritingOK
<1> QED
  BY <1>15, <1>17, <1>20, <1>21, <1>22, <1>24 DEF IInv

(* A write is given up: what matters is that other texts are kept.         *)
LEMMA Abandoned ==
  ASSUME IInv, writing # Nothing, Abandon,
         pos' \in Seq(Nat), Len(pos') = Len(pos),
         \A c \in 1..Len(pos) : pos'[c] >= pos[c] /\ pos'[c] <= AreaSize,
         DOMAIN chunks' \subseteq Address,
         \A a \in DOMAIN chunks' :
            /\ chunks'[a] \in ChunkType /\ a[1] \in 1..Len(pos)
            /\ chunks'[a].text <= Len(texts) \/ chunks'[a].text = writing.text,
         \A t \in 1..Len(texts) : Good(t) => SameText(t)
  PROVE  IInv'
<1>1. PICK x : /\ x = [len |-> writing.len, at |-> NoAddress, kind |-> "failed", lost |-> FALSE]
               /\ texts' = Append(texts, x) /\ writing' = Nothing /\ fresh' = fresh /\ avail' = avail
  BY DEF Abandon
<1>2. x \in TextType /\ x.kind = "failed"
  <2>1. writing.len \in Nat
    BY WrittenAt
  <2> QED
    BY <1>1, <2>1 DEF TextType, NoAddress, Address
<1>3. /\ texts' \in Seq(TextType) /\ Len(texts') = Len(texts) + 1 /\ Len(texts) \in Nat
      /\ texts'[Len(texts) + 1] = x
      /\ \A t \in 1..Len(texts) : texts'[t] = texts[t]
  BY <1>1, <1>2 DEF IInv, TypeOK
<1>4. ~fresh /\ writing.text = Len(texts) + 1
  BY WrittenAt
<1>5. TypeOK'
  <2>1. DOMAIN avail' \subseteq 1..Len(pos') /\ Len(pos') <= MaxBlocks /\ fresh' \in BOOLEAN
    BY <1>1 DEF IInv, TypeOK
  <2> QED
    BY <1>1, <1>3, <2>1 DEF TypeOK
<1>6. ChunksOK'
  <2> SUFFICES ASSUME NEW a \in DOMAIN chunks'
               PROVE  a[1] \in 1..Len(pos') /\ chunks'[a].text <= Len(texts')
    BY DEF ChunksOK
  <2>1. chunks'[a] \in ChunkType /\ (chunks'[a].text <= Len(texts) \/ chunks'[a].text = Len(texts) + 1)
    BY <1>4
  <2>2. chunks'[a].text \in Nat
    BY <2>1 DEF ChunkType
  <2> QED
    BY <1>3, <2>1, <2>2
<1>7. TextsOK'
  <2> SUFFICES ASSUME NEW t \in 1..Len(texts'), Good(t)'
               PROVE  TextOK(t)'
    BY DEF TextsOK
  <2>1. t # Len(texts) + 1
    BY <1>2, <1>3 DEF Good
  <2>2. t \in 1..Len(texts)
    BY <1>3, <2>1
  <2>3. texts'[t] = texts[t]
    BY <1>3, <2>2
  <2>4. Good(t)
    BY <2>3 DEF Good
  <2>5. TextOK(t) /\ SameText(t)
    BY <2>2, <2>4 DEF IInv, TextsOK
  <2>6. ASSUME NEW a \in Own(t) PROVE End(a) <= pos'[a[1]]
    <3>1. End(a) <= pos[a[1]] /\ a[1] \in 1..Len(pos) /\ End(a) \in Nat
      BY <2>2, <2>4, <2>6, EndsBefore
    <3>2. pos[a[1]] \in Nat /\ pos'[a[1]] \in Nat /\ pos'[a[1]] >= pos[a[1]]
      BY <3>1, Pieces
    <3> QED
      BY <3>1, <3>2
  <2> QED
    BY <2>3, <2>5, <2>6, TextKept
<1>8. WritingOK' /\ BeforeWriting' /\ BeforeFresh'
  BY <1>1, <1>4 DEF WritingOK, BeforeWriting, BeforeFresh
<1> QED
  BY <1>5, <1>6, <1>7, <1>8 DEF IInv

(* The header or the data of a chunk is refused.                           *)
LEMMA WriteChunkFailsPreserves ==
  ASSUME IInv, WriteChunkFails
  PROVE  IInv'
<1>1. writing # Nothing /\ Abandon
  BY DEF WriteChunkFails
<1>0. PICK b, left, n, place :
        b = writing.block /\ left = writing.left /\ n = ChunkLength(b, left) /\ place = <<b, pos[b]>>
  OBVIOUS
<1>2. /\ b = writing.block /\ left = writing.left /\ n = ChunkLength(b, left) /\ place = <<b, pos[b]>>
      /\ Free(b) >= HeaderSize
      /\ \/ chunks' = Restrict(chunks, Survivors(b, pos[b])) /\ UNCHANGED pos
         \/ /\ chunks' = [a \in Survivors(b, pos[b]) \cup {place} |->
                            IF a = place THEN Chunk(writing.text, 0, left, n, FALSE) ELSE chunks[a]]
            /\ pos' = [pos EXCEPT ![b] = @ + HeaderSize]
  BY <1>0 DEF WriteChunkFails
<1>3. writing.text = Len(texts) + 1 /\ b \in 1..Len(pos) /\ left \in Nat /\ pos[b] \in Nat
  BY <1>1, <1>2, WrittenAt, Zenon
<1>4. n \in Nat /\ pos[b] + HeaderSize + n <= AreaSize
  BY <1>2, <1>3, ChunkFits, Zenon
<1>5. AreaSize \in Nat /\ HeaderSize \in Nat \ {0} /\ Len(pos) \in Nat /\ Len(texts) \in Nat
  BY Sizes, Pieces
<1>6. pos \in Seq(Nat) /\ \A c \in 1..Len(pos) : pos[c] \in Nat /\ pos[c] <= AreaSize
  <2>1. pos \in Seq(Nat)
    BY DEF IInv, TypeOK
  <2> QED
    BY <2>1, Pieces
<1>7. /\ Overwritten(b, place) /\ pos' \in Seq(Nat) /\ Len(pos') = Len(pos)
      /\ \A c \in 1..Len(pos) : pos'[c] >= pos[c] /\ pos'[c] <= AreaSize
  <2>1. CASE chunks' = Restrict(chunks, Survivors(b, pos[b])) /\ UNCHANGED pos
    <3>1. /\ DOMAIN chunks' = Survivors(b, pos[b])
          /\ \A a \in Survivors(b, pos[b]) : chunks'[a] = chunks[a] /\ a \in DOMAIN chunks
      BY <2>1 DEF Restrict, Survivors
    <3>2. Overwritten(b, place)
      BY <3>1 DEF Overwritten
    <3> QED
      BY <1>6, <2>1, <3>2
  <2>2. CASE /\ chunks' = [a \in Survivors(b, pos[b]) \cup {place} |->
                             IF a = place THEN Chunk(writing.text, 0, left, n, FALSE) ELSE chunks[a]]
             /\ pos' = [pos EXCEPT ![b] = @ + HeaderSize]
    <3>1. PICK new : new = [text |-> writing.text, from |-> 0, remaining |-> left, length |-> n,
                            ok |-> FALSE, next |-> NoAddress]
      OBVIOUS
    <3>2. new = Chunk(writing.text, 0, left, n, FALSE)
      BY <3>1 DEF Chunk
    <3>3. writing.text \in Nat /\ NoAddress \in Address
      BY <1>3, <1>5 DEF NoAddress, Address
    <3>4. new \in ChunkType /\ new.text = writing.text
      BY <1>3, <1>4, <3>1, <3>3 DEF ChunkType
    <3>5. /\ DOMAIN chunks' = Survivors(b, pos[b]) \cup {place} /\ chunks'[place] = new
          /\ \A a \in Survivors(b, pos[b]) \ {place} : chunks'[a] = chunks[a]
      BY <2>2, <3>2
    <3>6. Overwritten(b, place)
      BY <3>4, <3>5 DEF Overwritten
    <3>7. pos[b] + HeaderSize \in Nat /\ pos[b] + HeaderSize <= AreaSize /\ pos[b] + HeaderSize >= pos[b]
      BY <1>3, <1>4, <1>5
    <3>8. pos' = [pos EXCEPT ![b] = pos[b] + HeaderSize]
      BY <2>2
    <3>9. /\ pos' \in Seq(Nat) /\ Len(pos') = Len(pos) /\ pos'[b] = pos[b] + HeaderSize
          /\ \A c \in 1..Len(pos) : c # b => pos'[c] = pos[c]
      BY <1>3, <1>6, <3>7, <3>8
    <3>10. \A c \in 1..Len(pos) : pos'[c] >= pos[c] /\ pos'[c] <= AreaSize
      BY <1>6, <3>7, <3>9
    <3> QED
      BY <3>6, <3>9, <3>10
  <2> QED
    BY <1>2, <2>1, <2>2
<1>8. /\ DOMAIN chunks' \subseteq Address
      /\ \A a \in DOMAIN chunks' :
           /\ chunks'[a] \in ChunkType /\ a[1] \in 1..Len(pos)
           /\ chunks'[a].text <= Len(texts) \/ chunks'[a].text = writing.text
  BY <1>1, <1>2, <1>7, ChunksAfterWrite, Zenon
<1>9. \A t \in 1..Len(texts) : Good(t) => SameText(t)
  BY <1>1, <1>2, <1>7, OthersSurvive, Zenon
<1> QED
  BY <1>1, <1>7, <1>8, <1>9, Abandoned

(* createOrGetNextBlock fails.                                             *)
LEMMA NextBlockFailsPreserves ==
  ASSUME IInv, NextBlockFails
  PROVE  IInv'
<1>1. writing # Nothing /\ Abandon /\ pos' = pos /\ chunks' = chunks
  BY DEF NextBlockFails
<1>2. /\ pos' \in Seq(Nat) /\ Len(pos') = Len(pos)
      /\ \A c \in 1..Len(pos) : pos'[c] >= pos[c] /\ pos'[c] <= AreaSize
  <2>1. pos \in Seq(Nat)
    BY DEF IInv, TypeOK
  <2>2. AreaSize \in Nat /\ \A c \in 1..Len(pos) : pos[c] \in Nat /\ pos[c] <= AreaSize
    BY Pieces, Sizes
  <2> QED
    BY <1>1, <2>1, <2>2
<1>3. /\ DOMAIN chunks' \subseteq Address
      /\ \A a \in DOMAIN chunks' :
           /\ chunks'[a] \in ChunkType /\ a[1] \in 1..Len(pos)
           /\ chunks'[a].text <= Len(texts) \/ chunks'[a].text = writing.text
  BY <1>1 DEF IInv, TypeOK, ChunksOK
<1>4. \A t \in 1..Len(texts) : Good(t) => SameText(t)
  BY <1>1 DEF SameText, Own
<1> QED
  BY <1>1, <1>2, <1>3, <1>4, Abandoned

(* The text goes on in a new block, and only the link of its last chunk    *)
(* changes.                                                                *)
LEMMA NextBlockPreserves ==
  ASSUME IInv, NextBlock
  PROVE  IInv'
<1>1. /\ writing # Nothing /\ (writing.left > 0 \/ writing.header = NoAddress)
      /\ Free(writing.block) < HeaderSize /\ Len(pos) < MaxBlocks
      /\ texts' = texts /\ fresh' = fresh
  BY DEF NextBlock, LastBlock
<1>2. PICK new, h : new = Len(pos) + 1 /\ h = writing.header
  OBVIOUS
<1>3. /\ pos' = Append(pos, 0) /\ avail' = WithRoom(Without(writing.block), new, AreaSize)
      /\ writing' = [writing EXCEPT !.block = new, !.lost = @ \/ h = NoAddress]
      /\ chunks' = IF h = NoAddress THEN chunks ELSE [chunks EXCEPT ![h].next = <<new, 0>>]
  BY <1>2 DEF NextBlock, LastBlock, Link
<1>4. /\ writing \in WritingType /\ writing.text = Len(texts) + 1 /\ ~fresh
      /\ writing.block \in 1..Len(pos) /\ writing.first \in 1..Len(pos)
      /\ writing.at \in Nat /\ writing.at <= AreaSize /\ writing.left \in Nat /\ writing.len \in Nat
      /\ writing.left <= writing.len /\ writing.first \in Nat /\ writing.block \in Nat
      /\ h \in DOMAIN chunks => chunks[h].text = writing.text
      /\ writing.lost \in BOOLEAN
  BY <1>1, <1>2, WrittenAt, Zenon
<1>5. AreaSize \in Nat /\ HeaderSize \in Nat \ {0} /\ HeaderSize < AreaSize /\ Len(pos) \in Nat
      /\ Len(texts) \in Nat
  BY Sizes, Pieces
<1>6. /\ pos' \in Seq(Nat) /\ Len(pos') = Len(pos) + 1 /\ Len(pos') <= MaxBlocks
      /\ \A c \in 1..Len(pos) : pos'[c] = pos[c] /\ c \in 1..Len(pos')
      /\ pos'[new] = 0 /\ new \in 1..Len(pos') /\ new \in Nat
      /\ \A c \in 1..Len(pos') : pos'[c] <= AreaSize
  <2>1. /\ pos' \in Seq(Nat) /\ Len(pos') = Len(pos) + 1 /\ Len(pos') <= MaxBlocks
        /\ \A c \in 1..Len(pos) : pos'[c] = pos[c] /\ c \in 1..Len(pos')
        /\ pos'[Len(pos) + 1] = 0
        /\ \A c \in 1..Len(pos') : pos'[c] <= AreaSize
    BY <1>1, <1>3, Grown
  <2> QED
    BY <1>2, <1>5, <2>1
<1>7. /\ writing' \in WritingType /\ writing'.text = writing.text /\ writing'.left = writing.left
      /\ writing'.header = h /\ writing'.first = writing.first /\ writing'.at = writing.at
      /\ writing'.block = new /\ writing'.len = writing.len
      /\ writing'.lost = (writing.lost \/ h = NoAddress)
  <2>1. (writing.lost \/ h = NoAddress) \in BOOLEAN
    BY <1>4
  <2>2. /\ writing'.text = writing.text /\ writing'.left = writing.left
        /\ writing'.header = h /\ writing'.first = writing.first /\ writing'.at = writing.at
        /\ writing'.block = new /\ writing'.len = writing.len
        /\ writing'.lost = (writing.lost \/ h = NoAddress)
    BY <1>2, <1>3, <1>4 DEF WritingType
  <2>3. writing' \in WritingType
    BY <1>3, <1>4, <1>6, <2>1 DEF WritingType
  <2> QED
    BY <2>2, <2>3
<1>8. writing' # Nothing
  BY <1>4, <1>5, <1>7 DEF Nothing
(* Only the link of the last chunk of the text being written changes.      *)
<1>9. /\ DOMAIN chunks' = DOMAIN chunks
      /\ \A a \in DOMAIN chunks : a # h => chunks'[a] = chunks[a]
      /\ \A a \in DOMAIN chunks :
           /\ chunks'[a].text = chunks[a].text /\ chunks'[a].from = chunks[a].from
           /\ chunks'[a].remaining = chunks[a].remaining /\ chunks'[a].length = chunks[a].length
           /\ chunks'[a].ok = chunks[a].ok /\ chunks'[a] \in ChunkType
      /\ h \in DOMAIN chunks => chunks'[h].next = <<new, 0>>
  <2>1. h \notin DOMAIN chunks \/ h # NoAddress
    BY Pieces
  <2>2. \A a \in DOMAIN chunks : chunks[a] \in ChunkType
    BY DEF IInv, TypeOK
  <2>3. CASE h = NoAddress
    BY <1>3, <2>1, <2>2, <2>3
  <2>4. CASE h # NoAddress
    <3>1. chunks' = [chunks EXCEPT ![h].next = <<new, 0>>]
      BY <1>3, <2>4
    <3>2. DOMAIN chunks' = DOMAIN chunks /\ \A a \in DOMAIN chunks : a # h => chunks'[a] = chunks[a]
      BY <3>1
    <3>3. ASSUME h \in DOMAIN chunks
          PROVE  /\ chunks'[h].text = chunks[h].text /\ chunks'[h].from = chunks[h].from
                 /\ chunks'[h].remaining = chunks[h].remaining /\ chunks'[h].length = chunks[h].length
                 /\ chunks'[h].ok = chunks[h].ok /\ chunks'[h] \in ChunkType
                 /\ chunks'[h].next = <<new, 0>>
      <4>1. chunks'[h] = [chunks[h] EXCEPT !.next = <<new, 0>>]
        BY <3>1, <3>3
      <4>2. chunks[h] \in ChunkType /\ <<new, 0>> \in Address
        BY <1>6, <2>2, <3>3 DEF Address
      <4> QED
        BY <4>1, <4>2 DEF ChunkType
    <3> QED
      BY <2>2, <3>2, <3>3
  <2> QED
    BY <2>3, <2>4
<1>10. TypeOK'
  <2>1. texts' \in Seq(TextType) /\ fresh' \in BOOLEAN /\ DOMAIN chunks' \subseteq Address
    BY <1>1, <1>9 DEF IInv, TypeOK
  <2>2. DOMAIN avail' \subseteq 1..Len(pos')
    <3>1. PICK f : f = Without(writing.block)
      OBVIOUS
    <3>2. DOMAIN f \subseteq DOMAIN avail /\ DOMAIN avail \subseteq 1..Len(pos)
      BY <3>1, Domains DEF IInv, TypeOK
    <3>3. DOMAIN avail' = DOMAIN f \cup {new}
      BY <1>3, <3>1, Domains, Zenon
    <3> QED
      BY <1>6, <3>2, <3>3
  <2> QED
    BY <1>6, <1>7, <1>9, <2>1, <2>2 DEF TypeOK
<1>11. ChunksOK'
  <2>1. \A a \in DOMAIN chunks : /\ a[1] \in 1..Len(pos)
                                 /\ chunks[a].text <= Len(texts) \/ chunks[a].text = writing.text
    BY <1>1 DEF IInv, ChunksOK
  <2> QED
    BY <1>1, <1>6, <1>7, <1>8, <1>9, <2>1 DEF ChunksOK
<1>12. \A t : Own(t)' = Own(t)
  BY <1>9 DEF Own
<1>13. \A a \in DOMAIN chunks : End(a)' = End(a)
  BY <1>9 DEF End
<1>14. ASSUME NEW t \in 1..Len(texts), Good(t)
       PROVE  SameText(t) /\ TextOK(t)'
  <2>1. h \notin Own(t)
    BY <1>4, <1>5 DEF Own
  <2>2. SameText(t)
    BY <1>9, <1>12, <2>1 DEF SameText, Own
  <2>3. TextOK(t)
    BY <1>14 DEF IInv, TextsOK
  <2>4. ASSUME NEW a \in Own(t) PROVE End(a) <= pos'[a[1]]
    <3>1. End(a) <= pos[a[1]] /\ a[1] \in 1..Len(pos)
      BY <1>14, <2>4, EndsBefore
    <3> QED
      BY <1>6, <3>1
  <2> QED
    BY <1>1, <2>2, <2>3, <2>4, TextKept
<1>15. \A t \in 1..Len(texts) : Good(t)' <=> Good(t)
  BY <1>1 DEF Good
<1>16. TextsOK'
  BY <1>1, <1>14, <1>15 DEF TextsOK
<1>17. BeforeWriting'
  <2>1. Start' = Start
    BY <1>7 DEF Start
  <2>2. Before(Start)
    BY <1>1 DEF IInv, BeforeWriting
  <2>3. ASSUME NEW t \in 1..Len(texts), Good(t)', NEW a \in Own(t)', a[1] = Start[1]
        PROVE  End(a)' <= Start[2]
    <3>1. Good(t) /\ a \in Own(t)
      BY <1>12, <1>15, <2>3
    <3>2. End(a)' = End(a)
      BY <1>13, <3>1 DEF Own
    <3>3. End(a) <= Start[2]
      BY <2>2, <2>3, <3>1 DEF Before
    <3> QED
      BY <3>2, <3>3
  <2> QED
    BY <1>1, <2>1, <2>3 DEF BeforeWriting, Before
<1>18. BeforeFresh'
  BY <1>1, <1>4 DEF BeforeFresh
<1>19. ASSUME ~writing.lost, h # NoAddress PROVE Partial'
  <2>1. PICK w, left : w = writing.text /\ left = writing.left
    OBVIOUS
  <2>2. Partial /\ left > 0
    BY <1>1, <1>2, <1>19, <2>1 DEF IInv, WritingOK
  <2>3. /\ StartOK(w, Start, writing.len)
        /\ \A a \in Own(w) : ChunkOK(a, Start, writing.len) /\ (a = h \/ Linked(a))
        /\ h \in Own(w) /\ chunks[h].remaining - chunks[h].length = left
    BY <1>2, <2>1, <2>2 DEF Partial
  <2>4. h \in DOMAIN chunks /\ chunks[h].text = w
    BY <2>3 DEF Own
  <2>5. h[1] \in 1..Len(pos)
    BY <2>4, Pieces
  <2>6. new > h[1]
    BY <1>2, <1>5, <2>5
  <2>7. Start' = Start /\ writing'.text = w
    BY <1>7, <2>1 DEF Start
  <2>8. StartOK(w, Start, writing.len)'
    <3>1. Start \in Own(w) /\ Start \in DOMAIN chunks
      BY <2>3 DEF StartOK, Own
    <3>2. chunks'[Start].remaining = chunks[Start].remaining
      BY <1>9, <3>1
    <3> QED
      BY <1>7, <1>12, <2>3, <2>7, <3>1, <3>2 DEF StartOK
  <2>9. ASSUME NEW a \in Own(w)'
        PROVE  (ChunkOK(a, Start, writing.len) /\ (a = writing.header \/ Linked(a)))'
    <3>1. a \in Own(w) /\ a \in DOMAIN chunks
      BY <1>12, <2>9 DEF Own
    <3>2. ChunkOK(a, Start, writing.len) /\ (a = h \/ Linked(a))
      BY <2>3, <3>1
    <3>3. a[1] \in 1..Len(pos)
      BY <3>1, Pieces
    <3>4. End(a)' <= pos'[a[1]]
      BY <1>6, <1>13, <3>1, <3>2, <3>3 DEF ChunkOK
    <3>5. ChunkOK(a, Start, writing.len)'
      BY <1>7, <1>9, <2>7, <3>1, <3>2, <3>4 DEF ChunkOK
    <3>6. CASE a = h
      BY <1>7, <3>5, <3>6
    <3>7. CASE a # h
      <4>1. Linked(a) /\ chunks'[a] = chunks[a]
        BY <1>9, <3>1, <3>2, <3>7
      <4>2. Linked(a)'
        BY <1>9, <4>1 DEF Linked
      <4> QED
        BY <3>5, <4>2
    <3> QED
      BY <3>6, <3>7
  <2>10. h \in Own(w)' /\ chunks'[h].remaining - chunks'[h].length = writing'.left
    BY <1>7, <1>9, <1>12, <2>1, <2>3, <2>4
  <2>11. /\ writing'.block > h[1] /\ chunks'[h].next = <<writing'.block, 0>>
         /\ pos'[writing'.block] = 0 /\ writing'.left > 0
    BY <1>6, <1>7, <1>9, <2>1, <2>2, <2>4, <2>6
  <2> QED
    BY <1>7, <2>7, <2>8, <2>9, <2>10, <2>11 DEF Partial
<1>20. WritingOK'
  <2>1. writing'.text = Len(texts') + 1 /\ ~fresh'
    BY <1>1, <1>4, <1>7
  <2>2. /\ writing'.block \in 1..Len(pos') /\ writing'.first \in 1..Len(pos') /\ writing'.at <= AreaSize
        /\ writing'.left <= writing'.len
    BY <1>4, <1>6, <1>7
  <2>3. writing'.header \in DOMAIN chunks' => chunks'[writing'.header].text = writing'.text
    BY <1>4, <1>7, <1>9
  <2>4. ~writing'.lost => writing'.header # NoAddress /\ Partial'
    BY <1>7, <1>19
  <2> QED
    BY <2>1, <2>2, <2>3, <2>4 DEF WritingOK
<1> QED
  BY <1>10, <1>11, <1>16, <1>17, <1>18, <1>20 DEF IInv

(* The end of writeRecord: the chunks of the text are complete.            *)
LEMMA EndWritePreserves ==
  ASSUME IInv, EndWrite
  PROVE  IInv'
<1>1. /\ writing # Nothing /\ writing.left = 0 /\ writing.header # NoAddress
      /\ writing' = Nothing /\ pos' = pos /\ chunks' = chunks
  BY DEF EndWrite
<1>2. Start = <<writing.first, writing.at>>
  BY DEF Start
<1>3. /\ writing.text = Len(texts) + 1 /\ ~fresh /\ writing.first \in Nat
      /\ writing.at \in Nat /\ writing.at <= AreaSize /\ writing.len \in Nat
      /\ writing.kind \in {"string", "stream"} /\ writing.lost \in BOOLEAN
  BY <1>1, WrittenAt, Zenon
<1>4. PICK x, at :
        /\ x = [len |-> writing.len, at |-> at, kind |-> writing.kind, lost |-> writing.lost]
        /\ texts' = Append(texts, x) /\ at \in {Start, NoAddress}
        /\ fresh' \in BOOLEAN /\ (fresh' \/ writing.kind = "string" => at = Start)
        /\ DOMAIN avail' = DOMAIN avail
  <2>1. CASE writing.kind = "string"
    <3>1. texts' = Append(texts, Written(Start)) /\ fresh' = TRUE
      BY <1>2, <2>1 DEF EndWrite
    <3>2. DOMAIN avail' = DOMAIN avail
      BY <2>1 DEF EndWrite
    <3> QED
      BY <3>1, <3>2 DEF Written
  <2>2. CASE writing.kind # "string"
    <3>1. PICK at : at = IF writing.lost THEN Start ELSE NoAddress
      OBVIOUS
    <3>2. texts' = Append(texts, Written(at)) /\ fresh' = writing.lost /\ avail' = avail
      BY <1>2, <2>2, <3>1 DEF EndWrite
    <3>3. at \in {Start, NoAddress} /\ (fresh' => at = Start)
      BY <3>1, <3>2
    <3> QED
      BY <1>3, <2>2, <3>2, <3>3 DEF Written
  <2> QED
    BY <2>1, <2>2
<1>5. Start \in Address /\ Start[1] = writing.first /\ Start[2] = writing.at /\ Start[2] <= AreaSize
  BY <1>2, <1>3 DEF Address
<1>6. at \in Address
  BY <1>4, <1>5 DEF NoAddress, Address
<1>7. /\ x \in TextType /\ x.len = writing.len /\ x.at = at /\ x.kind = writing.kind /\ x.lost = writing.lost
  BY <1>3, <1>4, <1>6 DEF TextType
<1>8. /\ texts' \in Seq(TextType) /\ Len(texts') = Len(texts) + 1 /\ Len(texts) \in Nat
      /\ texts'[Len(texts) + 1] = x
      /\ \A t \in 1..Len(texts) : texts'[t] = texts[t]
  BY <1>4, <1>7 DEF IInv, TypeOK
<1>9. TypeOK'
  BY <1>1, <1>4, <1>8 DEF IInv, TypeOK
<1>10. ChunksOK'
  <2> SUFFICES ASSUME NEW a \in DOMAIN chunks
               PROVE  a[1] \in 1..Len(pos) /\ chunks[a].text <= Len(texts')
    BY <1>1 DEF ChunksOK
  <2>1. a[1] \in 1..Len(pos) /\ (chunks[a].text <= Len(texts) \/ chunks[a].text = Len(texts) + 1)
    BY <1>3 DEF IInv, ChunksOK
  <2>2. chunks[a].text \in Nat
    BY Pieces
  <2> QED
    BY <1>8, <2>1, <2>2
<1>11. \A t : Own(t)' = Own(t)
  BY <1>1 DEF Own
<1>12. \A a : End(a)' = End(a)
  BY <1>1 DEF End
<1>13. \A t \in 1..Len(texts) : Good(t)' <=> Good(t)
  BY <1>8 DEF Good
<1>14. ASSUME NEW t \in 1..Len(texts), Good(t)
       PROVE  TextOK(t)'
  <2>1. TextOK(t) /\ SameText(t)
    BY <1>1, <1>11, <1>14 DEF IInv, TextsOK, SameText, Own
  <2>2. \A a \in Own(t) : End(a) <= pos'[a[1]]
    BY <1>1, <1>14, EndsBefore
  <2> QED
    BY <1>8, <2>1, <2>2, TextKept
<1>w. PICK w : w = Len(texts) + 1
  OBVIOUS
<1>15. ASSUME Good(w)' PROVE TextOK(w)'
  <2>1. PICK h : h = writing.header
    OBVIOUS
  <2>2. writing.kind = "string" /\ ~writing.lost /\ at = Start /\ w = writing.text
    BY <1>3, <1>4, <1>7, <1>8, <1>15, <1>w DEF Good
  <2>3. Partial
    BY <1>1, <2>2 DEF IInv, WritingOK
  <2>4. /\ StartOK(w, Start, writing.len)
        /\ \A a \in Own(w) : ChunkOK(a, Start, writing.len) /\ (a = h \/ Linked(a))
        /\ h \in Own(w) /\ chunks[h].remaining - chunks[h].length = 0 /\ chunks[h].next = NoAddress
    BY <1>1, <2>1, <2>2, <2>3 DEF Partial
  <2>5. h \in DOMAIN chunks
    BY <2>4 DEF Own
  <2>6. chunks[h].remaining \in Nat /\ chunks[h].length \in Nat
    BY <2>5, Pieces
  <2>7. Last(h)
    BY <2>4, <2>6 DEF Last
  <2>8. \A a \in Own(w) : ChunkOK(a, Start, writing.len) /\ (Last(a) \/ Linked(a))
    BY <2>4, <2>7
  <2>9. texts'[w].at = Start /\ texts'[w].len = writing.len
    BY <1>7, <1>8, <1>w, <2>2
  <2>10. StartOK(w, texts[w].at, texts[w].len)'
    BY <1>1, <1>11, <2>4, <2>9 DEF StartOK
  <2>11. ASSUME NEW a \in Own(w)
         PROVE  (ChunkOK(a, texts[w].at, texts[w].len) /\ (Linked(a) \/ Last(a)))'
    <3>1. ChunkOK(a, texts[w].at, texts[w].len)'
      BY <1>1, <1>12, <2>8, <2>9, <2>11 DEF ChunkOK
    <3>2. (Linked(a) \/ Last(a))'
      BY <1>1, <2>8, <2>11 DEF Linked, Last
    <3> QED
      BY <3>1, <3>2
  <2> QED
    BY <1>11, <2>10, <2>11 DEF TextOK
<1>16. TextsOK'
  <2>1. \A t \in 1..Len(texts') : t \in 1..Len(texts) \/ t = w
    BY <1>8, <1>w
  <2> QED
    BY <1>13, <1>14, <1>15, <2>1 DEF TextsOK
<1>17. BeforeFresh'
  <2> SUFFICES ASSUME fresh' PROVE
         /\ texts' # <<>> /\ texts'[Len(texts')].at[2] <= AreaSize
         /\ \A t \in 1..(Len(texts') - 1) : Good(t)' =>
              \A a \in Own(t)' : a[1] = texts'[Len(texts')].at[1] => End(a)' <= texts'[Len(texts')].at[2]
    BY DEF BeforeFresh
  <2>1. texts'[Len(texts')].at = Start
    BY <1>4, <1>7, <1>8
  <2>2. Before(Start)
    BY <1>1 DEF IInv, BeforeWriting
  <2>3. texts' # <<>>
    BY <1>8
  <2>4. Len(texts') - 1 = Len(texts)
    BY <1>8
  <2>5. \A t \in 1..Len(texts) : Good(t)' =>
          \A a \in Own(t)' : a[1] = Start[1] => End(a)' <= Start[2]
    BY <1>11, <1>12, <1>13, <2>2 DEF Before
  <2> QED
    BY <1>5, <2>1, <2>3, <2>4, <2>5
<1>18. WritingOK' /\ BeforeWriting'
  BY <1>1 DEF WritingOK, BeforeWriting
<1> QED
  BY <1>9, <1>10, <1>16, <1>17, <1>18 DEF IInv

(* rollbackToAddress: the text that is taken back is the last one of its   *)
(* block.                                                                  *)
LEMMA RollbackPreserves ==
  ASSUME IInv, Rollback
  PROVE  IInv'
<1>1. writing = Nothing /\ fresh /\ fresh' = FALSE /\ chunks' = chunks /\ writing' = writing
  BY DEF Rollback
<1>2. PICK w, b, p : w = Len(texts) /\ b = texts[w].at[1] /\ p = texts[w].at[2]
  OBVIOUS
<1>3. /\ texts' = [texts EXCEPT ![w].kind = "undone"]
      /\ \/ /\ b \in DOMAIN avail /\ pos' = [pos EXCEPT ![b] = p]
            /\ avail' = RoomAfterRollback(b, p)
         \/ UNCHANGED <<pos, avail>>
  BY <1>2 DEF Rollback
<1>4. Len(texts) \in Nat /\ texts # <<>> /\ p <= AreaSize /\ texts \in Seq(TextType)
  BY <1>1, <1>2 DEF IInv, BeforeFresh, TypeOK
<1>5. w \in 1..Len(texts)
  BY <1>2, <1>4
<1>6. texts[w] \in TextType /\ p \in Nat
  BY <1>2, <1>5, Pieces
<1>7. /\ texts' \in Seq(TextType) /\ Len(texts') = Len(texts) /\ texts'[w].kind = "undone"
      /\ \A t \in 1..Len(texts) : t # w => texts'[t] = texts[t]
  <2>1. texts' = [texts EXCEPT ![w] = [texts[w] EXCEPT !.kind = "undone"]]
    BY <1>3
  <2>2. PICK x : x = [texts[w] EXCEPT !.kind = "undone"]
    OBVIOUS
  <2>3. x \in TextType /\ x.kind = "undone"
    BY <1>6, <2>2 DEF TextType
  <2> QED
    BY <1>4, <1>5, <2>1, <2>2, <2>3
<1>8. /\ pos' \in Seq(Nat) /\ Len(pos') = Len(pos) /\ DOMAIN avail' \subseteq 1..Len(pos)
      /\ \A c \in 1..Len(pos) : pos'[c] <= AreaSize
      /\ \A c \in 1..Len(pos) : pos'[c] = pos[c] \/ (c = b /\ pos'[c] = p)
  <2>1. pos \in Seq(Nat) /\ DOMAIN avail \subseteq 1..Len(pos) /\ \A c \in 1..Len(pos) : pos[c] <= AreaSize
    BY DEF IInv, TypeOK
  <2>2. CASE UNCHANGED <<pos, avail>>
    BY <2>1, <2>2
  <2>3. CASE b \in DOMAIN avail /\ pos' = [pos EXCEPT ![b] = p] /\ avail' = RoomAfterRollback(b, p)
    <3>1. DOMAIN avail' = DOMAIN avail
      BY <2>3 DEF RoomAfterRollback
    <3>2. pos' \in Seq(Nat) /\ Len(pos') = Len(pos) /\ pos'[b] = p
          /\ \A c \in 1..Len(pos) : c # b => pos'[c] = pos[c]
      BY <1>6, <2>1, <2>3
    <3> QED
      BY <1>4, <2>1, <3>1, <3>2
  <2> QED
    BY <1>3, <2>2, <2>3
<1>9. TypeOK'
  BY <1>1, <1>7, <1>8 DEF IInv, TypeOK
<1>10. ChunksOK'
  BY <1>1, <1>7, <1>8 DEF IInv, ChunksOK
<1>11. TextsOK'
  <2> SUFFICES ASSUME NEW t \in 1..Len(texts), Good(t)'
               PROVE  TextOK(t)'
    BY <1>7 DEF TextsOK
  <2>1. t # w
    BY <1>7 DEF Good
  <2>2. texts'[t] = texts[t] /\ Good(t)
    BY <1>7, <2>1 DEF Good
  <2>3. TextOK(t) /\ SameText(t)
    BY <1>1, <2>2 DEF IInv, TextsOK, SameText, Own
  <2>4. ASSUME NEW a \in Own(t) PROVE End(a) <= pos'[a[1]]
    <3>1. End(a) <= pos[a[1]] /\ a[1] \in 1..Len(pos)
      BY <2>2, <2>4, EndsBefore
    <3>2. t \in 1..(Len(texts) - 1)
      BY <1>2, <1>4, <2>1
    <3>3. a[1] = b => End(a) <= p
      BY <1>1, <1>2, <2>2, <2>4, <3>2 DEF IInv, BeforeFresh
    <3> QED
      BY <1>8, <3>1, <3>3
  <2> QED
    BY <2>2, <2>3, <2>4, TextKept
<1>12. WritingOK' /\ BeforeWriting' /\ BeforeFresh'
  BY <1>1 DEF WritingOK, BeforeWriting, BeforeFresh
<1> QED
  BY <1>9, <1>10, <1>11, <1>12 DEF IInv

-----------------------------------------------------------------------------
(* The theorems.                                                           *)

(* An empty column.                                                        *)
LEMMA InitHolds ==
  ASSUME Init
  PROVE  IInv
<1>1. /\ pos = <<>> /\ chunks = <<>> /\ avail = <<>> /\ texts = <<>> /\ writing = Nothing /\ fresh = FALSE
  BY DEF Init
<1>2. Len(pos) = 0 /\ DOMAIN chunks = {} /\ DOMAIN avail = {} /\ Len(texts) = 0 /\ MaxBlocks \in Nat
  BY <1>1, Sizes
<1>3. TypeOK
  <2>1. pos \in Seq(Nat) /\ texts \in Seq(TextType) /\ 1..0 = {} /\ 0 <= MaxBlocks
    BY <1>1, <1>2
  <2> QED
    BY <1>1, <1>2, <2>1 DEF TypeOK
<1>4. ChunksOK /\ TextsOK /\ WritingOK /\ BeforeWriting /\ BeforeFresh
  BY <1>1, <1>2 DEF ChunksOK, TextsOK, WritingOK, BeforeWriting, BeforeFresh
<1> QED
  BY <1>3, <1>4 DEF IInv

(* Every step.                                                             *)
LEMMA StepPreserves ==
  ASSUME IInv, [Next]_vars
  PROVE  IInv'
<1>1. CASE BeginText
  <2>1. PICK n \in Lengths : Begin(n, "string")
    BY <1>1 DEF BeginText
  <2>2. n \in Nat
    BY Sizes
  <2> QED
    BY <2>1, <2>2, BeginPreserves
<1>2. CASE BeginCopy
  <2>1. PICK t \in DOMAIN texts : Begin(texts[t].len, "stream")
    BY <1>2 DEF BeginCopy
  <2>2. t \in 1..Len(texts)
    BY DEF IInv, TypeOK
  <2>3. texts[t].len \in Nat
    BY <2>2, Pieces
  <2>4. PICK n \in Nat : n = texts[t].len
    BY <2>3
  <2>5. Begin(n, "stream")
    BY <2>1, <2>4
  <2> QED
    BY <2>5, BeginPreserves
<1>3. CASE UNCHANGED vars
  <2>1. /\ pos' = pos /\ chunks' = chunks /\ avail' = avail /\ texts' = texts /\ writing' = writing
        /\ fresh' = fresh
    BY <1>3 DEF vars
  <2>2. TypeOK' /\ ChunksOK' /\ WritingOK' /\ BeforeWriting' /\ BeforeFresh'
    BY <2>1 DEF IInv, TypeOK, ChunksOK, WritingOK, BeforeWriting, BeforeFresh, Before, Unwritten, Partial,
                StartOK, ChunkOK, Linked, Own, End, Good, Start
  <2>3. TextsOK'
    BY <2>1 DEF IInv, TextsOK, TextOK, StartOK, ChunkOK, Linked, Last, Own, End, Good
  <2> QED
    BY <2>2, <2>3 DEF IInv
<1> QED
  BY <1>1, <1>2, <1>3, BeginFailsPreserves, WriteChunkPreserves, WriteChunkFailsPreserves,
     NextBlockPreserves, NextBlockFailsPreserves, EndWritePreserves, RollbackPreserves DEF Next

(* Whatever texts are written, refused or rolled back, the texts that can  *)
(* be read and the one being written have the form that IInv describes     *)
(* (Column::writeBuffer, writeLob).                                        *)
THEOREM TextInvariant == Spec => []IInv
<1>1. Init => IInv
  BY InitHolds
<1>2. IInv /\ [Next]_vars => IInv'
  BY StepPreserves
<1> QED
  BY <1>1, <1>2, PTL DEF Spec

(* For all sizes of blocks, headers and texts: a string that was written   *)
(* can be read again, to its last byte, whatever was written, refused or   *)
(* rolled back before and after it (Column::loadText,                      *)
(* ColumnLobStream::readInternal), but for the two exceptions that         *)
(* TextsReadBack names.                                                    *)
THEOREM TextsStayReadable == Spec => []TextsReadBack
<1>1. IInv => TextsReadBack
  <2> SUFFICES ASSUME IInv, NEW t \in DOMAIN texts, texts[t].kind = "string", ~texts[t].lost
               PROVE  EndsInLastBlock(t) \/ ReadsBack(t)
    BY DEF TextsReadBack
  <2>1. t \in 1..Len(texts)
    BY DEF IInv, TypeOK
  <2>2. TextOK(t)
    BY <2>1 DEF IInv, TextsOK, Good
  <2> QED
    BY <2>1, <2>2, Reading DEF IInv
<1> QED
  BY <1>1, TextInvariant, PTL

=============================================================================
