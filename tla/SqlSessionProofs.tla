--------------------------- MODULE SqlSessionProofs ---------------------------
(***************************************************************************)
(* Proofs about SqlSession: for commands of any number of statements, and  *)
(* any number of commands, what the client prints is what the statements   *)
(* gave, whatever is lost, refused or cut off on the way.                  *)
(***************************************************************************)
EXTENDS SqlSession, SequenceTheorems, TLAPS

-----------------------------------------------------------------------------
(***************************************************************************)
(* Lists: sequences of whatever they hold.                                 *)
(***************************************************************************)

IsList(s) == \E F : s \in Seq(F)

LEMMA ListFacts ==
  ASSUME NEW s, IsList(s)
  PROVE  /\ Len(s) \in Nat /\ DOMAIN s = 1..Len(s)
         /\ s = << >> <=> Len(s) = 0
         /\ s # << >> => Head(s) = s[1] /\ 1 \in 1..Len(s)
<1>1. PICK F : s \in Seq(F)
  BY DEF IsList
<1>2. Len(s) \in Nat /\ DOMAIN s = 1..Len(s)
  BY <1>1, LenProperties
<1>3. s = << >> <=> Len(s) = 0
  BY <1>1, EmptySeq
<1>4. s # << >> => Head(s) = s[1] /\ 1 \in 1..Len(s)
  BY <1>1, <1>2, <1>3
<1> QED
  BY <1>2, <1>3, <1>4

LEMMA EmptyList == IsList(<< >>) /\ Len(<< >>) = 0
<1>1. << >> \in Seq({})
  BY EmptySeq
<1> QED
  BY <1>1 DEF IsList

LEMMA TailList ==
  ASSUME NEW s, IsList(s), s # << >>
  PROVE  /\ IsList(Tail(s)) /\ Len(Tail(s)) = Len(s) - 1
         /\ \A i \in 1..(Len(s) - 1) : Tail(s)[i] = s[i + 1]
<1>1. PICK F : s \in Seq(F)
  BY DEF IsList
<1> QED
  BY <1>1, HeadTailProperties DEF IsList

LEMMA AppendList ==
  ASSUME NEW s, IsList(s), NEW x
  PROVE  /\ IsList(Append(s, x)) /\ Len(Append(s, x)) = Len(s) + 1
         /\ \A i \in 1..Len(s) : Append(s, x)[i] = s[i]
         /\ Append(s, x)[Len(s) + 1] = x
<1>1. PICK F : s \in Seq(F)
  BY DEF IsList
<1>2. s \in Seq(F \cup {x}) /\ x \in F \cup {x}
  BY <1>1
<1> QED
  BY <1>2, AppendProperties DEF IsList

LEMMA JoinList ==
  ASSUME NEW s, IsList(s), NEW t, IsList(t)
  PROVE  /\ IsList(s \o t) /\ Len(s \o t) = Len(s) + Len(t)
         /\ \A i \in 1..(Len(s) + Len(t)) :
              (s \o t)[i] = IF i <= Len(s) THEN s[i] ELSE t[i - Len(s)]
<1>1. PICK F : s \in Seq(F)
  BY DEF IsList
<1>2. PICK G : t \in Seq(G)
  BY DEF IsList
<1>3. s \in Seq(F \cup G) /\ t \in Seq(F \cup G)
  BY <1>1, <1>2
<1> QED
  BY <1>3, ConcatProperties DEF IsList

LEMMA SubList ==
  ASSUME NEW s, IsList(s), NEW m \in Nat \ {0}, NEW n \in Nat, n <= Len(s), m <= n + 1
  PROVE  /\ IsList(SubSeq(s, m, n)) /\ Len(SubSeq(s, m, n)) = n - m + 1
         /\ \A i \in 1..(n - m + 1) : SubSeq(s, m, n)[i] = s[m + i - 1]
<1>1. PICK F : s \in Seq(F)
  BY DEF IsList
<1>2. \A i \in m..n : s[i] \in F
  BY <1>1
<1>3. /\ SubSeq(s, m, n) \in Seq(F)
      /\ Len(SubSeq(s, m, n)) = IF m <= n THEN n - m + 1 ELSE 0
      /\ \A i \in 1..(n - m + 1) : SubSeq(s, m, n)[i] = s[m + i - 1]
  BY <1>2, SubSeqProperties
<1>4. (IF m <= n THEN n - m + 1 ELSE 0) = n - m + 1
  OBVIOUS
<1> QED
  BY <1>3, <1>4 DEF IsList

LEMMA SameList ==
  ASSUME NEW s, IsList(s), NEW t, IsList(t), Len(s) = Len(t), \A i \in 1..Len(s) : s[i] = t[i]
  PROVE  s = t
<1>1. PICK F : s \in Seq(F)
  BY DEF IsList
<1>2. PICK G : t \in Seq(G)
  BY DEF IsList
<1>3. s \in Seq(F \cup G) /\ t \in Seq(F \cup G)
  BY <1>1, <1>2
<1> QED
  BY <1>3, SeqEqual

-----------------------------------------------------------------------------
(***************************************************************************)
(* What is on its way to the client.                                       *)
(***************************************************************************)

\* The worker passes nothing on any more: it has ended, it spins, or it will
\* end at the tail of a message that it misread.
Dead ==
    \/ wrk.pc \in {"ended", "spin"}
    \/ rsp # << >> /\ rsp[1].kind = "rest"

\* Nothing is added to what is on its way.
Quiet == Dead \/ hnd.pc = "ended"

\* The frames that the client may still read, in their order.
Live == IF Dead THEN << >> ELSE rsp
Wire == buf \o (down \o Live)

Refused(kind) == kind \in {"bad", "syntax"}
IsRow(f) == f.kind \in {"row", "half"}
IsResponse(f) == f.kind = "response"

\* What a response of the statements c says of its statement.
Truthful(f, c) ==
    /\ f.of \in 1..Len(c)
    /\ f.id = f.of - 1 \/ (f.id = 0 /\ Refused(c[f.of]))
    /\ f.count = Len(c) \/ (f.count = 1 /\ Refused(c[f.of]))
    /\ Refused(c[f.of]) => f.result = "error"
    /\ ~Refused(c[f.of]) /\ c[f.of] # "breaks" => f.result = c[f.of]
    /\ f.result = "rows" => c[f.of] \in {"rows", "breaks"}

\* The frames w are a piece of what the statements c give: what may follow a
\* response.
Follows(w, p, c) ==
    /\ Refused(c[w[p].of]) => p = Len(w)
    /\ w[p].result # "rows" /\ p + 1 <= Len(w) =>
          IsResponse(w[p + 1]) /\ w[p + 1].of = w[p].of + 1
    /\ w[p].result = "rows" /\ p + 1 <= Len(w) => IsRow(w[p + 1])
    /\ w[p].result = "rows" /\ p + 2 <= Len(w) =>
          IF c[w[p].of] = "rows" THEN w[p + 2].kind = "end"
          ELSE IsResponse(w[p + 2]) /\ w[p + 2].of = w[p].of /\ w[p + 2].result = "error"
    /\ w[p].result = "rows" /\ p + 3 <= Len(w) /\ c[w[p].of] = "rows" =>
          IsResponse(w[p + 3]) /\ w[p + 3].of = w[p].of + 1

Piece(w, c, b) ==
    \A p \in 1..Len(w) :
        /\ w[p].kind \in {"response", "row", "half", "end"}
        /\ IsResponse(w[p]) =>
              /\ Truthful(w[p], c) /\ Follows(w, p, c)
              /\ c[w[p].of] = "breaks" => b

\* The frames w are of statements before statement i, and the last of them is
\* the last frame of statement i - 1.
Open(w, c, i) ==
    \A p \in 1..Len(w) :
        /\ IsRow(w[p]) => p < Len(w)
        /\ IsResponse(w[p]) =>
              /\ w[p].of < i /\ ~Refused(c[w[p].of])
              /\ w[p].result = "rows" => p + 2 <= Len(w)
              /\ w[p].result # "rows" /\ p = Len(w) => w[p].of = i - 1
              /\ w[p].result = "rows" /\ c[w[p].of] = "rows" /\ p + 2 = Len(w) => w[p].of = i - 1

-----------------------------------------------------------------------------
(***************************************************************************)
(* Where the command is.                                                   *)
(***************************************************************************)

\* No part of the session has the command yet.
Nowhere == up = << >> /\ req = << >>

\* One message of the client is on its way to the handler.
Asked ==
    \/ Len(up) = 1 /\ req = << >>
    \/ up = << >> /\ Len(req) = 1

\* The command has not been read by the handler.
Unread ==
    /\ \/ up = <<Command(cmd)>> /\ req = << >>
       \/ up = << >> /\ req = <<Command(cmd)>>
    /\ hnd.pc = "idle" /\ Wire = << >>
    /\ cli.pc = "response" /\ cli.id = 0

\* The handler is at statement i of the command: nothing it has sent so far is
\* of a later statement or breaks the command off, and the last of it is whole.
Running ==
    /\ Nowhere
    /\ hnd.pc = "statement" /\ hnd.cmd = cmd /\ hnd.i \in 1..Len(cmd)
    /\ cmd # <<"syntax">>
    /\ Len(shown) < hnd.i
    /\ cli.pc = "response" /\ cli.id = 0 /\ Wire = << >> => hnd.i = 1
    /\ cli.pc = "rows" /\ ~broke => Len(Wire) >= 2 - shown[Len(shown)].rows
    /\ Open(Wire, cmd, hnd.i)

Finished == Nowhere /\ hnd.pc = "idle"

-----------------------------------------------------------------------------
(***************************************************************************)
(* Where the client is.                                                    *)
(***************************************************************************)

\* One message is on its way at a time while the client authenticates.
Handshake ==
    /\ shown = << >>
    /\ Len(Wire) <= 1
    /\ \A p \in 1..Len(Wire) : Wire[p].kind = "answer"
    /\ \/ Quiet
       \/ cli.pc = "connect" /\ Nowhere /\ Wire = << >> /\ hnd.pc = "begin"
       \/ cli.pc = "begin" /\ Asked /\ Wire = << >> /\ hnd.pc = "begin"
       \/ cli.pc = "begin" /\ Nowhere /\ hnd.pc = "auth"
       \/ cli.pc = "auth" /\ Asked /\ Wire = << >> /\ hnd.pc = "auth"
       \/ cli.pc = "auth" /\ Nowhere /\ hnd.pc = "idle"

\* Nothing of a command is left when the client is done with it.
AtIdle == Wire = << >> /\ (Quiet \/ Finished)

\* The client waits for response number cli.id.
AtResponse ==
    /\ Piece(Wire, cmd, broke)
    /\ Quiet \/ Unread \/ Running \/ Finished
    /\ cli.id = Len(shown)
    /\ cli.id > 0 => cli.count = Len(cmd) /\ cli.id < cli.count
    /\ cli.id = 0 /\ Wire # << >> => IsResponse(Wire[1]) /\ Wire[1].of = 1

\* The client is in a row set.  When it is the one of the last statement, the
\* end of it is the last there is.
AtRows ==
    /\ Piece(Wire, cmd, broke)
    /\ Quiet \/ Running \/ Finished
    /\ Len(shown) = cli.id + 1 /\ cli.count = Len(cmd) /\ cli.id < cli.count
    /\ cli.id + 1 = cli.count =>
          /\ Len(Wire) <= 2
          /\ Len(Wire) = 2 => IsRow(Wire[1])
    /\ ~broke =>
          LET n == shown[Len(shown)].rows
          IN  /\ shown[Len(shown)].result = "rows"
              /\ n \in {0, 1}
              /\ n = 0 /\ Len(Wire) >= 1 => IsRow(Wire[1])
              /\ Len(Wire) >= 2 - n => Wire[2 - n].kind = "end"

\* What was shown of a command.
ShownOK ==
    \A k \in 1..Len(shown) :
        /\ shown[k].of = k
        /\ ~broke => /\ k \in 1..Len(cmd)
                     /\ shown[k].result = IF Refused(cmd[k]) THEN "error" ELSE cmd[k]
        /\ ~broke /\ (k < Len(shown) \/ cli.pc \in {"response", "idle"}) =>
               shown[k].rows = IF cmd[k] = "rows" THEN 1 ELSE 0

ClientOK ==
    CASE cli.pc \in {"connect", "begin", "auth"} -> Handshake
      [] cli.pc = "idle" -> AtIdle
      [] cli.pc = "response" -> AtResponse
      [] cli.pc = "rows" -> AtRows
      [] OTHER -> cli.pc = "closed"

\* The tail of a misread message comes first, and the worker will read it as a
\* response.
RestOK ==
    \A j \in 1..Len(rsp) :
        rsp[j].kind = "rest" => j = 1 /\ wrk.pc \in {"response", "idle", "ended"}

Lists ==
    /\ IsList(buf) /\ IsList(down) /\ IsList(rsp)
    /\ IsList(up) /\ IsList(req) /\ IsList(shown)

Shapes ==
    /\ cli = [pc |-> cli.pc, id |-> cli.id, count |-> cli.count] /\ cli.id \in Nat
    /\ wrk = [pc |-> wrk.pc, id |-> wrk.id, count |-> wrk.count]
    /\ hnd = [pc |-> hnd.pc, cmd |-> hnd.cmd, i |-> hnd.i]
    /\ cmd = << >> \/ cmd \in Commands
    /\ broke \in BOOLEAN
    /\ \A k \in 1..Len(shown) :
          shown[k] = [of |-> shown[k].of, result |-> shown[k].result, rows |-> shown[k].rows]

\* The inductive invariant.
IInv == Lists /\ Shapes /\ RestOK /\ ClientOK /\ ShownOK

-----------------------------------------------------------------------------
(***************************************************************************)
(* Pieces of what the statements give.                                     *)
(***************************************************************************)

\* v is what is left of w when the first a frames are gone and something at
\* the end is cut off, perhaps in the middle of a row.
Part(w, v, a) ==
    /\ IsList(w) /\ IsList(v)
    /\ a \in Nat /\ Len(v) + a <= Len(w)
    /\ \A i \in 1..Len(v) : v[i] = w[a + i] \/ (IsRow(w[a + i]) /\ v[i] = HalfRow)

LEMMA PartOfPiece ==
  ASSUME NEW w, NEW v, NEW a, Part(w, v, a), NEW c, NEW b, NEW d, b => d, Piece(w, c, b)
  PROVE  Piece(v, c, d)
<1>1. Len(w) \in Nat /\ Len(v) \in Nat /\ a \in Nat /\ Len(v) + a <= Len(w)
  BY ListFacts DEF Part
<1>2. ASSUME NEW p \in 1..Len(v)
      PROVE  /\ a + p \in 1..Len(w)
             /\ v[p] = w[a + p] \/ (IsRow(w[a + p]) /\ v[p] = HalfRow)
  BY <1>1 DEF Part
<1>3. HalfRow.kind = "half"
  BY DEF HalfRow
<1>4. ASSUME NEW p \in 1..Len(v)
      PROVE  /\ IsRow(w[a + p]) => IsRow(v[p])
             /\ w[a + p].kind \in {"response", "end"} => v[p] = w[a + p]
             /\ IsResponse(v[p]) => v[p] = w[a + p] /\ IsResponse(w[a + p])
             /\ v[p].kind \in {"response", "row", "half", "end"}
  <2>1. w[a + p].kind \in {"response", "row", "half", "end"}
    BY <1>2 DEF Piece
  <2> QED
    BY <1>2, <1>3, <2>1 DEF IsRow, IsResponse
<1>5. ASSUME NEW p \in 1..Len(v), IsResponse(v[p])
      PROVE  Truthful(v[p], c) /\ Follows(v, p, c) /\ (c[v[p].of] = "breaks" => d)
  <2> DEFINE q == a + p
  <2>1. v[p] = w[q] /\ IsResponse(w[q]) /\ q \in 1..Len(w)
    BY <1>2, <1>4, <1>5
  <2>2. Truthful(w[q], c) /\ Follows(w, q, c) /\ (c[w[q].of] = "breaks" => b)
    BY <2>1 DEF Piece
  <2>3. /\ p + 1 <= Len(v) => p + 1 \in 1..Len(v) /\ a + (p + 1) = q + 1 /\ q + 1 <= Len(w)
        /\ p + 2 <= Len(v) => p + 2 \in 1..Len(v) /\ a + (p + 2) = q + 2 /\ q + 2 <= Len(w)
        /\ p + 3 <= Len(v) => p + 3 \in 1..Len(v) /\ a + (p + 3) = q + 3 /\ q + 3 <= Len(w)
        /\ q = Len(w) => p = Len(v)
    BY <1>1
  <2> HIDE DEF q
  <2>4. ASSUME NEW k \in {1, 2, 3}, p + k <= Len(v)
        PROVE  /\ q + k <= Len(w)
               /\ IsRow(w[q + k]) => IsRow(v[p + k])
               /\ w[q + k].kind \in {"response", "end"} => v[p + k] = w[q + k]
    <3>1. p + k \in 1..Len(v) /\ a + (p + k) = q + k /\ q + k <= Len(w)
      BY <2>3, <2>4
    <3> QED
      BY <1>4, <3>1
  <2>5. Refused(c[v[p].of]) => p = Len(v)
    BY <2>1, <2>2, <2>3 DEF Follows
  <2>6. v[p].result # "rows" /\ p + 1 <= Len(v) =>
          IsResponse(v[p + 1]) /\ v[p + 1].of = v[p].of + 1
    BY <2>1, <2>2, <2>4 DEF Follows, IsResponse
  <2>7. v[p].result = "rows" /\ p + 1 <= Len(v) => IsRow(v[p + 1])
    BY <2>1, <2>2, <2>4 DEF Follows
  <2>8. v[p].result = "rows" /\ p + 2 <= Len(v) =>
          IF c[v[p].of] = "rows" THEN v[p + 2].kind = "end"
          ELSE IsResponse(v[p + 2]) /\ v[p + 2].of = v[p].of /\ v[p + 2].result = "error"
    BY <2>1, <2>2, <2>4 DEF Follows, IsResponse
  <2>9. v[p].result = "rows" /\ p + 3 <= Len(v) /\ c[v[p].of] = "rows" =>
          IsResponse(v[p + 3]) /\ v[p + 3].of = v[p].of + 1
    BY <2>1, <2>2, <2>4 DEF Follows, IsResponse
  <2>10. Follows(v, p, c)
    BY <2>5, <2>6, <2>7, <2>8, <2>9 DEF Follows
  <2> QED
    BY <2>1, <2>2, <2>10
<1> QED
  BY <1>4, <1>5 DEF Piece

-----------------------------------------------------------------------------
(***************************************************************************)
(* Steps that leave the client alone and at most cut off what is on its    *)
(* way.                                                                    *)
(***************************************************************************)

\* A message of the client goes on from the worker to the handler, or not.
Moves ==
    \/ up' = up /\ req' = req
    \/ up # << >> /\ req' = Append(req, Head(up)) /\ up' = Tail(up)

\* Nothing is cut off and the handler does nothing.
Passes == ~Quiet /\ Wire' = Wire /\ hnd' = hnd /\ broke' = broke /\ Moves

LEMMA PassesKeepsStages ==
  ASSUME Lists, Passes, cli' = cli, cmd' = cmd, shown' = shown
  PROVE  /\ Nowhere => Nowhere'
         /\ Asked => Asked'
         /\ Unread => Unread'
         /\ Running => Running'
         /\ Finished => Finished'
<1>1. Nowhere => Nowhere'
  BY DEF Nowhere, Passes, Moves
<1>2. ASSUME Asked PROVE Asked'
  <2>1. CASE up' = up /\ req' = req
    BY <1>2, <2>1 DEF Asked
  <2>2. CASE up # << >> /\ req' = Append(req, Head(up)) /\ up' = Tail(up)
    <3>1. Len(up) = 1 /\ req = << >>
      BY <1>2, <2>2 DEF Asked
    <3>2. IsList(up') /\ Len(up') = 0
      BY <2>2, <3>1, TailList DEF Lists
    <3>3. up' = << >>
      BY <3>2, ListFacts
    <3>4. Len(req') = Len(req) + 1 /\ Len(req) = 0
      BY <2>2, <3>1, AppendList, EmptyList DEF Lists
    <3> QED
      BY <3>3, <3>4 DEF Asked
  <2> QED
    BY <2>1, <2>2 DEF Passes, Moves
<1>3. ASSUME Unread PROVE Unread'
  <2>1. hnd'.pc = "idle" /\ Wire' = << >> /\ cli'.pc = "response" /\ cli'.id = 0
    BY <1>3 DEF Unread, Passes
  <2>2. CASE up' = up /\ req' = req
    BY <1>3, <2>1, <2>2 DEF Unread
  <2>3. CASE up # << >> /\ req' = Append(req, Head(up)) /\ up' = Tail(up)
    <3>1. up = <<Command(cmd)>> /\ req = << >>
      BY <1>3, <2>3 DEF Unread
    <3>2. up' = << >> /\ req' = <<Command(cmd)>>
      BY <2>3, <3>1
    <3> QED
      BY <2>1, <3>2 DEF Unread
  <2> QED
    BY <2>2, <2>3 DEF Passes, Moves
<1>4. Running => Running'
  BY <1>1 DEF Running, Passes
<1>5. Finished => Finished'
  BY <1>1 DEF Finished, Passes
<1> QED
  BY <1>1, <1>2, <1>3, <1>4, <1>5

LEMMA CutStep ==
  ASSUME IInv, Lists', Shapes', RestOK', cli' = cli, cmd' = cmd, shown' = shown,
         broke => broke', Part(Wire, Wire', 0), Quiet' \/ Passes
  PROVE  IInv'
<1>0. PICK w : w = Wire
  OBVIOUS
<1>1. PICK v : v = Wire'
  OBVIOUS
<1>2. /\ IsList(w) /\ IsList(v) /\ Len(w) \in Nat /\ Len(v) \in Nat /\ Len(v) <= Len(w)
      /\ \A i \in 1..Len(v) : i \in 1..Len(w) /\ (v[i] = w[i] \/ (IsRow(w[i]) /\ v[i] = HalfRow))
  <2>1. Part(w, v, 0)
    BY <1>0, <1>1
  <2>2. Len(w) \in Nat /\ Len(v) \in Nat
    BY <2>1, ListFacts DEF Part
  <2> QED
    BY <2>1, <2>2 DEF Part
<1>3. /\ \A i \in 1..Len(v) : w[i].kind \notin {"row", "half"} => v[i] = w[i]
      /\ \A i \in 1..Len(v) : IsRow(w[i]) => IsRow(v[i])
      /\ w = << >> => v = << >>
  <2>1. HalfRow.kind = "half"
    BY DEF HalfRow
  <2>2. w = << >> => v = << >>
    BY <1>2, ListFacts
  <2> QED
    BY <1>2, <2>1, <2>2 DEF IsRow
<1>4. ShownOK'
  BY DEF IInv, ShownOK
<1>5. Lists
  BY DEF IInv
<1>6. Piece(w, cmd, broke) => Piece(v, cmd', broke')
  BY <1>0, <1>1, PartOfPiece
<1>7. ASSUME Handshake PROVE Handshake'
  <2>1. Len(v) <= 1 /\ \A p \in 1..Len(v) : v[p].kind = "answer"
    BY <1>0, <1>2, <1>3, <1>7 DEF Handshake
  <2>2. shown' = << >>
    BY <1>7 DEF Handshake
  <2>3. CASE Quiet'
    BY <1>1, <2>1, <2>2, <2>3 DEF Handshake
  <2>4. CASE Passes
    <3>1. Wire' = Wire /\ hnd' = hnd /\ ~Quiet
      BY <2>4 DEF Passes
    <3>2. (Nowhere => Nowhere') /\ (Asked => Asked')
      BY <1>5, <2>4, PassesKeepsStages
    <3> QED
      BY <1>1, <1>7, <2>1, <2>2, <3>1, <3>2 DEF Handshake
  <2> QED
    BY <2>3, <2>4
<1>8. ASSUME AtIdle PROVE AtIdle'
  <2>1. v = << >>
    BY <1>0, <1>3, <1>8 DEF AtIdle
  <2>2. Quiet' \/ Finished'
    BY <1>5, <1>8, PassesKeepsStages DEF AtIdle, Passes
  <2> QED
    BY <1>1, <2>1, <2>2 DEF AtIdle
<1>9. ASSUME AtResponse PROVE AtResponse'
  <2>1. Piece(Wire', cmd', broke')
    BY <1>0, <1>1, <1>6, <1>9 DEF AtResponse
  <2>2. Quiet' \/ Unread' \/ Running' \/ Finished'
    BY <1>5, <1>9, PassesKeepsStages DEF AtResponse, Passes
  <2>3. cli'.id = 0 /\ v # << >> => IsResponse(v[1]) /\ v[1].of = 1
    <3> SUFFICES ASSUME cli'.id = 0, v # << >> PROVE IsResponse(v[1]) /\ v[1].of = 1
      OBVIOUS
    <3>1. 1 \in 1..Len(v) /\ w # << >>
      BY <1>2, <1>3, ListFacts
    <3>2. IsResponse(w[1]) /\ w[1].of = 1
      BY <1>0, <1>9, <3>1 DEF AtResponse
    <3> QED
      BY <1>3, <3>1, <3>2 DEF IsResponse
  <2> QED
    BY <1>1, <1>9, <2>1, <2>2, <2>3 DEF AtResponse
<1>10. ASSUME AtRows PROVE AtRows'
  <2>1. Piece(Wire', cmd', broke')
    BY <1>0, <1>1, <1>6, <1>10 DEF AtRows
  <2>2. Quiet' \/ Running' \/ Finished'
    BY <1>5, <1>10, PassesKeepsStages DEF AtRows, Passes
  <2>3. cli'.id + 1 = cli'.count => Len(v) <= 2 /\ (Len(v) = 2 => IsRow(v[1]))
    <3> SUFFICES ASSUME cli'.id + 1 = cli'.count PROVE Len(v) <= 2 /\ (Len(v) = 2 => IsRow(v[1]))
      OBVIOUS
    <3>1. Len(w) <= 2 /\ (Len(w) = 2 => IsRow(w[1]))
      BY <1>0, <1>10 DEF AtRows
    <3>2. Len(v) = 2 => Len(w) = 2 /\ 1 \in 1..Len(v)
      <4>1. Len(v) <= Len(w) /\ Len(w) <= 2 /\ Len(w) \in Nat /\ Len(v) \in Nat
        BY <1>2, <3>1, Zenon
      <4> QED
        BY <4>1
    <3> QED
      BY <1>2, <1>3, <3>1, <3>2
  <2>4. ASSUME ~broke', NEW n, n = shown[Len(shown)].rows
        PROVE  /\ shown[Len(shown)].result = "rows"
               /\ n \in {0, 1}
               /\ n = 0 /\ Len(v) >= 1 => IsRow(v[1])
               /\ Len(v) >= 2 - n => v[2 - n].kind = "end"
    <3>1. /\ shown[Len(shown)].result = "rows"
          /\ n \in {0, 1}
          /\ n = 0 /\ Len(w) >= 1 => IsRow(w[1])
          /\ Len(w) >= 2 - n => w[2 - n].kind = "end"
      BY <1>0, <1>10, <2>4 DEF AtRows
    <3>2. n = 0 /\ Len(v) >= 1 => Len(w) >= 1 /\ 1 \in 1..Len(v)
      BY <1>2
    <3>3. Len(v) >= 2 - n => Len(w) >= 2 - n /\ 2 - n \in 1..Len(v)
      BY <1>2, <3>1
    <3> QED
      BY <1>3, <3>1, <3>2, <3>3
  <2> QED
    BY <1>1, <1>10, <2>1, <2>2, <2>3, <2>4 DEF AtRows
<1>11. ClientOK'
  BY <1>7, <1>8, <1>9, <1>10 DEF IInv, ClientOK
<1> QED
  BY <1>4, <1>11 DEF IInv

-----------------------------------------------------------------------------
(***************************************************************************)
(* The frames on their way as one list.                                    *)
(***************************************************************************)

IsJoin(w, b, d, l) ==
    /\ IsList(w) /\ Len(w) = Len(b) + Len(d) + Len(l)
    /\ Len(b) \in Nat /\ Len(d) \in Nat /\ Len(l) \in Nat /\ Len(w) \in Nat
    /\ \A i \in 1..Len(w) :
          w[i] = IF i <= Len(b) THEN b[i]
                 ELSE IF i <= Len(b) + Len(d) THEN d[i - Len(b)]
                 ELSE l[i - (Len(b) + Len(d))]

LEMMA Joined ==
  ASSUME NEW b, IsList(b), NEW d, IsList(d), NEW l, IsList(l), NEW w, w = b \o (d \o l)
  PROVE  IsJoin(w, b, d, l)
<1> DEFINE e == d \o l
<1>1. /\ IsList(e) /\ Len(e) = Len(d) + Len(l)
      /\ \A i \in 1..(Len(d) + Len(l)) : e[i] = IF i <= Len(d) THEN d[i] ELSE l[i - Len(d)]
  BY JoinList
<1> HIDE DEF e
<1>2. /\ IsList(b \o e) /\ Len(b \o e) = Len(b) + Len(e)
      /\ \A i \in 1..(Len(b) + Len(e)) : (b \o e)[i] = IF i <= Len(b) THEN b[i] ELSE e[i - Len(b)]
  BY <1>1, JoinList
<1>3. w = b \o e
  BY DEF e
<1>4. Len(b) \in Nat /\ Len(d) \in Nat /\ Len(l) \in Nat
  BY ListFacts
<1>5. Len(w) = Len(b) + Len(d) + Len(l) /\ Len(w) \in Nat /\ IsList(w)
  BY <1>1, <1>2, <1>3, <1>4
<1>6. ASSUME NEW i \in 1..Len(w)
      PROVE  w[i] = IF i <= Len(b) THEN b[i]
                    ELSE IF i <= Len(b) + Len(d) THEN d[i - Len(b)]
                    ELSE l[i - (Len(b) + Len(d))]
  <2>1. w[i] = IF i <= Len(b) THEN b[i] ELSE e[i - Len(b)]
    BY <1>1, <1>2, <1>3, <1>4, <1>5
  <2>2. CASE i <= Len(b)
    BY <2>1, <2>2
  <2>3. CASE ~(i <= Len(b))
    <3>1. i - Len(b) \in 1..(Len(d) + Len(l)) /\ (i - Len(b)) - Len(d) = i - (Len(b) + Len(d))
      BY <1>4, <1>5, <2>3
    <3>2. i - Len(b) <= Len(d) <=> i <= Len(b) + Len(d)
      BY <1>4, <1>5
    <3>3. e[i - Len(b)] = IF i - Len(b) <= Len(d) THEN d[i - Len(b)] ELSE l[(i - Len(b)) - Len(d)]
      BY <1>1, <3>1
    <3> QED
      BY <2>1, <2>3, <3>1, <3>2, <3>3
  <2> QED
    BY <2>2, <2>3
<1> QED
  BY <1>4, <1>5, <1>6 DEF IsJoin

LEMMA PartSelf == ASSUME NEW w, IsList(w) PROVE Part(w, w, 0)
<1>1. Len(w) \in Nat
  BY ListFacts
<1> QED
  BY <1>1 DEF Part

LEMMA PartEmpty == ASSUME NEW w, IsList(w) PROVE Part(w, << >>, 0)
<1>1. Len(w) \in Nat /\ IsList(<< >>) /\ Len(<< >>) = 0
  BY ListFacts, EmptyList
<1> QED
  BY <1>1 DEF Part

\* The end is cut off.
LEMMA CutAtEnd ==
  ASSUME NEW b, IsList(b), NEW d, IsList(d), NEW l, IsList(l), NEW k, Part(l, k, 0)
  PROVE  Part(b \o (d \o l), b \o (d \o k), 0)
<1> DEFINE n == Len(b) + Len(d)
<1>1. PICK w : w = b \o (d \o l)
  OBVIOUS
<1>2. PICK v : v = b \o (d \o k)
  OBVIOUS
<1>3. /\ IsList(k) /\ Len(k) \in Nat /\ Len(l) \in Nat /\ Len(k) <= Len(l)
      /\ \A i \in 1..Len(k) : k[i] = l[i] \/ (IsRow(l[i]) /\ k[i] = HalfRow)
  <2>1. IsList(k) /\ IsList(l)
    BY DEF Part
  <2>2. Len(k) \in Nat /\ Len(l) \in Nat
    BY <2>1, ListFacts
  <2> QED
    BY <2>1, <2>2 DEF Part
<1>4. /\ IsList(w) /\ Len(w) = n + Len(l) /\ n \in Nat /\ Len(b) \in Nat /\ Len(d) \in Nat
      /\ \A i \in 1..Len(w) : w[i] = IF i <= Len(b) THEN b[i]
                                     ELSE IF i <= n THEN d[i - Len(b)] ELSE l[i - n]
  <2>1. IsJoin(w, b, d, l)
    BY <1>1, Joined, Zenon
  <2> QED
    BY <2>1 DEF IsJoin
<1>5. /\ IsList(v) /\ Len(v) = n + Len(k)
      /\ \A i \in 1..Len(v) : v[i] = IF i <= Len(b) THEN b[i]
                                     ELSE IF i <= n THEN d[i - Len(b)] ELSE k[i - n]
  <2>1. IsJoin(v, b, d, k)
    BY <1>2, <1>3, Joined, Zenon
  <2> QED
    BY <2>1 DEF IsJoin
<1>6. ASSUME NEW i \in 1..Len(v) PROVE v[i] = w[i] \/ (IsRow(w[i]) /\ v[i] = HalfRow)
  <2> HIDE DEF n
  <2>1. i \in 1..Len(w)
    BY <1>3, <1>4, <1>5
  <2>2. CASE i <= n
    BY <1>4, <1>5, <2>1, <2>2
  <2>3. CASE ~(i <= n)
    <3>1. i - n \in 1..Len(k) /\ ~(i <= Len(b))
      BY <1>3, <1>4, <1>5, <2>3 DEF n
    <3>2. v[i] = k[i - n] /\ w[i] = l[i - n]
      BY <1>4, <1>5, <2>1, <2>3, <3>1
    <3> QED
      BY <1>3, <3>1, <3>2
  <2> QED
    BY <2>2, <2>3
<1>7. Len(v) + 0 <= Len(w) /\ \A i \in 1..Len(v) : 0 + i = i
  BY <1>3, <1>4, <1>5
<1> QED
  BY <1>1, <1>2, <1>4, <1>5, <1>6, <1>7 DEF Part

\* A frame goes on.
Moved(d, l, e, t) == l # << >> /\ e = Append(d, Head(l)) /\ t = Tail(l)
Same(b, e, t, d, l) == b \o (e \o t) = b \o (d \o l)

LEMMA FrameMoves ==
  ASSUME NEW b, IsList(b), NEW d, IsList(d), NEW l, IsList(l), NEW e, NEW t, Moved(d, l, e, t)
  PROVE  Same(b, e, t, d, l)
<1>0. l # << >> /\ e = Append(d, Head(l)) /\ t = Tail(l)
  BY DEF Moved
<1>1. PICK w : w = b \o (d \o l)
  OBVIOUS
<1>4. PICK v : v = b \o (e \o t)
  OBVIOUS
<1>5. /\ IsList(e) /\ Len(e) = Len(d) + 1 /\ \A i \in 1..Len(d) : e[i] = d[i]
      /\ e[Len(d) + 1] = l[1]
  BY <1>0, AppendList, ListFacts
<1>6. IsList(t) /\ Len(t) = Len(l) - 1 /\ \A i \in 1..(Len(l) - 1) : t[i] = l[i + 1]
  BY <1>0, TailList
<1>7. Len(l) \in Nat \ {0}
  BY <1>0, ListFacts
<1>8. /\ IsList(w) /\ Len(w) = Len(b) + Len(d) + Len(l) /\ Len(b) \in Nat /\ Len(d) \in Nat
      /\ \A i \in 1..Len(w) : w[i] = IF i <= Len(b) THEN b[i]
                                     ELSE IF i <= Len(b) + Len(d) THEN d[i - Len(b)]
                                     ELSE l[i - (Len(b) + Len(d))]
  <2>1. IsJoin(w, b, d, l)
    BY <1>1, Joined, Zenon
  <2> QED
    BY <2>1 DEF IsJoin
<1>9. /\ IsList(v) /\ Len(v) = Len(b) + Len(e) + Len(t)
      /\ \A i \in 1..Len(v) : v[i] = IF i <= Len(b) THEN b[i]
                                     ELSE IF i <= Len(b) + Len(e) THEN e[i - Len(b)]
                                     ELSE t[i - (Len(b) + Len(e))]
  <2>1. IsJoin(v, b, e, t)
    BY <1>4, <1>5, <1>6, Joined, Zenon
  <2> QED
    BY <2>1 DEF IsJoin
<1>10. Len(v) = Len(w)
  BY <1>5, <1>6, <1>7, <1>8, <1>9
<1>11. ASSUME NEW i \in 1..Len(v) PROVE v[i] = w[i]
  <2>1. i \in Nat /\ i \in 1..Len(w)
    BY <1>8, <1>10
  <2>2. CASE i <= Len(b)
    BY <1>8, <1>9, <2>1, <2>2
  <2>3. CASE ~(i <= Len(b)) /\ i <= Len(b) + Len(d)
    <3>1. i - Len(b) \in 1..Len(d) /\ i <= Len(b) + Len(e)
      BY <1>5, <1>8, <2>1, <2>3
    <3> QED
      BY <1>5, <1>8, <1>9, <2>1, <2>3, <3>1
  <2>4. CASE i = Len(b) + Len(d) + 1
    <3>1. /\ i - Len(b) = Len(d) + 1 /\ i <= Len(b) + Len(e) /\ ~(i <= Len(b))
          /\ ~(i <= Len(b) + Len(d)) /\ i - (Len(b) + Len(d)) = 1
      BY <1>5, <1>8, <2>4
    <3>2. v[i] = e[Len(d) + 1]
      BY <1>9, <3>1
    <3>3. w[i] = l[1]
      BY <1>8, <2>1, <3>1
    <3> QED
      BY <1>5, <3>2, <3>3
  <2>5. CASE i > Len(b) + Len(d) + 1
    <3>1. /\ ~(i <= Len(b)) /\ ~(i <= Len(b) + Len(e)) /\ ~(i <= Len(b) + Len(d))
          /\ i - (Len(b) + Len(e)) \in 1..(Len(l) - 1)
          /\ (i - (Len(b) + Len(e))) + 1 = i - (Len(b) + Len(d))
      BY <1>5, <1>7, <1>8, <2>1, <2>5
    <3>2. v[i] = t[i - (Len(b) + Len(e))]
      BY <1>9, <3>1
    <3>3. w[i] = l[i - (Len(b) + Len(d))]
      BY <1>8, <2>1, <3>1
    <3> QED
      BY <1>6, <3>1, <3>2, <3>3
  <2> QED
    BY <1>8, <2>1, <2>2, <2>3, <2>4, <2>5
<1> QED
  BY <1>1, <1>4, <1>8, <1>9, <1>10, <1>11, SameList DEF Same

\* The client reads ahead.
LEMMA FramesRead ==
  ASSUME NEW d, IsList(d), NEW l, IsList(l), NEW n \in 1..Len(d)
  PROVE  /\ SubSeq(d, 1, n) \o (SubSeq(d, n + 1, Len(d)) \o l) = << >> \o (d \o l)
         /\ IsList(SubSeq(d, 1, n)) /\ IsList(SubSeq(d, n + 1, Len(d)))
<1>0. Len(d) \in Nat /\ Len(l) \in Nat /\ n \in Nat /\ n >= 1 /\ n <= Len(d)
  BY ListFacts
<1>1. PICK b : b = SubSeq(d, 1, n)
  OBVIOUS
<1>2. PICK e : e = SubSeq(d, n + 1, Len(d))
  OBVIOUS
<1>3. IsList(b) /\ Len(b) = n /\ \A i \in 1..n : b[i] = d[i]
  <2>1. /\ IsList(b) /\ Len(b) = n - 1 + 1
        /\ \A i \in 1..(n - 1 + 1) : b[i] = d[1 + i - 1]
    BY <1>0, <1>1, SubList
  <2>2. n - 1 + 1 = n /\ \A i \in 1..n : 1 + i - 1 = i
    BY <1>0
  <2> QED
    BY <2>1, <2>2
<1>4. IsList(e) /\ Len(e) = Len(d) - n /\ \A i \in 1..(Len(d) - n) : e[i] = d[n + i]
  <2>1. /\ IsList(e) /\ Len(e) = Len(d) - (n + 1) + 1
        /\ \A i \in 1..(Len(d) - (n + 1) + 1) : e[i] = d[(n + 1) + i - 1]
    BY <1>0, <1>2, SubList
  <2>2. Len(d) - (n + 1) + 1 = Len(d) - n /\ \A i \in 1..(Len(d) - n) : (n + 1) + i - 1 = n + i
    BY <1>0
  <2> QED
    BY <2>1, <2>2
<1>5. PICK v : v = b \o (e \o l)
  OBVIOUS
<1>6. PICK w : w = << >> \o (d \o l)
  OBVIOUS
<1>7. /\ IsList(v) /\ Len(v) = Len(b) + Len(e) + Len(l)
      /\ \A i \in 1..Len(v) : v[i] = IF i <= Len(b) THEN b[i]
                                     ELSE IF i <= Len(b) + Len(e) THEN e[i - Len(b)]
                                     ELSE l[i - (Len(b) + Len(e))]
  <2>1. IsJoin(v, b, e, l)
    BY <1>3, <1>4, <1>5, Joined, Zenon
  <2> QED
    BY <2>1 DEF IsJoin
<1>8. /\ IsList(w) /\ Len(w) = 0 + Len(d) + Len(l)
      /\ \A i \in 1..Len(w) : w[i] = IF i <= 0 THEN << >>[i]
                                     ELSE IF i <= 0 + Len(d) THEN d[i - 0]
                                     ELSE l[i - (0 + Len(d))]
  <2>1. IsJoin(w, << >>, d, l)
    BY <1>6, EmptyList, Joined, Zenon
  <2> QED
    BY <2>1, EmptyList DEF IsJoin
<1>9. Len(v) = Len(w) /\ Len(v) = Len(d) + Len(l)
  BY <1>0, <1>3, <1>4, <1>7, <1>8
<1>10. ASSUME NEW i \in 1..Len(v) PROVE v[i] = w[i]
  <2>1. i \in 1..Len(w) /\ i \in Nat /\ ~(i <= 0) /\ i - 0 = i /\ 0 + Len(d) = Len(d)
    BY <1>0, <1>9
  <2>2. w[i] = IF i <= Len(d) THEN d[i] ELSE l[i - Len(d)]
    BY <1>8, <2>1
  <2>3. CASE i <= n
    BY <1>0, <1>3, <1>7, <2>1, <2>2, <2>3
  <2>4. CASE ~(i <= n) /\ i <= Len(d)
    <3>1. i - n \in 1..(Len(d) - n) /\ n + (i - n) = i
      BY <1>0, <2>1, <2>4
    <3> QED
      BY <1>0, <1>3, <1>4, <1>7, <2>2, <2>4, <3>1
  <2>5. CASE ~(i <= Len(d))
    BY <1>0, <1>3, <1>4, <1>7, <2>1, <2>2, <2>5
  <2> QED
    BY <2>3, <2>4, <2>5
<1>11. v = w
  BY <1>7, <1>8, <1>9, <1>10, SameList
<1> QED
  BY <1>1, <1>2, <1>3, <1>4, <1>5, <1>6, <1>11

-----------------------------------------------------------------------------
(***************************************************************************)
(* The steps of the worker.                                                *)
(***************************************************************************)

LEMMA LiveList == (Lists => IsList(Live)) /\ (Lists' => IsList(Live'))
<1>1. Lists => IsList(Live)
  BY EmptyList DEF Lists, Live
<1>2. Lists' => IsList(Live')
  BY EmptyList DEF Lists, Live
<1> QED
  BY <1>1, <1>2

LEMMA WireList == (Lists => IsList(Wire)) /\ (Lists' => IsList(Wire'))
<1>1. ASSUME Lists PROVE IsList(Wire)
  <2>1. IsList(buf) /\ IsList(down) /\ IsList(Live)
    BY <1>1, LiveList DEF Lists
  <2> QED
    BY <2>1, JoinList DEF Wire
<1>2. ASSUME Lists' PROVE IsList(Wire')
  <2>1. IsList(buf') /\ IsList(down') /\ IsList(Live')
    BY <1>2, LiveList DEF Lists
  <2> QED
    BY <2>1, JoinList DEF Wire
<1> QED
  BY <1>1, <1>2

LEMMA FramePassed ==
  ASSUME Lists, rsp # << >>, NEW e, e = Append(down, Head(rsp)), NEW t, t = Tail(rsp)
  PROVE  buf \o (e \o t) = buf \o (down \o rsp)
<1>1. IsList(buf) /\ IsList(down) /\ IsList(rsp)
  BY DEF Lists
<1>2. Moved(down, rsp, e, t)
  BY DEF Moved
<1>3. Same(buf, e, t, down, rsp)
  BY <1>1, <1>2, FrameMoves, Zenon
<1> QED
  BY <1>3 DEF Same

\* A frame goes on or not, and the worker stops or not.
WorkerPasses ==
    \/ Dead' /\ down' = down
    \/ ~Dead /\ rsp # << >> /\ down' = Append(down, Head(rsp)) /\ (Dead' \/ rsp' = Tail(rsp))
    \/ down' = down /\ rsp' = rsp /\ (Dead' <=> Dead)

LEMMA WorkerCuts ==
  ASSUME IInv, Lists', Shapes', RestOK', UNCHANGED <<cli, cmd, shown, broke, buf, hnd>>, Moves,
         WorkerPasses
  PROVE  IInv'
<1>0. Lists /\ IsList(buf) /\ IsList(down) /\ IsList(rsp) /\ IsList(Live) /\ IsList(Wire)
  BY LiveList, WireList DEF IInv, Lists
<1>1. Wire = buf \o (down \o Live) /\ Wire' = buf \o (down' \o Live')
  BY DEF Wire
<1>2. (Dead' => Live' = << >>) /\ (~Dead' => Live' = rsp') /\ (~Dead => Live = rsp) /\ (Dead => Live = << >>)
  BY DEF Live
<1>3. Quiet /\ (Dead => Dead') => Quiet'
  BY DEF Quiet
<1>4. CASE Dead' /\ down' = down
  <2>1. Part(Live, Live', 0)
    BY <1>0, <1>2, <1>4, PartEmpty
  <2>2. Part(Wire, Wire', 0)
    BY <1>0, <1>1, <1>4, <2>1, CutAtEnd
  <2> QED
    BY <1>4, <2>2, CutStep DEF Quiet
<1>5. CASE ~Dead /\ rsp # << >> /\ down' = Append(down, Head(rsp)) /\ (Dead' \/ rsp' = Tail(rsp))
  <2>1. PICK e : e = Append(down, Head(rsp))
    OBVIOUS
  <2>2. PICK t : t = Tail(rsp)
    OBVIOUS
  <2>3. IsList(e) /\ IsList(t)
    BY <1>0, <1>5, <2>1, <2>2, AppendList, TailList
  <2>4. buf \o (e \o t) = Wire
    <3>1. IsList(buf) /\ IsList(down) /\ IsList(rsp) /\ rsp # << >>
      BY <1>0, <1>5
    <3>3. buf \o (e \o t) = buf \o (down \o rsp)
      BY <1>0, <2>1, <2>2, <3>1, FramePassed, Zenon
    <3>2. Live = rsp
      BY <1>2, <1>5
    <3> QED
      BY <1>1, <3>2, <3>3
  <2>5. CASE Dead'
    <3>1. Part(t, Live', 0)
      BY <1>2, <2>3, <2>5, PartEmpty
    <3>2. Part(buf \o (e \o t), buf \o (e \o Live'), 0)
      BY <1>0, <2>3, <3>1, CutAtEnd
    <3>3. Part(Wire, Wire', 0)
      BY <1>1, <1>5, <2>1, <2>4, <3>2
    <3> QED
      BY <2>5, <3>3, CutStep DEF Quiet
  <2>6. CASE ~Dead'
    <3>1. Wire' = Wire
      BY <1>1, <1>2, <1>5, <2>1, <2>2, <2>4, <2>6
    <3>2. Part(Wire, Wire', 0)
      BY <1>0, <3>1, PartSelf
    <3>3. Quiet' \/ Passes
      BY <1>3, <1>5, <3>1 DEF Passes
    <3> QED
      BY <3>2, <3>3, CutStep
  <2> QED
    BY <2>5, <2>6
<1>6. CASE down' = down /\ rsp' = rsp /\ (Dead' <=> Dead)
  <2>1. Wire' = Wire
    BY <1>1, <1>2, <1>6
  <2>2. Part(Wire, Wire', 0)
    BY <1>0, <2>1, PartSelf
  <2>3. Quiet' \/ Passes
    BY <1>3, <1>6, <2>1 DEF Passes
  <2> QED
    BY <2>2, <2>3, CutStep
<1> QED
  BY <1>4, <1>5, <1>6 DEF WorkerPasses

\* The worker passes on what the client has sent.
LEMMA WorkerForwardsInv ==
  ASSUME IInv, WorkerAuthenticates \/ WorkerCommand
  PROVE  IInv'
<1>1. /\ up # << >> /\ req' = Append(req, Head(up)) /\ up' = Tail(up)
      /\ UNCHANGED <<cli, cmd, shown, broke, buf, hnd, down, rsp>>
      /\ wrk.pc \in {"begin", "auth", "idle"}
  BY DEF WorkerAuthenticates, WorkerCommand, client
<1>2. /\ wrk' = [pc |-> wrk'.pc, id |-> wrk'.id, count |-> wrk'.count]
      /\ wrk'.pc \in {"beginAnswer", "authAnswer", "response"}
      /\ wrk.pc = "idle" => wrk'.pc = "response"
  BY DEF WorkerAuthenticates, WorkerCommand, IInv, Shapes
<1>3. Lists'
  BY <1>1, TailList, AppendList DEF IInv, Lists
<1>4. Shapes'
  BY <1>1, <1>2 DEF IInv, Shapes
<1>5. RestOK'
  BY <1>1, <1>2 DEF IInv, RestOK
<1>6. Dead' <=> Dead
  BY <1>1, <1>2 DEF Dead
<1>7. Moves
  BY <1>1 DEF Moves
<1> QED
  BY <1>1, <1>3, <1>4, <1>5, <1>6, <1>7, WorkerCuts DEF WorkerPasses

\* No part of a message that was misread is ahead of the worker.
LEMMA Clean ==
  ASSUME IInv, rsp # << >>, rsp[1].kind # "rest" \/ wrk.pc \notin {"response", "idle", "ended"}
  PROVE  /\ 1 \in 1..Len(rsp) /\ rsp[1].kind # "rest" /\ Head(rsp) = rsp[1] /\ Len(rsp) \in Nat
         /\ IsList(Tail(rsp)) /\ Len(Tail(rsp)) = Len(rsp) - 1
         /\ \A j \in 1..Len(Tail(rsp)) : Tail(rsp)[j].kind # "rest"
<1>1. IsList(rsp)
  BY DEF IInv, Lists
<1>2. 1 \in 1..Len(rsp) /\ Head(rsp) = rsp[1] /\ Len(rsp) \in Nat
  BY <1>1, ListFacts
<1>3. rsp[1].kind # "rest"
  BY <1>2 DEF IInv, RestOK
<1>4. /\ IsList(Tail(rsp)) /\ Len(Tail(rsp)) = Len(rsp) - 1
      /\ \A j \in 1..(Len(rsp) - 1) : Tail(rsp)[j] = rsp[j + 1]
  BY <1>1, TailList
<1>5. \A j \in 1..(Len(rsp) - 1) : j + 1 \in 1..Len(rsp) /\ j + 1 # 1
  BY <1>2
<1>6. \A j \in 1..Len(rsp) : rsp[j].kind = "rest" => j = 1
  BY DEF IInv, RestOK
<1> QED
  BY <1>2, <1>3, <1>4, <1>5, <1>6

\* The worker passes on an answer of the authentication.
LEMMA WorkerAnswersInv ==
  ASSUME IInv, WorkerAnswers
  PROVE  IInv'
<1>1. /\ rsp # << >> /\ down' = Append(down, Head(rsp)) /\ rsp' = Tail(rsp)
      /\ UNCHANGED <<cli, cmd, shown, broke, buf, hnd, up, req>>
      /\ wrk.pc \in {"beginAnswer", "authAnswer"}
  BY DEF WorkerAnswers, client
<1>2. wrk' = [pc |-> wrk'.pc, id |-> wrk'.id, count |-> wrk'.count]
  BY DEF WorkerAnswers, IInv, Shapes
<1>3. /\ rsp[1].kind # "rest" /\ IsList(Tail(rsp))
      /\ \A j \in 1..Len(Tail(rsp)) : Tail(rsp)[j].kind # "rest"
  BY <1>1, Clean
<1>4. Lists'
  BY <1>1, <1>3, AppendList DEF IInv, Lists
<1>5. Shapes'
  BY <1>1, <1>2 DEF IInv, Shapes
<1>6. RestOK'
  BY <1>1, <1>3 DEF RestOK
<1>7. ~Dead
  BY <1>1, <1>3 DEF Dead
<1>8. Moves
  BY <1>1 DEF Moves
<1> QED
  BY <1>1, <1>4, <1>5, <1>6, <1>7, <1>8, WorkerCuts DEF WorkerPasses

\* The worker passes on a response, or ends at what is not one.
LEMMA WorkerResponseInv ==
  ASSUME IInv, WorkerResponse
  PROVE  IInv'
<1>1. /\ rsp # << >> /\ rsp' = Tail(rsp) /\ wrk.pc = "response"
      /\ UNCHANGED <<cli, cmd, shown, broke, buf, hnd, up, req>>
  BY DEF WorkerResponse, client
<1>2. IsList(rsp) /\ Head(rsp) = rsp[1]
  BY <1>1, ListFacts DEF IInv, Lists
<1>3. Moves
  BY <1>1 DEF Moves
<1>4. wrk' = [pc |-> wrk'.pc, id |-> wrk'.id, count |-> wrk'.count]
  <2>1. wrk = [pc |-> wrk.pc, id |-> wrk.id, count |-> wrk.count]
    BY DEF IInv, Shapes
  <2>2. PICK n : n = IF wrk.id = 0 THEN Head(rsp).count ELSE wrk.count
    OBVIOUS
  <2>3. WorkerEnds \/ wrk' = [wrk EXCEPT !.pc = "rows", !.count = n] \/ WorkerNext(n)
    BY <2>2 DEF WorkerResponse
  <2>4. CASE WorkerEnds
    BY <2>1, <2>4 DEF WorkerEnds
  <2>5. CASE wrk' = [wrk EXCEPT !.pc = "rows", !.count = n]
    BY <2>1, <2>5
  <2>6. CASE WorkerNext(n)
    BY <2>6 DEF WorkerNext
  <2> QED
    BY <2>3, <2>4, <2>5, <2>6
<1>5. Shapes'
  BY <1>1, <1>4 DEF IInv, Shapes
<1>6. CASE rsp[1].kind # "response"
  <2>1. wrk'.pc = "ended" /\ down' = down
    BY <1>2, <1>6 DEF WorkerResponse, WorkerEnds, IInv, Shapes
  <2>2. Lists'
    BY <1>1, <2>1, TailList DEF IInv, Lists
  <2>3. RestOK'
    <3>1. /\ Len(rsp) \in Nat /\ Len(rsp') = Len(rsp) - 1
          /\ \A j \in 1..(Len(rsp) - 1) : rsp'[j] = rsp[j + 1]
      BY <1>1, <1>2, TailList, ListFacts
    <3>2. \A j \in 1..Len(rsp) : rsp[j].kind = "rest" => j = 1
      BY DEF IInv, RestOK
    <3>3. \A j \in 1..Len(rsp') : j + 1 \in 1..Len(rsp) /\ j + 1 # 1
      BY <3>1
    <3> QED
      BY <3>1, <3>2, <3>3 DEF RestOK
  <2>4. Dead'
    BY <2>1 DEF Dead
  <2> QED
    BY <1>1, <1>3, <1>5, <2>1, <2>2, <2>3, <2>4, WorkerCuts DEF WorkerPasses
<1>7. CASE rsp[1].kind = "response"
  <2>1. down' = Append(down, Head(rsp))
    BY <1>2, <1>7 DEF WorkerResponse
  <2>2. rsp[1].kind # "rest" /\ IsList(Tail(rsp)) /\ \A j \in 1..Len(Tail(rsp)) : Tail(rsp)[j].kind # "rest"
    BY <1>1, <1>7, Clean
  <2>3. Lists'
    BY <1>1, <2>1, <2>2, AppendList DEF IInv, Lists
  <2>4. RestOK'
    BY <1>1, <2>2 DEF RestOK
  <2>5. ~Dead
    BY <1>1, <2>2 DEF Dead
  <2> QED
    BY <1>1, <1>3, <1>5, <2>1, <2>3, <2>4, <2>5, WorkerCuts DEF WorkerPasses
<1> QED
  BY <1>6, <1>7

\* forwardRowData: a frame is passed on; a response among the rows may be taken
\* for their end.
LEMMA WorkerRowInv ==
  ASSUME IInv, WorkerRow
  PROVE  IInv'
<1>1. /\ rsp # << >> /\ down' = Append(down, Head(rsp)) /\ wrk.pc = "rows"
      /\ UNCHANGED <<cli, cmd, shown, broke, buf, hnd, up, req>>
  BY DEF WorkerRow, client
<1>2. /\ rsp' = Tail(rsp) \/ (rsp' = <<Rest>> \o Tail(rsp) /\ WorkerNext(wrk.count))
      /\ wrk' = [pc |-> wrk'.pc, id |-> wrk'.id, count |-> wrk'.count]
      /\ WorkerNext(wrk.count) => wrk'.pc \in {"response", "idle"}
  BY DEF WorkerRow, WorkerNext, IInv, Shapes
<1>3. /\ rsp[1].kind # "rest" /\ IsList(Tail(rsp))
      /\ \A j \in 1..Len(Tail(rsp)) : Tail(rsp)[j].kind # "rest"
  BY <1>1, Clean
<1>4. Shapes'
  BY <1>1, <1>2 DEF IInv, Shapes
<1>5. ~Dead
  BY <1>1, <1>3 DEF Dead
<1>6. Moves
  BY <1>1 DEF Moves
<1>7. CASE rsp' = Tail(rsp)
  <2>1. Lists'
    BY <1>1, <1>3, <1>7, AppendList DEF IInv, Lists
  <2>2. RestOK'
    BY <1>3, <1>7 DEF RestOK
  <2> QED
    BY <1>1, <1>4, <1>5, <1>6, <1>7, <2>1, <2>2, WorkerCuts DEF WorkerPasses
<1>8. CASE rsp' = <<Rest>> \o Tail(rsp) /\ WorkerNext(wrk.count)
  <2>1. PICK t : t = Tail(rsp)
    OBVIOUS
  <2>2. PICK o : o = <<Rest>>
    OBVIOUS
  <2>3. IsList(o) /\ Len(o) = 1 /\ o[1].kind = "rest"
    <3>1. o \in Seq({Rest}) /\ Len(o) = 1 /\ o[1] = Rest
      BY <2>2
    <3>2. Rest.kind = "rest"
      BY DEF Rest
    <3> QED
      BY <3>1, <3>2 DEF IsList
  <2>4. /\ IsList(rsp') /\ Len(rsp') = Len(o) + Len(t)
        /\ \A i \in 1..(Len(o) + Len(t)) : rsp'[i] = IF i <= Len(o) THEN o[i] ELSE t[i - Len(o)]
    BY <1>3, <1>8, <2>1, <2>2, <2>3, JoinList
  <2>5. Len(t) \in Nat /\ \A j \in 1..Len(t) : t[j].kind # "rest"
    BY <1>3, <2>1, ListFacts
  <2>6. rsp'[1].kind = "rest" /\ \A j \in 1..Len(rsp') : j # 1 => rsp'[j].kind # "rest"
    <3>1. 1 \in 1..(Len(o) + Len(t)) /\ 1 <= Len(o)
      BY <2>3, <2>5
    <3>2. \A j \in 1..Len(rsp') : j # 1 => ~(j <= Len(o)) /\ j - Len(o) \in 1..Len(t)
      BY <2>3, <2>4, <2>5
    <3> QED
      BY <2>3, <2>4, <2>5, <3>1, <3>2
  <2>7. Lists'
    BY <1>1, <2>4, AppendList DEF IInv, Lists
  <2>8. RestOK'
    BY <1>2, <1>8, <2>6 DEF RestOK
  <2>9. rsp' # << >>
    BY <2>3, <2>4, <2>5, ListFacts
  <2>10. Dead'
    BY <2>6, <2>9 DEF Dead
  <2> QED
    BY <1>1, <1>4, <1>5, <1>6, <2>7, <2>8, <2>10, WorkerCuts DEF WorkerPasses
<1> QED
  BY <1>2, <1>7, <1>8

\* The worker ends, or spins.
LEMMA WorkerStopsInv ==
  ASSUME IInv, WorkerHalfRow \/ WorkerLosesServer \/ WorkerLosesClient
  PROVE  IInv'
<1>1. UNCHANGED <<cli, cmd, shown, broke, buf, hnd, up, req, down, rsp>>
  BY DEF WorkerHalfRow, WorkerLosesServer, WorkerLosesClient, client
<1>2. /\ wrk' = [pc |-> wrk'.pc, id |-> wrk'.id, count |-> wrk'.count]
      /\ wrk'.pc \in {"ended", "spin"}
      /\ wrk'.pc = "spin" => wrk.pc = "rows"
  BY DEF WorkerHalfRow, WorkerLosesServer, WorkerLosesClient, WorkerEnds, IInv, Shapes
<1>3. Lists'
  BY <1>1 DEF IInv, Lists
<1>4. Shapes'
  BY <1>1, <1>2 DEF IInv, Shapes
<1>5. RestOK'
  BY <1>1, <1>2 DEF IInv, RestOK
<1>6. Dead'
  BY <1>2 DEF Dead
<1>7. Moves
  BY <1>1 DEF Moves
<1> QED
  BY <1>1, <1>3, <1>4, <1>5, <1>6, <1>7, WorkerCuts DEF WorkerPasses

-----------------------------------------------------------------------------
(***************************************************************************)
(* The client reads ahead, and processes end.                              *)
(***************************************************************************)

LEMMA ClientFillsInv ==
  ASSUME IInv, ClientFills
  PROVE  IInv'
<1>1. /\ buf = << >> /\ down # << >>
      /\ UNCHANGED <<cli, cmd, shown, up, wrk, req, rsp, hnd, broke>>
  BY DEF ClientFills
<1>2. IsList(down) /\ IsList(Live) /\ IsList(Wire) /\ Lists
  BY LiveList, WireList DEF IInv, Lists
<1>3. PICK n \in 1..Len(down) : buf' = SubSeq(down, 1, n) /\ down' = SubSeq(down, n + 1, Len(down))
  <2>1. 1 \in 1..Len(down)
    BY <1>1, <1>2, ListFacts
  <2> QED
    BY <2>1 DEF ClientFills
<1>4. /\ SubSeq(down, 1, n) \o (SubSeq(down, n + 1, Len(down)) \o Live) = << >> \o (down \o Live)
      /\ IsList(buf') /\ IsList(down')
  BY <1>2, <1>3, FramesRead
<1>5. (Dead' <=> Dead) /\ (Quiet' <=> Quiet) /\ Live' = Live
  BY <1>1 DEF Dead, Quiet, Live
<1>6. Wire' = Wire
  BY <1>1, <1>3, <1>4, <1>5 DEF Wire
<1>7. Lists'
  BY <1>1, <1>4 DEF IInv, Lists
<1>8. Shapes'
  BY <1>1 DEF IInv, Shapes
<1>9. RestOK'
  BY <1>1 DEF IInv, RestOK
<1>10. Part(Wire, Wire', 0)
  BY <1>2, <1>6, PartSelf
<1>11. Quiet' \/ Passes
  BY <1>1, <1>5, <1>6 DEF Passes, Moves
<1> QED
  BY <1>1, <1>7, <1>8, <1>9, <1>10, <1>11, CutStep

LEMMA HandlerLosesWorkerInv ==
  ASSUME IInv, HandlerLosesWorker
  PROVE  IInv'
<1>1. wrk.pc = "ended" /\ UNCHANGED <<cli, cmd, shown, buf, up, down, wrk, req, rsp, broke>>
  BY DEF HandlerLosesWorker, client
<1>2. hnd' = [pc |-> hnd'.pc, cmd |-> hnd'.cmd, i |-> hnd'.i]
  BY DEF HandlerLosesWorker, IInv, Shapes
<1>3. Quiet' /\ Live' = Live /\ Wire' = Wire
  BY <1>1 DEF Quiet, Dead, Live, Wire
<1>4. Lists'
  BY <1>1 DEF IInv, Lists
<1>5. Shapes'
  BY <1>1, <1>2 DEF IInv, Shapes
<1>6. RestOK'
  BY <1>1 DEF IInv, RestOK
<1>7. Part(Wire, Wire', 0)
  BY <1>3, PartSelf, WireList DEF IInv
<1> QED
  BY <1>1, <1>3, <1>4, <1>5, <1>6, <1>7, CutStep

\* What the IO manager has not yet sent is lost, perhaps in the middle of a row.
LEMMA LostAtEnd ==
  ASSUME NEW s, IsList(s), NEW n \in 0..Len(s), NEW t,
         \/ t = SubSeq(s, 1, n)
         \/ n > 0 /\ s[n].kind = "row" /\ t = [SubSeq(s, 1, n) EXCEPT ![n] = HalfRow]
  PROVE  Part(s, t, 0)
<1>1. Len(s) \in Nat /\ n \in Nat /\ n <= Len(s)
  BY ListFacts
<1>2. PICK k : k = SubSeq(s, 1, n)
  OBVIOUS
<1>3. IsList(k) /\ Len(k) = n /\ \A i \in 1..n : k[i] = s[i]
  <2>1. /\ IsList(k) /\ Len(k) = n - 1 + 1
        /\ \A i \in 1..(n - 1 + 1) : k[i] = s[1 + i - 1]
    BY <1>1, <1>2, SubList
  <2>2. n - 1 + 1 = n /\ \A i \in 1..n : 1 + i - 1 = i
    BY <1>1
  <2> QED
    BY <2>1, <2>2
<1>4. CASE t = k
  BY <1>1, <1>3, <1>4 DEF Part
<1>5. CASE n > 0 /\ s[n].kind = "row" /\ t = [k EXCEPT ![n] = HalfRow]
  <2>1. PICK F : k \in Seq(F)
    BY <1>3 DEF IsList
  <2>2. k \in Seq(F \cup {HalfRow}) /\ HalfRow \in F \cup {HalfRow} /\ n \in 1..Len(k)
    BY <1>1, <1>3, <1>5, <2>1
  <2>3. t \in Seq(F \cup {HalfRow}) /\ Len(t) = Len(k)
    BY <1>5, <2>2, ExceptSeq
  <2>4. \A i \in 1..n : t[i] = IF i = n THEN HalfRow ELSE k[i]
    BY <1>3, <1>5, <2>2, ExceptSeq
  <2>5. IsList(t)
    BY <2>3 DEF IsList
  <2>6. \A i \in 1..Len(t) : t[i] = s[0 + i] \/ (IsRow(s[0 + i]) /\ t[i] = HalfRow)
    <3>1. ASSUME NEW i \in 1..Len(t) PROVE t[i] = s[i] \/ (IsRow(s[i]) /\ t[i] = HalfRow)
      BY <1>3, <1>5, <2>3, <2>4 DEF IsRow
    <3>2. \A i \in 1..Len(t) : 0 + i = i
      BY <1>1, <1>3, <2>3
    <3> QED
      BY <3>1, <3>2
  <2> QED
    BY <1>1, <1>3, <2>3, <2>5, <2>6 DEF Part
<1> QED
  BY <1>2, <1>4, <1>5

LEMMA ServerDiesInv ==
  ASSUME IInv, ServerDies
  PROVE  IInv'
<1>1. hnd' = [hnd EXCEPT !.pc = "ended"] /\ UNCHANGED <<cli, cmd, shown, buf, up, down, wrk, req, broke>>
  BY DEF ServerDies, client
<1>2. hnd' = [pc |-> hnd'.pc, cmd |-> hnd'.cmd, i |-> hnd'.i] /\ hnd'.pc = "ended"
  BY <1>1 DEF IInv, Shapes
<1>3. Lists /\ IsList(rsp) /\ IsList(buf) /\ IsList(down) /\ IsList(Live)
  BY LiveList DEF IInv, Lists
<1>4. Part(rsp, rsp', 0)
  BY <1>3, LostAtEnd DEF ServerDies
<1>5. /\ IsList(rsp') /\ Len(rsp') \in Nat /\ Len(rsp) \in Nat /\ Len(rsp') <= Len(rsp)
      /\ \A j \in 1..Len(rsp') : j \in 1..Len(rsp) /\ (rsp'[j] = rsp[j] \/ (IsRow(rsp[j]) /\ rsp'[j] = HalfRow))
  <2>1. IsList(rsp')
    BY <1>4 DEF Part
  <2>2. Len(rsp') \in Nat /\ Len(rsp) \in Nat
    BY <1>3, <2>1, ListFacts
  <2>3. Len(rsp') + 0 <= Len(rsp) /\ \A j \in 1..Len(rsp') : 0 + j = j
    BY <1>4, <2>2 DEF Part
  <2> QED
    BY <1>4, <2>1, <2>2, <2>3 DEF Part
<1>6. Lists'
  BY <1>1, <1>5 DEF IInv, Lists
<1>7. Shapes'
  BY <1>1, <1>2 DEF IInv, Shapes
<1>8. RestOK'
  <2>1. HalfRow.kind = "half"
    BY DEF HalfRow
  <2> QED
    BY <1>1, <1>5, <2>1 DEF IInv, RestOK
<1>9. Quiet'
  BY <1>2 DEF Quiet
<1>10. Part(Live, Live', 0)
  <2>1. CASE Live' = << >>
    BY <1>3, <2>1, PartEmpty
  <2>2. CASE Live' # << >>
    <3>1. ~Dead' /\ Live' = rsp' /\ rsp' # << >>
      BY <2>2 DEF Live
    <3>2. 1 \in 1..Len(rsp') /\ 1 \in 1..Len(rsp) /\ rsp # << >>
      BY <1>3, <1>5, <3>1, ListFacts
    <3>3. ~Dead
      <4>1. rsp[1].kind = "rest" => rsp'[1] = rsp[1]
        BY <1>5, <3>2 DEF IsRow
      <4> QED
        BY <1>1, <3>1, <3>2, <4>1 DEF Dead
    <3> QED
      BY <1>4, <3>1, <3>3 DEF Live
  <2> QED
    BY <2>1, <2>2
<1>11. Part(Wire, Wire', 0)
  <2>1. Part(buf \o (down \o Live), buf \o (down \o Live'), 0)
    BY <1>3, <1>10, CutAtEnd
  <2> QED
    BY <1>1, <2>1 DEF Wire
<1> QED
  BY <1>1, <1>6, <1>7, <1>8, <1>9, <1>11, CutStep

-----------------------------------------------------------------------------
(***************************************************************************)
(* The handler sends.                                                      *)
(***************************************************************************)

\* v is w with x after it.
Longer(w, x, v) ==
    /\ IsList(w) /\ IsList(x) /\ IsList(v)
    /\ Len(w) \in Nat /\ Len(x) \in Nat /\ Len(v) = Len(w) + Len(x)
    /\ \A j \in 1..Len(w) : v[j] = w[j]
    /\ \A j \in 1..Len(x) : v[Len(w) + j] = x[j]

LEMMA JoinLonger ==
  ASSUME NEW w, IsList(w), NEW x, IsList(x), NEW v, v = w \o x
  PROVE  Longer(w, x, v)
<1>1. Len(w) \in Nat /\ Len(x) \in Nat
  BY ListFacts
<1>2. /\ IsList(v) /\ Len(v) = Len(w) + Len(x)
      /\ \A i \in 1..(Len(w) + Len(x)) : v[i] = IF i <= Len(w) THEN w[i] ELSE x[i - Len(w)]
  BY JoinList
<1>3. ASSUME NEW j \in 1..Len(w) PROVE v[j] = w[j]
  BY <1>1, <1>2
<1>4. ASSUME NEW j \in 1..Len(x) PROVE v[Len(w) + j] = x[j]
  <2>1. /\ Len(w) + j \in 1..(Len(w) + Len(x)) /\ ~(Len(w) + j <= Len(w))
        /\ (Len(w) + j) - Len(w) = j
    BY <1>1
  <2> QED
    BY <1>2, <2>1
<1> QED
  BY <1>1, <1>2, <1>3, <1>4 DEF Longer

Regroups(b, e, x) == (b \o e) \o x = b \o (e \o x)

LEMMA ListsRegroup ==
  ASSUME NEW F, NEW b \in Seq(F), NEW e \in Seq(F), NEW x \in Seq(F)
  PROVE  Regroups(b, e, x)
BY ConcatAssociative DEF Regroups

\* The frames sent come last of all that is on its way.
LEMMA SentComesLast ==
  ASSUME NEW b, IsList(b), NEW d, IsList(d), NEW l, IsList(l), NEW x, IsList(x)
  PROVE  Longer(b \o (d \o l), x, b \o (d \o (l \o x)))
<1>1. PICK B, D, L, X : b \in Seq(B) /\ d \in Seq(D) /\ l \in Seq(L) /\ x \in Seq(X)
  BY DEF IsList
<1>2. PICK F : F = B \cup D \cup L \cup X
  OBVIOUS
<1>3. b \in Seq(F) /\ d \in Seq(F) /\ l \in Seq(F) /\ x \in Seq(F)
  BY <1>1, <1>2
<1>4. d \o l \in Seq(F) /\ b \o (d \o l) \in Seq(F)
  BY <1>3
<1>5. (d \o l) \o x = d \o (l \o x)
  <2>1. Regroups(d, l, x)
    BY <1>3, ListsRegroup, Zenon
  <2> QED
    BY <2>1 DEF Regroups
<1>6. (b \o (d \o l)) \o x = b \o ((d \o l) \o x)
  <2>1. PICK e : e = d \o l
    OBVIOUS
  <2>2. e \in Seq(F)
    BY <1>4, <2>1
  <2>3. Regroups(b, e, x)
    BY <1>3, <2>2, ListsRegroup, Zenon
  <2> QED
    BY <2>1, <2>3 DEF Regroups
<1>7. b \o (d \o (l \o x)) = (b \o (d \o l)) \o x
  BY <1>5, <1>6
<1>8. PICK w : w = b \o (d \o l)
  OBVIOUS
<1>9. IsList(w)
  BY <1>4, <1>8 DEF IsList
<1>10. Longer(w, x, w \o x)
  BY <1>9, JoinLonger
<1> QED
  BY <1>7, <1>8, <1>10

\* The handler appends the frames x, none of them the tail of a message.
Sends(x) ==
    /\ IsList(x) /\ \A j \in 1..Len(x) : x[j].kind # "rest"
    /\ rsp' = rsp \o x
    /\ UNCHANGED <<cli, cmd, shown, buf, up, down, wrk>>

LEMMA SendsFacts ==
  ASSUME IInv, NEW x, Sends(x)
  PROVE  /\ IsList(rsp') /\ RestOK'
         /\ Dead => Dead' /\ Wire' = Wire
         /\ ~Dead => ~Dead' /\ Longer(Wire, x, Wire')
<1>1. /\ IsList(x) /\ (\A j \in 1..Len(x) : x[j].kind # "rest")
      /\ rsp' = rsp \o x /\ UNCHANGED <<cli, cmd, shown, buf, up, down, wrk>>
  BY DEF Sends
<1>2. Lists /\ IsList(rsp) /\ IsList(buf) /\ IsList(down) /\ Len(rsp) \in Nat
  BY ListFacts DEF IInv, Lists
<1>3. Longer(rsp, x, rsp')
  BY <1>1, <1>2, JoinLonger
<1>4. /\ IsList(rsp') /\ Len(rsp') = Len(rsp) + Len(x) /\ Len(x) \in Nat
      /\ \A j \in 1..Len(rsp) : rsp'[j] = rsp[j]
      /\ \A j \in 1..Len(x) : rsp'[Len(rsp) + j] = x[j]
  BY <1>3 DEF Longer
<1>5. ASSUME NEW j \in 1..Len(rsp'), ~(j \in 1..Len(rsp)) PROVE rsp'[j].kind # "rest"
  <2>1. j - Len(rsp) \in 1..Len(x) /\ Len(rsp) + (j - Len(rsp)) = j
    BY <1>2, <1>4, <1>5
  <2> QED
    BY <1>1, <1>4, <2>1
<1>6. RestOK'
  <2>1. ASSUME NEW j \in 1..Len(rsp'), rsp'[j].kind = "rest"
        PROVE  j = 1 /\ wrk'.pc \in {"response", "idle", "ended"}
    <3>1. j \in 1..Len(rsp) /\ rsp[j].kind = "rest"
      BY <1>4, <1>5, <2>1
    <3> QED
      BY <1>1, <3>1 DEF IInv, RestOK
  <2> QED
    BY <2>1 DEF RestOK
<1>7. ASSUME Dead PROVE Dead' /\ Wire' = Wire
  <2>1. Dead'
    <3>1. CASE wrk.pc \in {"ended", "spin"}
      BY <1>1, <3>1 DEF Dead
    <3>2. CASE rsp # << >> /\ rsp[1].kind = "rest"
      <4>1. 1 \in 1..Len(rsp) /\ Len(rsp') # 0
        BY <1>2, <1>4, <3>2, ListFacts
      <4>2. rsp' # << >> /\ rsp'[1] = rsp[1]
        BY <1>4, <4>1, ListFacts
      <4> QED
        BY <3>2, <4>2 DEF Dead
    <3> QED
      BY <1>7, <3>1, <3>2 DEF Dead
  <2>2. Live' = Live
    BY <1>7, <2>1 DEF Live
  <2> QED
    BY <1>1, <2>1, <2>2 DEF Wire
<1>8. ASSUME ~Dead PROVE ~Dead' /\ Longer(Wire, x, Wire')
  <2>1. ~Dead'
    <3>1. wrk'.pc \notin {"ended", "spin"}
      BY <1>1, <1>8 DEF Dead
    <3>2. ASSUME rsp' # << >> PROVE rsp'[1].kind # "rest"
      <4>1. 1 \in 1..Len(rsp')
        BY <1>4, <3>2, ListFacts
      <4>2. CASE 1 \in 1..Len(rsp)
        <5>1. rsp # << >>
          BY <1>2, <4>2, ListFacts
        <5> QED
          BY <1>4, <1>8, <4>2, <5>1 DEF Dead
      <4>3. CASE ~(1 \in 1..Len(rsp))
        BY <1>5, <4>1, <4>3
      <4> QED
        BY <4>2, <4>3
    <3> QED
      BY <3>1, <3>2 DEF Dead
  <2>2. Live' = rsp \o x /\ Live = rsp
    BY <1>1, <1>8, <2>1 DEF Live
  <2>3. Longer(buf \o (down \o rsp), x, buf \o (down \o (rsp \o x)))
    BY <1>1, <1>2, SentComesLast
  <2>4. Wire = buf \o (down \o rsp) /\ Wire' = buf \o (down \o (rsp \o x))
    BY <1>1, <2>2 DEF Wire
  <2> QED
    BY <2>1, <2>3, <2>4
<1> QED
  BY <1>4, <1>6, <1>7, <1>8

\* What the handler sends to a worker that reads no more is lost.
LEMMA SentInVain ==
  ASSUME IInv, Dead, NEW x, Sends(x), IsList(req'), broke => broke', broke' \in BOOLEAN,
         hnd' = [pc |-> hnd'.pc, cmd |-> hnd'.cmd, i |-> hnd'.i]
  PROVE  IInv'
<1>1. IsList(rsp') /\ RestOK' /\ Dead' /\ Wire' = Wire
  BY SendsFacts
<1>2. UNCHANGED <<cli, cmd, shown, buf, up, down, wrk>>
  BY DEF Sends
<1>3. Lists'
  BY <1>1, <1>2 DEF IInv, Lists
<1>4. Shapes'
  BY <1>2 DEF IInv, Shapes
<1>5. Part(Wire, Wire', 0)
  BY <1>1, PartSelf, WireList DEF IInv
<1>6. Quiet'
  BY <1>1 DEF Quiet
<1> QED
  BY <1>1, <1>2, <1>3, <1>4, <1>5, <1>6, CutStep

LEMMA OneFrame == ASSUME NEW f, NEW x, x = <<f>> PROVE IsList(x) /\ Len(x) = 1 /\ x[1] = f
<1>1. x \in Seq({f}) /\ Len(x) = 1 /\ x[1] = f
  OBVIOUS
<1> QED
  BY <1>1 DEF IsList

LEMMA OneMore == ASSUME NEW s, IsList(s), NEW f PROVE Append(s, f) = s \o <<f>>
<1>1. PICK F : s \in Seq(F)
  BY DEF IsList
<1>2. s \in Seq(F \cup {f}) /\ f \in F \cup {f}
  BY <1>1
<1> QED
  BY <1>2, AppendIsConcat

\* The message that the handler reads was the only one.
LEMMA LastAsked ==
  ASSUME Lists, req # << >>, Asked, up' = up, req' = Tail(req)
  PROVE  Nowhere'
<1>1. up = << >> /\ Len(req) = 1
  BY DEF Asked
<1>2. IsList(req') /\ Len(req') = 0
  BY <1>1, TailList DEF Lists
<1>3. req' = << >>
  BY <1>2, ListFacts
<1> QED
  BY <1>1, <1>3 DEF Nowhere

LEMMA HandlerAuthenticatesInv ==
  ASSUME IInv, HandlerAuthenticates
  PROVE  IInv'
<1>1. /\ hnd.pc \in {"begin", "auth"} /\ req # << >> /\ req' = Tail(req)
      /\ UNCHANGED <<cli, cmd, shown, buf, up, down, wrk, broke>>
  BY DEF HandlerAuthenticates, client
<1>2. PICK ok \in BOOLEAN :
        /\ rsp' = Append(rsp, Answer(ok))
        /\ hnd' = [hnd EXCEPT !.pc = IF ~ok THEN "ended" ELSE IF @ = "begin" THEN "auth" ELSE "idle"]
  BY DEF HandlerAuthenticates
<1>3. /\ hnd' = [pc |-> hnd'.pc, cmd |-> hnd'.cmd, i |-> hnd'.i]
      /\ hnd'.pc = "ended" \/ (hnd.pc = "begin" /\ hnd'.pc = "auth") \/ (hnd.pc = "auth" /\ hnd'.pc = "idle")
  <2>1. hnd = [pc |-> hnd.pc, cmd |-> hnd.cmd, i |-> hnd.i]
    BY DEF IInv, Shapes
  <2> QED
    BY <1>1, <1>2, <2>1
<1>4. PICK x : x = <<Answer(ok)>>
  OBVIOUS
<1>5. IsList(x) /\ Len(x) = 1 /\ x[1] = Answer(ok) /\ x[1].kind = "answer"
  <2>1. IsList(x) /\ Len(x) = 1 /\ x[1] = Answer(ok)
    BY <1>4, OneFrame
  <2> QED
    BY <2>1 DEF Answer
<1>6. Sends(x)
  <2>1. rsp' = rsp \o x
    BY <1>2, <1>4, OneMore DEF IInv, Lists
  <2>2. \A j \in 1..Len(x) : x[j].kind # "rest"
    BY <1>5
  <2> QED
    BY <1>1, <1>5, <2>1, <2>2 DEF Sends
<1>7. IsList(req') /\ Lists
  BY <1>1, TailList DEF IInv, Lists
<1>8. CASE Dead
  <2>1. (broke => broke') /\ broke' \in BOOLEAN
    BY <1>1 DEF IInv, Shapes
  <2> QED
    BY <1>3, <1>6, <1>7, <1>8, <2>1, SentInVain
<1>9. CASE ~Dead
  <2>1. IsList(rsp') /\ RestOK' /\ ~Dead' /\ Longer(Wire, x, Wire')
    BY <1>6, <1>9, SendsFacts
  <2>2. Lists'
    BY <1>1, <1>7, <2>1 DEF IInv, Lists
  <2>3. Shapes'
    BY <1>1, <1>3 DEF IInv, Shapes
  <2>4. ShownOK'
    BY <1>1 DEF IInv, ShownOK
  <2>5. ~Quiet
    BY <1>1, <1>9 DEF Quiet
  <2>6. ASSUME cli.pc \in {"connect", "begin", "auth"} PROVE Handshake'
    <3>1. Handshake
      BY <2>6 DEF IInv, ClientOK
    <3>2. /\ shown = << >> /\ Asked /\ Wire = << >>
          /\ \/ cli.pc = "begin" /\ hnd.pc = "begin"
             \/ cli.pc = "auth" /\ hnd.pc = "auth"
      BY <1>1, <2>5, <3>1 DEF Handshake, Nowhere
    <3>3. Len(Wire) = 0
      BY <3>2, EmptyList
    <3>4. PICK v : v = Wire'
      OBVIOUS
    <3>5. Len(v) = 0 + 1 /\ \A j \in 1..1 : v[0 + j] = x[j]
      BY <1>5, <2>1, <3>3, <3>4 DEF Longer
    <3>6. Len(v) = 1 /\ v[1].kind = "answer"
      <4>1. v[0 + 1] = x[1] /\ 0 + 1 = 1
        BY <3>5
      <4> QED
        BY <1>5, <3>5, <4>1
    <3>7. Len(v) <= 1 /\ \A p \in 1..Len(v) : v[p].kind = "answer"
      BY <3>6
    <3>8. Nowhere'
      BY <1>1, <1>7, <3>2, LastAsked
    <3>9. \/ hnd'.pc = "ended"
          \/ cli'.pc = "begin" /\ hnd'.pc = "auth"
          \/ cli'.pc = "auth" /\ hnd'.pc = "idle"
      BY <1>1, <1>3, <3>2
    <3>10. shown' = << >>
      BY <1>1, <3>2
    <3> QED
      BY <3>4, <3>7, <3>8, <3>9, <3>10 DEF Handshake, Quiet
  <2>7. ASSUME cli.pc \notin {"connect", "begin", "auth"} PROVE cli.pc = "closed"
    <3>1. ~Unread /\ ~Running /\ ~Finished
      BY <1>1 DEF Unread, Running, Finished
    <3>2. ~AtIdle /\ ~AtResponse /\ ~AtRows
      BY <2>5, <3>1 DEF AtIdle, AtResponse, AtRows
    <3> QED
      BY <2>7, <3>2 DEF IInv, ClientOK
  <2>8. ClientOK'
    BY <1>1, <2>6, <2>7 DEF ClientOK
  <2> QED
    BY <2>1, <2>2, <2>3, <2>4, <2>8 DEF IInv
<1> QED
  BY <1>8, <1>9

\* What a command may be.
LEMMA CommandFacts ==
  ASSUME IInv
  PROVE  /\ IsList(cmd) /\ Len(cmd) \in Nat
         /\ cmd = <<"syntax">> \/ \A i \in 1..Len(cmd) : cmd[i] \in Kinds \ {"syntax"}
<1>1. cmd = << >> \/ cmd = <<"syntax">> \/ cmd \in Seq(Kinds \ {"syntax"})
  BY SessionAssumption DEF IInv, Shapes
<1>2. << >> \in Seq(Kinds \ {"syntax"})
  BY EmptySeq
<1>3. CASE cmd = <<"syntax">>
  BY <1>3, OneFrame
<1>4. CASE cmd \in Seq(Kinds \ {"syntax"})
  <2>1. IsList(cmd)
    BY <1>4 DEF IsList
  <2>2. Len(cmd) \in Nat /\ \A i \in 1..Len(cmd) : cmd[i] \in Kinds \ {"syntax"}
    BY <1>4
  <2> QED
    BY <2>1, <2>2
<1> QED
  BY <1>1, <1>2, <1>3, <1>4

\* The frames of a response.
LEMMA ResponseFields ==
  ASSUME NEW of, NEW id, NEW count, NEW result, NEW f, f = Response(of, id, count, result)
  PROVE  /\ IsResponse(f) /\ f.kind = "response" /\ f.of = of /\ f.id = id
         /\ f.count = count /\ f.result = result
BY DEF Response, IsResponse

LEMMA EmptyPiece ==
  ASSUME NEW c, NEW b, NEW i
  PROVE  Piece(<< >>, c, b) /\ Open(<< >>, c, i)
BY EmptyList DEF Piece, Open

\* The handler reads a command that has not a statement, or that SqlParser
\* refuses, or begins with its first statement.
LEMMA UnreadStep ==
  ASSUME IInv, ~Dead, Unread, AtResponse, req # << >>, HandlerReads, NEW x, Sends(x),
         \/ cmd = <<"syntax">> /\ x = ErrorResponse(1) /\ hnd' = hnd
         \/ /\ cmd # <<"syntax">> /\ x = << >>
            /\ hnd' = [pc |-> IF cmd = << >> THEN "idle" ELSE "statement", cmd |-> cmd, i |-> 1]
  PROVE  AtResponse'
<1>1. UNCHANGED <<cli, cmd, shown, buf, up, down, wrk, broke>> /\ req' = Tail(req)
  BY DEF HandlerReads, client
<1>2. Wire = << >> /\ hnd.pc = "idle" /\ up = << >> /\ req = <<Command(cmd)>>
      /\ cli.pc = "response" /\ cli.id = 0
  BY DEF Unread
<1>3. Nowhere'
  BY <1>1, <1>2 DEF Nowhere
<1>4. PICK v : v = Wire'
  OBVIOUS
<1>5. Longer(Wire, x, v) /\ Len(Wire) = 0
  BY <1>2, <1>4, SendsFacts, EmptyList
<1>6. /\ IsList(v) /\ Len(v) = Len(x) /\ Len(x) \in Nat
      /\ \A j \in 1..Len(x) : v[j] = x[j]
  <2>1. /\ IsList(v) /\ Len(v) = 0 + Len(x) /\ Len(x) \in Nat
        /\ \A j \in 1..Len(x) : v[0 + j] = x[j]
    BY <1>5 DEF Longer
  <2>2. 0 + Len(x) = Len(x) /\ \A j \in 1..Len(x) : 0 + j = j
    BY <2>1
  <2> QED
    BY <2>1, <2>2
<1>7. cli'.id = Len(shown') /\ ~(cli'.id > 0) /\ cli'.id = 0
  BY <1>1, <1>2 DEF AtResponse
<1>8. CASE cmd = <<"syntax">> /\ x = ErrorResponse(1) /\ hnd' = hnd
  <2>1. Len(x) = 1 /\ x[1] = Response(1, 0, 1, "error")
    BY <1>8, OneFrame DEF ErrorResponse
  <2>2. Len(v) = 1 /\ v[1] = Response(1, 0, 1, "error")
    BY <1>6, <2>1
  <2>3. /\ IsResponse(v[1]) /\ v[1].kind = "response" /\ v[1].of = 1 /\ v[1].id = 0
        /\ v[1].count = 1 /\ v[1].result = "error"
    BY <2>2, ResponseFields
  <2>4. Len(cmd) = 1 /\ cmd[1] = "syntax" /\ Refused(cmd[1])
    BY <1>8, OneFrame DEF Refused
  <2>5. Truthful(v[1], cmd)
    BY <2>3, <2>4 DEF Truthful
  <2>6. Follows(v, 1, cmd)
    BY <2>2, <2>3, <2>4 DEF Follows
  <2>7. Piece(v, cmd, broke)
    <3>1. ASSUME NEW p \in 1..Len(v) PROVE p = 1
      BY <2>2
    <3>2. cmd[v[1].of] # "breaks"
      BY <2>3, <2>4
    <3> QED
      BY <2>3, <2>5, <2>6, <3>1, <3>2 DEF Piece
  <2>8. Finished'
    BY <1>2, <1>3, <1>8 DEF Finished
  <2> QED
    BY <1>1, <1>4, <1>7, <2>3, <2>7, <2>8 DEF AtResponse
<1>9. CASE /\ cmd # <<"syntax">> /\ x = << >>
           /\ hnd' = [pc |-> IF cmd = << >> THEN "idle" ELSE "statement", cmd |-> cmd, i |-> 1]
  <2>1. v = << >>
    BY <1>6, <1>9, EmptyList, ListFacts
  <2>2. Piece(v, cmd, broke) /\ Open(v, cmd, hnd'.i)
    BY <2>1, EmptyPiece
  <2>3. Finished' \/ Running'
    <3>1. CASE cmd = << >>
      BY <1>3, <1>9, <3>1 DEF Finished
    <3>2. CASE cmd # << >>
      <4>1. hnd'.pc = "statement" /\ hnd'.cmd = cmd' /\ hnd'.i = 1 /\ cmd' # <<"syntax">>
        BY <1>1, <1>9, <3>2
      <4>2. 1 \in 1..Len(cmd')
        BY <1>1, <3>2, CommandFacts, ListFacts
      <4>3. Len(shown') < 1
        BY <1>7
      <4>4. Open(Wire', cmd', hnd'.i)
        BY <1>1, <1>4, <2>2
      <4>5. cli'.pc # "rows"
        BY <1>1, <1>2
      <4> QED
        BY <1>3, <4>1, <4>2, <4>3, <4>4, <4>5 DEF Running
    <3> QED
      BY <3>1, <3>2
  <2> QED
    BY <1>1, <1>4, <1>7, <2>1, <2>2, <2>3 DEF AtResponse
<1> QED
  BY <1>8, <1>9

LEMMA HandlerReadsInv ==
  ASSUME IInv, HandlerReads
  PROVE  IInv'
<1>1. /\ hnd.pc = "idle" /\ req # << >> /\ req' = Tail(req)
      /\ UNCHANGED <<cli, cmd, shown, buf, up, down, wrk, broke>>
  BY DEF HandlerReads, client
<1>2. PICK c : c = Head(req).stmts
  OBVIOUS
<1>3. \/ c = <<"syntax">> /\ rsp' = rsp \o ErrorResponse(1) /\ hnd' = hnd
      \/ /\ c # <<"syntax">> /\ rsp' = rsp
         /\ hnd' = [pc |-> IF c = << >> THEN "idle" ELSE "statement", cmd |-> c, i |-> 1]
  BY <1>2 DEF HandlerReads
<1>4. PICK x : x = IF c = <<"syntax">> THEN ErrorResponse(1) ELSE << >>
  OBVIOUS
<1>5. IsList(x) /\ \A j \in 1..Len(x) : x[j].kind # "rest"
  <2>1. CASE x = << >>
    BY <2>1, EmptyList
  <2>2. CASE x = ErrorResponse(1)
    <3>1. IsList(x) /\ Len(x) = 1 /\ x[1] = Response(1, 0, 1, "error")
      BY <2>2, OneFrame DEF ErrorResponse
    <3> QED
      BY <3>1, ResponseFields
  <2> QED
    BY <1>4, <2>1, <2>2
<1>6. rsp' = rsp \o x
  <2>1. rsp \o << >> = rsp
    <3>1. PICK F : rsp \in Seq(F)
      BY DEF IInv, Lists, IsList
    <3> QED
      BY <3>1, ConcatEmptySeq
  <2> QED
    BY <1>3, <1>4, <2>1
<1>7. Sends(x)
  BY <1>1, <1>5, <1>6 DEF Sends
<1>8. hnd' = [pc |-> hnd'.pc, cmd |-> hnd'.cmd, i |-> hnd'.i]
  <2>1. hnd = [pc |-> hnd.pc, cmd |-> hnd.cmd, i |-> hnd.i]
    BY DEF IInv, Shapes
  <2> QED
    BY <1>3, <2>1
<1>9. IsList(req') /\ Lists
  BY <1>1, TailList DEF IInv, Lists
<1>10. CASE Dead
  <2>1. (broke => broke') /\ broke' \in BOOLEAN
    BY <1>1 DEF IInv, Shapes
  <2> QED
    BY <1>7, <1>8, <1>9, <1>10, <2>1, SentInVain
<1>11. CASE ~Dead
  <2>1. IsList(rsp') /\ RestOK'
    BY <1>7, SendsFacts
  <2>2. Lists'
    BY <1>1, <1>9, <2>1 DEF IInv, Lists
  <2>3. Shapes'
    BY <1>1, <1>8 DEF IInv, Shapes
  <2>4. ShownOK'
    BY <1>1 DEF IInv, ShownOK
  <2>5. ~Quiet
    BY <1>1, <1>11 DEF Quiet
  <2>6. ~Nowhere /\ ~Finished /\ ~Running
    BY <1>1 DEF Nowhere, Finished, Running
  <2>7. ~Handshake /\ ~AtIdle /\ ~AtRows
    BY <1>1, <2>5, <2>6 DEF Handshake, AtIdle, AtRows
  <2>8. ASSUME cli.pc = "response" PROVE AtResponse'
    <3>1. AtResponse
      BY <2>8 DEF IInv, ClientOK
    <3>2. Unread
      BY <2>5, <2>6, <3>1 DEF AtResponse
    <3>3. req = <<Command(cmd)>>
      BY <1>1, <3>2 DEF Unread
    <3>4. c = cmd
      BY <1>2, <3>3 DEF Command
    <3> QED
      BY <1>1, <1>3, <1>4, <1>7, <1>11, <3>1, <3>2, <3>4, UnreadStep
  <2>9. ClientOK'
    BY <1>1, <2>7, <2>8 DEF IInv, ClientOK
  <2> QED
    BY <2>1, <2>2, <2>3, <2>4, <2>9 DEF IInv
<1> QED
  BY <1>10, <1>11

\* What statement i of the statements c gives.
Block(x, c, i) ==
    /\ IsList(x) /\ Len(x) \in {1, 3}
    /\ IsResponse(x[1]) /\ Truthful(x[1], c) /\ x[1].of = i
    /\ Len(x) = 1 => x[1].result # "rows"
    /\ Len(x) = 3 =>
          /\ x[1].result = "rows" /\ ~Refused(c[i])
          /\ x[2].kind = "row"
          /\ IF c[i] = "rows" THEN x[3].kind = "end"
             ELSE IsResponse(x[3]) /\ Truthful(x[3], c) /\ x[3].of = i /\ x[3].result = "error"

LEMMA OutputIsBlock ==
  ASSUME NEW c, IsList(c), NEW i \in 1..Len(c), c[i] \in Kinds \ {"syntax"}, NEW x,
         x = IF c[i] = "bad" THEN ErrorResponse(i) ELSE Output(c[i], i, Len(c))
  PROVE  Block(x, c, i)
<1>1. Len(c) \in Nat
  BY ListFacts
<1>2. CASE c[i] = "bad"
  <2>1. IsList(x) /\ Len(x) = 1 /\ x[1] = Response(i, 0, 1, "error")
    BY <1>2, OneFrame DEF ErrorResponse
  <2>2. /\ IsResponse(x[1]) /\ x[1].of = i /\ x[1].id = 0 /\ x[1].count = 1
        /\ x[1].result = "error"
    BY <2>1, ResponseFields
  <2>3. Truthful(x[1], c)
    BY <1>2, <2>2 DEF Truthful, Refused
  <2> QED
    BY <2>1, <2>2, <2>3 DEF Block
<1>3. CASE c[i] \in {"done", "error"}
  <2>1. x = <<Response(i, i - 1, Len(c), c[i])>>
    BY <1>3 DEF Output
  <2>2. IsList(x) /\ Len(x) = 1 /\ x[1] = Response(i, i - 1, Len(c), c[i])
    BY <2>1, OneFrame
  <2>3. /\ IsResponse(x[1]) /\ x[1].of = i /\ x[1].id = i - 1 /\ x[1].count = Len(c)
        /\ x[1].result = c[i]
    BY <2>2, ResponseFields
  <2>4. Truthful(x[1], c)
    BY <1>3, <2>3 DEF Truthful, Refused
  <2>5. Len(x) \in {1, 3} /\ Len(x) # 3
    <3>1. Len(x) = 1
      BY <2>2, Zenon
    <3> QED
      BY <3>1
  <2>6. x[1].result # "rows"
    <3>1. PICK k : k = c[i]
      OBVIOUS
    <3>2. k # "rows"
      BY <1>3, <3>1
    <3> QED
      BY <2>3, <3>1, <3>2, Zenon
  <2> QED
    BY <2>2, <2>3, <2>4, <2>5, <2>6, Zenon DEF Block
<1>4. CASE c[i] \in {"rows", "breaks"}
  <2>1. PICK f : f = Response(i, i - 1, Len(c), "rows")
    OBVIOUS
  <2>2. PICK g : g = IF c[i] = "rows" THEN EndOfRows ELSE Response(i, i - 1, Len(c), "error")
    OBVIOUS
  <2>3. x = <<f, Row, g>>
    BY <1>4, <2>1, <2>2 DEF Output
  <2>4. IsList(x) /\ Len(x) = 3 /\ x[1] = f /\ x[2] = Row /\ x[3] = g
    <3>1. x \in Seq({f, Row, g})
      <4>1. f \in {f, Row, g} /\ Row \in {f, Row, g} /\ g \in {f, Row, g}
        OBVIOUS
      <4>2. PICK F : F = {f, Row, g}
        OBVIOUS
      <4>3. <<f, Row, g>> \in Seq(F)
        BY <4>1, <4>2
      <4> QED
        BY <2>3, <4>2, <4>3
    <3>2. Len(x) = 3 /\ x[1] = f /\ x[2] = Row /\ x[3] = g
      BY <2>3
    <3> QED
      BY <3>1, <3>2 DEF IsList
  <2>5. IsResponse(f) /\ f.of = i /\ f.id = i - 1 /\ f.count = Len(c) /\ f.result = "rows"
    BY <2>1, ResponseFields
  <2>6. Truthful(f, c) /\ ~Refused(c[i])
    BY <1>4, <2>5 DEF Truthful, Refused
  <2>7. Row.kind = "row" /\ EndOfRows.kind = "end"
    BY DEF Row, EndOfRows
  <2>8. CASE c[i] = "rows"
    <3>1. g.kind = "end"
      BY <2>2, <2>7, <2>8
    <3> QED
      BY <2>4, <2>5, <2>6, <2>7, <2>8, <3>1 DEF Block
  <2>9. CASE c[i] = "breaks"
    <3>1. g = Response(i, i - 1, Len(c), "error")
      BY <2>2, <2>9
    <3>2. IsResponse(g) /\ g.of = i /\ g.id = i - 1 /\ g.count = Len(c) /\ g.result = "error"
      BY <3>1, ResponseFields
    <3>3. Truthful(g, c)
      BY <2>9, <3>2 DEF Truthful, Refused
    <3> QED
      BY <2>4, <2>5, <2>6, <2>7, <2>9, <3>2, <3>3 DEF Block
  <2> QED
    BY <1>4, <2>8, <2>9
<1> QED
  BY <1>2, <1>3, <1>4 DEF Kinds

LEMMA NewPlaces ==
  ASSUME NEW m \in Nat, NEW k \in {1, 3}, NEW n, n = m + k, NEW p \in 1..n
  PROVE  \/ p \in 1..m \/ p = m + 1
         \/ (p = m + 2 /\ k = 3) \/ (p = m + 3 /\ k = 3)
<1>1. CASE k = 1
  BY <1>1
<1>2. CASE k = 3
  BY <1>2
<1> QED
  BY <1>1, <1>2

\* A piece goes on with what the next statement gives.
LEMMA PieceGrows ==
  ASSUME NEW w, NEW x, NEW v, Longer(w, x, v), NEW c, NEW i \in Nat, Block(x, c, i), Open(w, c, i),
         NEW b, NEW d, b => d, c[i] = "breaks" => d, Piece(w, c, b)
  PROVE  Piece(v, c, d)
<1>0. Len(w) \in Nat /\ Len(x) \in {1, 3} /\ Len(v) = Len(w) + Len(x)
  BY DEF Longer, Block
<1>1. /\ Len(w) \in Nat /\ Len(x) \in {1, 3} /\ Len(v) = Len(w) + Len(x)
      /\ \A j \in 1..Len(w) : v[j] = w[j]
      /\ \A j \in 1..Len(x) : v[Len(w) + j] = x[j]
  BY DEF Longer, Block
<1>2. v[Len(w) + 1] = x[1] /\ (Len(x) = 3 => v[Len(w) + 2] = x[2] /\ v[Len(w) + 3] = x[3])
  BY <1>1
<1>3. ASSUME NEW p \in 1..Len(w), IsResponse(w[p])
      PROVE  Truthful(v[p], c) /\ Follows(v, p, c) /\ (c[v[p].of] = "breaks" => d)
  <2>1. Truthful(w[p], c) /\ Follows(w, p, c) /\ (c[w[p].of] = "breaks" => b)
    BY <1>3 DEF Piece
  <2>2. /\ w[p].of < i /\ ~Refused(c[w[p].of])
        /\ w[p].result = "rows" => p + 2 <= Len(w)
        /\ w[p].result # "rows" /\ p = Len(w) => w[p].of = i - 1
        /\ w[p].result = "rows" /\ c[w[p].of] = "rows" /\ p + 2 = Len(w) => w[p].of = i - 1
    BY <1>3 DEF Open
  <2>3. IsResponse(x[1]) /\ x[1].of = i /\ (i - 1) + 1 = i
    BY DEF Block
  <2>4. v[p] = w[p] /\ p \in Nat
    BY <1>1
  <2>5. v[p].result # "rows" /\ p + 1 <= Len(v) =>
          IsResponse(v[p + 1]) /\ v[p + 1].of = v[p].of + 1
    <3>1. CASE p + 1 <= Len(w)
      <4>1. p + 1 \in 1..Len(w)
        BY <1>1, <3>1
      <4> QED
        BY <1>1, <2>1, <2>4, <3>1, <4>1 DEF Follows
    <3>2. CASE ~(p + 1 <= Len(w))
      <4>1. p = Len(w)
        BY <1>1, <3>2
      <4> QED
        BY <1>2, <2>2, <2>3, <2>4, <4>1
    <3> QED
      BY <3>1, <3>2
  <2>6. ASSUME v[p].result = "rows"
        PROVE  /\ IsRow(v[p + 1])
               /\ IF c[v[p].of] = "rows" THEN v[p + 2].kind = "end"
                  ELSE IsResponse(v[p + 2]) /\ v[p + 2].of = v[p].of /\ v[p + 2].result = "error"
    <3>1. p + 2 <= Len(w)
      BY <2>2, <2>4, <2>6
    <3>2. p + 1 \in 1..Len(w) /\ p + 2 \in 1..Len(w) /\ p + 1 <= Len(w)
      BY <1>1, <3>1
    <3>3. v[p + 1] = w[p + 1] /\ v[p + 2] = w[p + 2]
      BY <1>1, <3>2
    <3> QED
      BY <2>1, <2>4, <2>6, <3>1, <3>2, <3>3 DEF Follows
  <2>7. v[p].result = "rows" /\ p + 3 <= Len(v) /\ c[v[p].of] = "rows" =>
          IsResponse(v[p + 3]) /\ v[p + 3].of = v[p].of + 1
    <3> SUFFICES ASSUME v[p].result = "rows", c[v[p].of] = "rows"
                 PROVE  IsResponse(v[p + 3]) /\ v[p + 3].of = v[p].of + 1
      OBVIOUS
    <3>1. CASE p + 3 <= Len(w)
      <4>1. p + 3 \in 1..Len(w)
        BY <1>1, <3>1
      <4>2. v[p + 3] = w[p + 3]
        BY <1>1, <4>1
      <4> QED
        BY <2>1, <2>4, <3>1, <4>2 DEF Follows
    <3>2. CASE ~(p + 3 <= Len(w))
      <4>1. p + 2 = Len(w) /\ p + 3 = Len(w) + 1
        <5>1. p + 2 <= Len(w)
          BY <2>2, <2>4
        <5> QED
          BY <1>1, <3>2, <5>1
      <4> QED
        BY <1>2, <2>2, <2>3, <2>4, <4>1
    <3> QED
      BY <3>1, <3>2
  <2>8. Follows(v, p, c)
    BY <2>2, <2>4, <2>5, <2>6, <2>7 DEF Follows
  <2> QED
    BY <2>1, <2>4, <2>8
<1>4. ASSUME NEW p, p = Len(w) + 1
      PROVE  /\ v[p] = x[1] /\ IsResponse(v[p]) /\ v[p].kind = "response"
             /\ Truthful(v[p], c) /\ Follows(v, p, c) /\ (c[v[p].of] = "breaks" => d)
  <2>1. v[p] = x[1] /\ IsResponse(v[p]) /\ v[p].of = i /\ Truthful(v[p], c) /\ v[p].kind = "response"
    BY <1>2, <1>4 DEF Block, IsResponse
  <2>2. CASE Len(x) = 1
    <3>1. v[p].result # "rows" /\ Len(v) = p /\ ~(p + 1 <= Len(v))
      BY <1>1, <1>4, <2>1, <2>2 DEF Block
    <3> QED
      BY <2>1, <3>1 DEF Follows
  <2>3. CASE Len(x) = 3
    <3>1. p + 1 = Len(w) + 2 /\ p + 2 = Len(w) + 3 /\ ~(p + 3 <= Len(v))
      BY <1>1, <1>4, <2>3
    <3>2. v[p + 1] = x[2] /\ v[p + 2] = x[3]
      BY <1>2, <2>3, <3>1
    <3>3. /\ v[p].result = "rows" /\ ~Refused(c[i])
          /\ x[2].kind = "row"
          /\ IF c[i] = "rows" THEN x[3].kind = "end"
             ELSE IsResponse(x[3]) /\ x[3].of = i /\ x[3].result = "error"
      BY <2>1, <2>3 DEF Block
    <3>4. Follows(v, p, c)
      BY <2>1, <3>1, <3>2, <3>3 DEF Follows, IsRow
    <3> QED
      BY <2>1, <3>4
  <2> QED
    BY <1>1, <2>2, <2>3
<1>5. ASSUME NEW p, p = Len(w) + 2, Len(x) = 3 PROVE v[p].kind = "row"
  BY <1>2, <1>5 DEF Block
<1>6. ASSUME NEW p, p = Len(w) + 3, Len(x) = 3
      PROVE  /\ v[p].kind \in {"response", "end"}
             /\ IsResponse(v[p]) => Truthful(v[p], c) /\ Follows(v, p, c) /\ (c[v[p].of] = "breaks" => d)
  <2>1. v[p] = x[3] /\ p = Len(v)
    BY <1>1, <1>2, <1>6
  <2>2. CASE c[i] = "rows"
    BY <1>6, <2>1, <2>2 DEF Block, IsResponse
  <2>3. CASE c[i] # "rows"
    <3>1. IsResponse(v[p]) /\ Truthful(v[p], c) /\ v[p].of = i /\ v[p].result = "error" /\ v[p].kind = "response"
      BY <1>6, <2>1, <2>3 DEF Block, IsResponse
    <3>2. ~(p + 1 <= Len(v))
      BY <1>1, <1>6, <2>1
    <3>3. Follows(v, p, c)
      BY <2>1, <3>1, <3>2 DEF Follows
    <3> QED
      BY <3>1, <3>3
  <2> QED
    BY <2>2, <2>3
<1>7. ASSUME NEW p \in 1..Len(v)
      PROVE  \/ p \in 1..Len(w) \/ p = Len(w) + 1
             \/ (p = Len(w) + 2 /\ Len(x) = 3) \/ (p = Len(w) + 3 /\ Len(x) = 3)
  BY <1>0, NewPlaces
<1>8. ASSUME NEW p \in 1..Len(w)
      PROVE  v[p].kind \in {"response", "row", "half", "end"} /\ v[p] = w[p]
  BY <1>1 DEF Piece
<1>9. ASSUME NEW p \in 1..Len(v)
      PROVE  /\ v[p].kind \in {"response", "row", "half", "end"}
             /\ IsResponse(v[p]) => Truthful(v[p], c) /\ Follows(v, p, c) /\ (c[v[p].of] = "breaks" => d)
  <2>1. CASE p \in 1..Len(w)
    BY <1>3, <1>8, <2>1
  <2>2. CASE p = Len(w) + 1
    BY <1>4, <2>2
  <2>3. CASE p = Len(w) + 2 /\ Len(x) = 3
    BY <1>5, <2>3 DEF IsResponse
  <2>4. CASE p = Len(w) + 3 /\ Len(x) = 3
    BY <1>6, <2>4
  <2> QED
    BY <1>7, <2>1, <2>2, <2>3, <2>4
<1> QED
  BY <1>9 DEF Piece

LEMMA OpenGrows ==
  ASSUME NEW w, NEW x, NEW v, Longer(w, x, v), NEW c, NEW i \in Nat, Block(x, c, i), Open(w, c, i),
         ~Refused(c[i]), Piece(w, c, TRUE)
  PROVE  Open(v, c, i + 1)
<1>0. Len(w) \in Nat /\ Len(x) \in {1, 3} /\ Len(v) = Len(w) + Len(x)
  BY DEF Longer, Block
<1>1. /\ Len(w) \in Nat /\ Len(x) \in {1, 3} /\ Len(v) = Len(w) + Len(x)
      /\ \A j \in 1..Len(w) : v[j] = w[j]
      /\ \A j \in 1..Len(x) : v[Len(w) + j] = x[j]
  BY DEF Longer, Block
<1>2. v[Len(w) + 1] = x[1] /\ (Len(x) = 3 => v[Len(w) + 2] = x[2] /\ v[Len(w) + 3] = x[3])
  BY <1>1
<1> DEFINE OK(p) ==
      /\ IsRow(v[p]) => p < Len(v)
      /\ IsResponse(v[p]) =>
            /\ v[p].of < i + 1 /\ ~Refused(c[v[p].of])
            /\ v[p].result = "rows" => p + 2 <= Len(v)
            /\ v[p].result # "rows" /\ p = Len(v) => v[p].of = (i + 1) - 1
            /\ v[p].result = "rows" /\ c[v[p].of] = "rows" /\ p + 2 = Len(v) => v[p].of = (i + 1) - 1
<1>3. ASSUME NEW p \in 1..Len(w) PROVE OK(p)
  <2>0. v[p] = w[p]
    BY <1>1
  <2>1. v[p] = w[p] /\ p < Len(v) /\ (p + 2 <= Len(w) => p + 2 < Len(v))
    <3>1. CASE Len(x) = 1
      BY <1>0, <2>0, <3>1
    <3>2. CASE Len(x) = 3
      BY <1>0, <2>0, <3>2
    <3> QED
      BY <1>0, <3>1, <3>2
  <2>2. IsResponse(w[p]) =>
          /\ w[p].of < i /\ ~Refused(c[w[p].of])
          /\ w[p].result = "rows" => p + 2 <= Len(w)
          /\ w[p].of \in Nat
    <3>1. IsResponse(w[p]) => w[p].of \in 1..Len(c)
      BY DEF Piece, Truthful
    <3> QED
      BY <3>1 DEF Open
  <2>3. IsResponse(w[p]) => w[p].of < i + 1
    BY <2>2
  <2>4. Len(v) \in Nat /\ p \in Nat
    BY <1>1
  <2>5. p # Len(v) /\ (p + 2 <= Len(w) => p + 2 # Len(v) /\ p + 2 <= Len(v))
    BY <2>1, <2>4
  <2> QED
    BY <2>1, <2>2, <2>3, <2>5
<1>4. ASSUME NEW p, p = Len(w) + 1 PROVE OK(p)
  <2>1. v[p] = x[1] /\ IsResponse(x[1]) /\ x[1].of = i /\ (x[1].result = "rows" => Len(x) = 3)
    BY <1>1, <1>2, <1>4 DEF Block
  <2>2. (Len(x) = 3 => p + 2 <= Len(v)) /\ i < i + 1 /\ (i + 1) - 1 = i
    <3>1. Len(x) = 3 => Len(v) = Len(w) + 3 /\ p + 2 = Len(w) + 3
      BY <1>0, <1>4
    <3> QED
      BY <1>0, <3>1
  <2>3. ~IsRow(x[1])
    BY <2>1 DEF IsRow, IsResponse
  <2> QED
    BY <2>1, <2>2, <2>3
<1>5. ASSUME NEW p, p = Len(w) + 2, Len(x) = 3 PROVE OK(p)
  <2>1. p < Len(v) /\ v[p].kind = "row"
    BY <1>1, <1>2, <1>5 DEF Block
  <2> QED
    BY <2>1 DEF IsResponse
<1>6. ASSUME NEW p, p = Len(w) + 3, Len(x) = 3 PROVE OK(p)
  <2>1. v[p] = x[3]
    BY <1>2, <1>6
  <2>2. ~IsRow(x[3]) /\ (IsResponse(x[3]) => x[3].of = i /\ x[3].result = "error")
    BY <1>6 DEF Block, IsRow, IsResponse
  <2>3. i < i + 1 /\ (i + 1) - 1 = i
    OBVIOUS
  <2> QED
    BY <2>1, <2>2, <2>3
<1>7. ASSUME NEW p \in 1..Len(v)
      PROVE  \/ p \in 1..Len(w) \/ p = Len(w) + 1
             \/ (p = Len(w) + 2 /\ Len(x) = 3) \/ (p = Len(w) + 3 /\ Len(x) = 3)
  BY <1>0, NewPlaces
<1>8. \A p \in 1..Len(v) : OK(p)
  <2> HIDE DEF OK
  <2> QED
    BY <1>3, <1>4, <1>5, <1>6, <1>7
<1> QED
  BY <1>8 DEF Open

\* The handler executes a statement of the command, and sends what it gives.
Executed(x) ==
    /\ Block(x, cmd, hnd.i) /\ Sends(x) /\ UNCHANGED req
    /\ broke' = (broke \/ cmd[hnd.i] = "breaks")
    /\ \/ hnd' = [hnd EXCEPT !.pc = "idle"]
       \/ ~Refused(cmd[hnd.i]) /\ HandlerNext

LEMMA ExecutedFacts ==
  ASSUME IInv, ~Dead, Running, Piece(Wire, cmd, broke), NEW x, Executed(x)
  PROVE  /\ Piece(Wire', cmd', broke') /\ Longer(Wire, x, Wire') /\ Len(x) >= 1
         /\ Nowhere' /\ ~Dead'
         /\ \/ hnd'.pc = "idle"
            \/ /\ hnd'.pc = "statement" /\ hnd'.cmd = cmd' /\ hnd'.i \in 1..Len(cmd')
               /\ hnd'.i = hnd.i + 1 /\ Open(Wire', cmd', hnd'.i)
         /\ broke => broke'
<1>1. /\ UNCHANGED <<cli, cmd, shown, buf, up, down, wrk>>
      /\ UNCHANGED req /\ broke' = (broke \/ cmd[hnd.i] = "breaks")
  BY DEF Executed, Sends
<1>2. PICK v : v = Wire'
  OBVIOUS
<1>3. PICK w : w = Wire
  OBVIOUS
<1>4. Longer(w, x, v) /\ ~Dead'
  BY <1>2, <1>3, SendsFacts DEF Executed
<1>5. PICK i : i = hnd.i
  OBVIOUS
<1>6. /\ i \in 1..Len(cmd) /\ Len(cmd) \in Nat /\ i \in Nat /\ hnd.pc = "statement" /\ hnd.cmd = cmd
      /\ Nowhere /\ Open(w, cmd, i)
  BY <1>3, <1>5, CommandFacts DEF Running
<1>7. Block(x, cmd, i) /\ Piece(w, cmd, broke)
  BY <1>3, <1>5 DEF Executed
<1>8. (broke => broke') /\ (cmd[i] = "breaks" => broke')
  BY <1>1, <1>5
<1>9. Piece(v, cmd, broke')
  BY <1>4, <1>6, <1>7, <1>8, PieceGrows
<1>10. Len(x) >= 1
  BY <1>7 DEF Block
<1>11. Nowhere'
  BY <1>1, <1>6 DEF Nowhere
<1>12. hnd = [pc |-> hnd.pc, cmd |-> hnd.cmd, i |-> hnd.i]
  BY DEF IInv, Shapes
<1>13. CASE hnd' = [hnd EXCEPT !.pc = "idle"]
  <2>1. hnd'.pc = "idle"
    BY <1>12, <1>13
  <2> QED
    BY <1>1, <1>2, <1>3, <1>4, <1>8, <1>9, <1>10, <1>11, <2>1
<1>14. CASE ~Refused(cmd[hnd.i]) /\ HandlerNext
  <2>1. /\ hnd'.pc = IF i < Len(cmd) THEN "statement" ELSE "idle"
        /\ hnd'.cmd = cmd /\ hnd'.i = i + 1
    BY <1>5, <1>6, <1>12, <1>14 DEF HandlerNext
  <2>2. Piece(w, cmd, TRUE)
    BY <1>7 DEF Piece
  <2>3. Open(v, cmd, i + 1)
    BY <1>4, <1>5, <1>6, <1>7, <1>14, <2>2, OpenGrows
  <2>4. hnd'.pc = "idle" \/ (hnd'.pc = "statement" /\ hnd'.i \in 1..Len(cmd))
    BY <1>6, <2>1
  <2> QED
    BY <1>1, <1>2, <1>3, <1>4, <1>5, <1>8, <1>9, <1>10, <1>11, <2>1, <2>3, <2>4
<1> QED
  BY <1>13, <1>14 DEF Executed

\* The frames that were there before are where they were.
LEMMA LongerKeeps ==
  ASSUME NEW w, NEW x, NEW v, Longer(w, x, v), Len(x) >= 1
  PROVE  /\ IsList(w) /\ IsList(v) /\ Len(w) \in Nat /\ Len(v) \in Nat /\ Len(v) > Len(w)
         /\ v # << >>
         /\ w = << >> => v[1] = x[1]
         /\ \A j \in 1..Len(w) : v[j] = w[j]
<1>1. /\ IsList(w) /\ IsList(v) /\ Len(w) \in Nat /\ Len(x) \in Nat /\ Len(v) = Len(w) + Len(x)
      /\ \A j \in 1..Len(w) : v[j] = w[j]
      /\ \A j \in 1..Len(x) : v[Len(w) + j] = x[j]
  BY DEF Longer
<1>2. Len(v) \in Nat /\ Len(v) > Len(w) /\ Len(v) # 0 /\ 1 \in 1..Len(x)
  BY <1>1
<1>3. v # << >>
  BY <1>1, <1>2, EmptyList
<1>4. w = << >> => v[1] = x[1]
  <2> SUFFICES ASSUME w = << >> PROVE v[1] = x[1]
    OBVIOUS
  <2>1. Len(w) = 0 /\ 0 + 1 = 1
    BY EmptyList
  <2> QED
    BY <1>1, <1>2, <2>1
<1> QED
  BY <1>1, <1>2, <1>3, <1>4

LEMMA ExecutedAtResponse ==
  ASSUME IInv, ~Dead, Running, AtResponse, cli.pc = "response", NEW x, Executed(x)
  PROVE  AtResponse'
<1>1. UNCHANGED <<cli, cmd, shown>>
  BY DEF Executed, Sends
<1>2. /\ Piece(Wire', cmd', broke') /\ Longer(Wire, x, Wire') /\ Len(x) >= 1
      /\ Nowhere' /\ ~Dead'
      /\ \/ hnd'.pc = "idle"
         \/ /\ hnd'.pc = "statement" /\ hnd'.cmd = cmd' /\ hnd'.i \in 1..Len(cmd')
            /\ hnd'.i = hnd.i + 1 /\ Open(Wire', cmd', hnd'.i)
  BY ExecutedFacts DEF AtResponse
<1>3. PICK v : v = Wire'
  OBVIOUS
<1>4. PICK w : w = Wire
  OBVIOUS
<1>5. /\ IsList(w) /\ Len(w) \in Nat /\ v # << >> /\ (w = << >> => v[1] = x[1])
      /\ \A j \in 1..Len(w) : v[j] = w[j]
  BY <1>2, <1>3, <1>4, LongerKeeps
<1>6. Finished' \/ Running'
  <2>1. CASE hnd'.pc = "idle"
    BY <1>2, <2>1 DEF Finished
  <2>2. CASE hnd'.pc # "idle"
    <3>1. Len(shown') < hnd'.i
      <4>1. Len(shown) < hnd.i /\ hnd.i \in Nat /\ Len(shown) \in Nat
        BY CommandFacts, ListFacts DEF Running, IInv, Lists
      <4> QED
        BY <1>1, <1>2, <2>2, <4>1
    <3>2. cmd' # <<"syntax">> /\ cli'.pc # "rows" /\ Wire' # << >>
      BY <1>1, <1>3, <1>5 DEF Running
    <3> QED
      BY <1>2, <2>2, <3>1, <3>2 DEF Running
  <2> QED
    BY <2>1, <2>2
<1>7. cli'.id = 0 => IsResponse(v[1]) /\ v[1].of = 1
  <2> SUFFICES ASSUME cli'.id = 0 PROVE IsResponse(v[1]) /\ v[1].of = 1
    OBVIOUS
  <2>1. CASE w = << >>
    <3>1. hnd.i = 1
      BY <1>1, <1>4, <2>1 DEF Running
    <3>2. IsResponse(x[1]) /\ x[1].of = hnd.i
      BY DEF Executed, Block
    <3> QED
      BY <1>5, <2>1, <3>1, <3>2
  <2>2. CASE w # << >>
    <3>1. 1 \in 1..Len(w)
      BY <1>5, <2>2, ListFacts
    <3>2. IsResponse(w[1]) /\ w[1].of = 1
      BY <1>1, <1>4, <2>2 DEF AtResponse
    <3> QED
      BY <1>5, <3>1, <3>2
  <2> QED
    BY <2>1, <2>2
<1> QED
  BY <1>1, <1>2, <1>3, <1>6, <1>7 DEF AtResponse

LEMMA ExecutedAtRows ==
  ASSUME IInv, ~Dead, Running, AtRows, cli.pc = "rows", NEW x, Executed(x)
  PROVE  AtRows'
<1>1. UNCHANGED <<cli, cmd, shown>>
  BY DEF Executed, Sends
<1>2. /\ Piece(Wire', cmd', broke') /\ Longer(Wire, x, Wire') /\ Len(x) >= 1
      /\ Nowhere' /\ ~Dead' /\ (broke => broke')
      /\ \/ hnd'.pc = "idle"
         \/ /\ hnd'.pc = "statement" /\ hnd'.cmd = cmd' /\ hnd'.i \in 1..Len(cmd')
            /\ hnd'.i = hnd.i + 1 /\ Open(Wire', cmd', hnd'.i)
  BY ExecutedFacts DEF AtRows
<1>3. PICK v : v = Wire'
  OBVIOUS
<1>4. PICK w : w = Wire
  OBVIOUS
<1>5. /\ Len(w) \in Nat /\ Len(v) \in Nat /\ Len(v) > Len(w)
      /\ \A j \in 1..Len(w) : v[j] = w[j]
  BY <1>2, <1>3, <1>4, LongerKeeps
<1>6. Len(shown) < hnd.i /\ hnd.i \in 1..Len(cmd) /\ Len(shown) \in Nat /\ Len(cmd) \in Nat
  BY CommandFacts, ListFacts DEF Running, IInv, Lists
<1>7. /\ Len(shown') = cli'.id + 1 /\ cli'.count = Len(cmd') /\ cli'.id < cli'.count
      /\ cli'.id + 1 # cli'.count
  <2>1. Len(shown) = cli.id + 1 /\ cli.count = Len(cmd) /\ cli.id < cli.count
    BY DEF AtRows
  <2>2. cli.id + 1 # cli.count
    BY <1>6, <2>1
  <2> QED
    BY <1>1, <2>1, <2>2
<1>8. PICK n : n = shown[Len(shown)].rows
  OBVIOUS
<1>9. ~broke' => /\ shown[Len(shown)].result = "rows" /\ n \in {0, 1} /\ Len(w) >= 2 - n
                 /\ n = 0 /\ Len(v) >= 1 => IsRow(v[1])
                 /\ Len(v) >= 2 - n => v[2 - n].kind = "end"
  <2> SUFFICES ASSUME ~broke'
               PROVE  /\ shown[Len(shown)].result = "rows" /\ n \in {0, 1} /\ Len(w) >= 2 - n
                      /\ n = 0 /\ Len(v) >= 1 => IsRow(v[1])
                      /\ Len(v) >= 2 - n => v[2 - n].kind = "end"
    OBVIOUS
  <2>1. /\ shown[Len(shown)].result = "rows"
        /\ n \in {0, 1}
        /\ n = 0 /\ Len(w) >= 1 => IsRow(w[1])
        /\ Len(w) >= 2 - n => w[2 - n].kind = "end"
        /\ Len(w) >= 2 - n
    BY <1>2, <1>4, <1>8 DEF AtRows, Running
  <2>2. 2 - n \in 1..Len(w) /\ 1 \in 1..Len(w)
    BY <1>5, <2>1
  <2>3. v[2 - n] = w[2 - n] /\ v[1] = w[1] /\ Len(w) >= 1
    BY <1>5, <2>2
  <2> QED
    BY <2>1, <2>3
<1>10. Finished' \/ Running'
  <2>1. CASE hnd'.pc = "idle"
    BY <1>2, <2>1 DEF Finished
  <2>2. CASE hnd'.pc # "idle"
    <3>1. Len(shown') < hnd'.i
      BY <1>1, <1>2, <1>6, <2>2
    <3>2. cmd' # <<"syntax">> /\ cli'.pc # "response"
      BY <1>1 DEF Running
    <3>3. ~broke' => Len(v) >= 2 - shown'[Len(shown')].rows
      <4>1. ~broke' => Len(v) >= 2 - n
        BY <1>5, <1>9
      <4> QED
        BY <1>1, <1>8, <4>1
    <3> QED
      BY <1>2, <1>3, <2>2, <3>1, <3>2, <3>3 DEF Running
  <2> QED
    BY <2>1, <2>2
<1> QED
  BY <1>1, <1>2, <1>3, <1>7, <1>8, <1>9, <1>10 DEF AtRows

LEMMA HandlerExecutesInv ==
  ASSUME IInv, HandlerExecutes
  PROVE  IInv'
<1>1. /\ hnd.pc = "statement" /\ broke' = (broke \/ hnd.cmd[hnd.i] = "breaks")
      /\ UNCHANGED <<cli, cmd, shown, buf, up, down, wrk, req>>
  BY DEF HandlerExecutes, client
<1>2. PICK k, i, n : k = hnd.cmd[hnd.i] /\ i = hnd.i /\ n = Len(hnd.cmd)
  OBVIOUS
<1>3. PICK x : x = IF k = "bad" THEN ErrorResponse(i) ELSE Output(k, i, n)
  OBVIOUS
<1>4. /\ rsp' = rsp \o x
      /\ \/ hnd' = [hnd EXCEPT !.pc = "idle"] /\ k = "bad"
         \/ k # "bad" /\ HandlerNext
  BY <1>2, <1>3 DEF HandlerExecutes
<1>5. IsList(x) /\ \A j \in 1..Len(x) : x[j].kind # "rest"
  <2>1. CASE k = "bad" \/ k \notin {"rows", "breaks"}
    <3>1. PICK f : x = <<f>> /\ f.kind = "response"
      <4>1. Response(i, 0, 1, "error").kind = "response" /\ Response(i, i - 1, n, k).kind = "response"
        BY DEF Response
      <4> QED
        BY <1>3, <2>1, <4>1 DEF ErrorResponse, Output
    <3>2. IsList(x) /\ Len(x) = 1 /\ x[1] = f
      BY <3>1, OneFrame
    <3> QED
      BY <3>1, <3>2
  <2>2. CASE k \in {"rows", "breaks"}
    <3>1. PICK f, g, h : x = <<f, g, h>> /\ f.kind # "rest" /\ g.kind # "rest" /\ h.kind # "rest"
      <4>1. /\ Response(i, i - 1, n, "rows").kind # "rest" /\ Response(i, i - 1, n, "error").kind # "rest"
            /\ Row.kind # "rest" /\ EndOfRows.kind # "rest"
        BY DEF Response, Row, EndOfRows
      <4> QED
        BY <1>3, <2>2, <4>1 DEF Output
    <3>2. IsList(x)
      <4>1. PICK F : F = {f, g, h}
        OBVIOUS
      <4>2. f \in F /\ g \in F /\ h \in F
        BY <4>1
      <4>3. <<f, g, h>> \in Seq(F)
        BY <4>2
      <4> QED
        BY <3>1, <4>3 DEF IsList
    <3>3. Len(x) = 3 /\ x[1] = f /\ x[2] = g /\ x[3] = h
      BY <3>1
    <3> QED
      BY <3>1, <3>2, <3>3
  <2> QED
    BY <2>1, <2>2
<1>6. Sends(x)
  BY <1>1, <1>4, <1>5 DEF Sends
<1>7. hnd' = [pc |-> hnd'.pc, cmd |-> hnd'.cmd, i |-> hnd'.i]
  <2>1. hnd = [pc |-> hnd.pc, cmd |-> hnd.cmd, i |-> hnd.i]
    BY DEF IInv, Shapes
  <2> QED
    BY <1>4, <2>1 DEF HandlerNext
<1>8. (broke => broke') /\ broke' \in BOOLEAN /\ IsList(req')
  BY <1>1 DEF IInv, Shapes, Lists
<1>9. CASE Dead
  BY <1>6, <1>7, <1>8, <1>9, SentInVain
<1>10. CASE ~Dead
  <2>1. IsList(rsp') /\ RestOK'
    BY <1>6, SendsFacts
  <2>2. Lists'
    BY <1>1, <1>8, <2>1 DEF IInv, Lists
  <2>3. Shapes'
    BY <1>1, <1>7, <1>8 DEF IInv, Shapes
  <2>4. ShownOK'
    BY <1>1, <1>8 DEF IInv, ShownOK
  <2>5. ~Quiet /\ ~Unread /\ ~Finished
    BY <1>1, <1>10 DEF Quiet, Unread, Finished
  <2>6. ~Handshake /\ ~AtIdle
    BY <1>1, <2>5 DEF Handshake, AtIdle
  <2>7. ASSUME Running PROVE Executed(x)
    <3>1. hnd.cmd = cmd /\ hnd.i \in 1..Len(cmd) /\ cmd # <<"syntax">>
      BY <2>7 DEF Running
    <3>2. IsList(cmd) /\ k = cmd[i] /\ i \in 1..Len(cmd) /\ n = Len(cmd) /\ k \in Kinds \ {"syntax"}
      BY <1>2, <3>1, CommandFacts
    <3>3. Block(x, cmd, i)
      BY <1>3, <3>2, OutputIsBlock
    <3>4. k # "bad" => ~Refused(cmd[hnd.i])
      BY <1>2, <3>2 DEF Refused
    <3> QED
      BY <1>1, <1>2, <1>4, <1>6, <3>1, <3>2, <3>3, <3>4 DEF Executed
  <2>8. ASSUME cli.pc = "response" PROVE AtResponse'
    <3>1. AtResponse
      BY <2>8 DEF IInv, ClientOK
    <3>2. Running
      BY <2>5, <3>1 DEF AtResponse
    <3> QED
      BY <1>10, <2>7, <2>8, <3>1, <3>2, ExecutedAtResponse
  <2>9. ASSUME cli.pc = "rows" PROVE AtRows'
    <3>1. AtRows
      BY <2>9 DEF IInv, ClientOK
    <3>2. Running
      BY <2>5, <3>1 DEF AtRows
    <3> QED
      BY <1>10, <2>7, <2>9, <3>1, <3>2, ExecutedAtRows
  <2>10. ClientOK'
    BY <1>1, <2>6, <2>8, <2>9 DEF IInv, ClientOK
  <2> QED
    BY <2>1, <2>2, <2>3, <2>4, <2>10 DEF IInv
<1> QED
  BY <1>9, <1>10

-----------------------------------------------------------------------------
(***************************************************************************)
(* The steps of the client.                                                *)
(***************************************************************************)

\* The client leaves, or closes the session.
LEMMA ClosedInv ==
  ASSUME IInv, cli' = [cli EXCEPT !.pc = "closed"],
         UNCHANGED <<cmd, buf, shown, up, down, wrk, req, rsp, hnd, broke>>
  PROVE  IInv'
<1>1. cli = [pc |-> cli.pc, id |-> cli.id, count |-> cli.count] /\ cli.id \in Nat
  BY DEF IInv, Shapes
<1>2. /\ cli' = [pc |-> cli'.pc, id |-> cli'.id, count |-> cli'.count] /\ cli'.id \in Nat
      /\ cli'.pc = "closed"
  BY <1>1
<1>3. Lists'
  BY DEF IInv, Lists
<1>4. Shapes'
  BY <1>2 DEF IInv, Shapes
<1>5. RestOK'
  BY DEF IInv, RestOK
<1>6. ShownOK'
  BY <1>2 DEF IInv, ShownOK
<1>7. ClientOK'
  BY <1>2 DEF ClientOK
<1> QED
  BY <1>3, <1>4, <1>5, <1>6, <1>7 DEF IInv

LEMMA ClientGoesInv ==
  ASSUME IInv, ClientDisconnected \/ ClientLeaves
  PROVE  IInv'
BY ClosedInv DEF ClientDisconnected, ClientLeaves, ClientThrows

LEMMA ClientBeginsInv ==
  ASSUME IInv, ClientBegins
  PROVE  IInv'
<1>1. /\ cli.pc = "connect" /\ cli' = [cli EXCEPT !.pc = "begin"] /\ up' = Append(up, Begin)
      /\ UNCHANGED <<cmd, buf, shown, down, wrk, req, rsp, hnd, broke>>
  BY DEF ClientBegins
<1>2. cli = [pc |-> cli.pc, id |-> cli.id, count |-> cli.count] /\ cli.id \in Nat
  BY DEF IInv, Shapes
<1>3. /\ cli' = [pc |-> cli'.pc, id |-> cli'.id, count |-> cli'.count] /\ cli'.id \in Nat
      /\ cli'.pc = "begin"
  BY <1>1, <1>2
<1>4. IsList(up') /\ Len(up') = Len(up) + 1
  BY <1>1, AppendList DEF IInv, Lists
<1>5. Lists'
  BY <1>1, <1>4 DEF IInv, Lists
<1>6. Shapes'
  BY <1>1, <1>3 DEF IInv, Shapes
<1>7. RestOK'
  BY <1>1 DEF IInv, RestOK
<1>8. (Quiet' <=> Quiet) /\ Wire' = Wire
  BY <1>1 DEF Quiet, Dead, Live, Wire
<1>9. Handshake
  BY <1>1 DEF IInv, ClientOK
<1>10. Nowhere => Asked'
  <2>1. up = << >> => Len(up') = 1
    BY <1>4, EmptyList
  <2> QED
    BY <1>1, <2>1 DEF Nowhere, Asked
<1>11. Handshake'
  BY <1>1, <1>3, <1>8, <1>9, <1>10 DEF Handshake
<1>12. ClientOK'
  BY <1>3, <1>11 DEF ClientOK
<1>13. ShownOK'
  <2>1. shown' = << >>
    BY <1>1, <1>9 DEF Handshake
  <2> QED
    BY <2>1, EmptyList DEF ShownOK
<1> QED
  BY <1>5, <1>6, <1>7, <1>12, <1>13 DEF IInv

\* v is what is left of w without its first a frames.
Left(w, v, a) ==
    /\ IsList(w) /\ IsList(v)
    /\ Len(w) \in Nat /\ Len(v) \in Nat /\ a \in 1..Len(w) /\ Len(v) = Len(w) - a
    /\ \A j \in 1..Len(v) : v[j] = w[a + j]

LEMMA LeftIsPart ==
  ASSUME NEW w, NEW v, NEW a, Left(w, v, a)
  PROVE  Part(w, v, a)
<1>1. Len(w) \in Nat /\ Len(v) \in Nat /\ a \in 1..Len(w) /\ Len(v) = Len(w) - a
  BY DEF Left
<1>2. a \in Nat /\ Len(v) + a <= Len(w)
  BY <1>1
<1> QED
  BY <1>2 DEF Left, Part

LEMMA OpenLeft ==
  ASSUME NEW w, NEW v, NEW a, Left(w, v, a), NEW c, NEW i, Open(w, c, i)
  PROVE  Open(v, c, i)
<1>1. Len(w) \in Nat /\ Len(v) \in Nat /\ a \in 1..Len(w) /\ Len(v) = Len(w) - a
  BY DEF Left
<1>2. ASSUME NEW p \in 1..Len(v)
      PROVE  /\ IsRow(v[p]) => p < Len(v)
             /\ IsResponse(v[p]) =>
                   /\ v[p].of < i /\ ~Refused(c[v[p].of])
                   /\ v[p].result = "rows" => p + 2 <= Len(v)
                   /\ v[p].result # "rows" /\ p = Len(v) => v[p].of = i - 1
                   /\ v[p].result = "rows" /\ c[v[p].of] = "rows" /\ p + 2 = Len(v) => v[p].of = i - 1
  <2>1. PICK q : q = a + p
    OBVIOUS
  <2>2. /\ q \in 1..Len(w) /\ (q < Len(w) <=> p < Len(v)) /\ (q = Len(w) <=> p = Len(v))
        /\ (q + 2 <= Len(w) <=> p + 2 <= Len(v)) /\ (q + 2 = Len(w) <=> p + 2 = Len(v))
    BY <1>1, <2>1
  <2>3. v[p] = w[q]
    BY <2>1 DEF Left
  <2>4. /\ IsRow(w[q]) => q < Len(w)
        /\ IsResponse(w[q]) =>
              /\ w[q].of < i /\ ~Refused(c[w[q].of])
              /\ w[q].result = "rows" => q + 2 <= Len(w)
              /\ w[q].result # "rows" /\ q = Len(w) => w[q].of = i - 1
              /\ w[q].result = "rows" /\ c[w[q].of] = "rows" /\ q + 2 = Len(w) => w[q].of = i - 1
    BY <2>2 DEF Open
  <2> QED
    BY <2>2, <2>3, <2>4
<1> QED
  BY <1>2 DEF Open

\* The client takes the first a frames of what it has read: one, or all of them.
Takes(a) ==
    /\ buf # << >> /\ UNCHANGED <<down, wrk, rsp>>
    /\ \/ buf' = Tail(buf) /\ a = 1
       \/ buf' = << >> /\ a = Len(buf)

LEMMA TakesFacts ==
  ASSUME Lists, NEW a, Takes(a)
  PROVE  /\ IsList(buf') /\ Left(Wire, Wire', a)
         /\ (Dead' <=> Dead) /\ Head(buf) = Wire[1] /\ 1 \in 1..Len(Wire)
<1>1. IsList(buf) /\ IsList(down) /\ IsList(Live) /\ Len(buf) \in Nat \ {0} /\ Head(buf) = buf[1]
  <2>1. IsList(buf) /\ IsList(down) /\ IsList(Live) /\ buf # << >>
    BY LiveList DEF Lists, Takes
  <2> QED
    BY <2>1, ListFacts
<1>2. UNCHANGED <<down, wrk, rsp>>
  BY DEF Takes
<1>3. (Dead' <=> Dead) /\ Live' = Live
  BY <1>2 DEF Dead, Live
<1>4. PICK b, d, l, w, v : b = buf' /\ d = down /\ l = Live /\ w = Wire /\ v = Wire'
  OBVIOUS
<1>5. /\ IsList(b) /\ Len(b) = Len(buf) - a /\ a \in 1..Len(buf) /\ a \in Nat
      /\ \A j \in 1..Len(b) : b[j] = buf[a + j]
  <2>1. CASE buf' = Tail(buf) /\ a = 1
    <3>1. IsList(b) /\ Len(b) = Len(buf) - 1 /\ \A j \in 1..(Len(buf) - 1) : b[j] = buf[j + 1]
      BY <1>4, <2>1, TailList DEF Lists, Takes
    <3>2. \A j \in 1..Len(b) : j + 1 = a + j
      BY <1>1, <2>1, <3>1
    <3>3. a \in 1..Len(buf) /\ a \in Nat
      BY <1>1, <2>1
    <3> QED
      BY <2>1, <3>1, <3>2, <3>3
  <2>2. CASE buf' = << >> /\ a = Len(buf)
    <3>1. IsList(b) /\ Len(b) = 0
      BY <1>4, <2>2, EmptyList
    <3> QED
      BY <1>1, <2>2, <3>1
  <2> QED
    BY <2>1, <2>2 DEF Takes
<1>6. IsJoin(w, buf, d, l)
  BY <1>1, <1>4, Joined DEF Wire
<1>7. IsJoin(v, b, d, l)
  <2>1. v = b \o (d \o l)
    BY <1>2, <1>3, <1>4 DEF Wire
  <2> QED
    BY <1>1, <1>4, <1>5, <2>1, Joined
<1>8. /\ IsList(w) /\ Len(w) = Len(buf) + Len(d) + Len(l)
      /\ Len(buf) \in Nat /\ Len(d) \in Nat /\ Len(l) \in Nat /\ Len(w) \in Nat
      /\ \A i \in 1..Len(w) : w[i] = IF i <= Len(buf) THEN buf[i]
                                     ELSE IF i <= Len(buf) + Len(d) THEN d[i - Len(buf)]
                                     ELSE l[i - (Len(buf) + Len(d))]
  BY <1>6 DEF IsJoin
<1>9. /\ IsList(v) /\ Len(v) = Len(b) + Len(d) + Len(l) /\ Len(v) \in Nat /\ Len(b) \in Nat
      /\ \A i \in 1..Len(v) : v[i] = IF i <= Len(b) THEN b[i]
                                     ELSE IF i <= Len(b) + Len(d) THEN d[i - Len(b)]
                                     ELSE l[i - (Len(b) + Len(d))]
  BY <1>7 DEF IsJoin
<1>10. Len(v) = Len(w) - a /\ a \in 1..Len(w) /\ 1 \in 1..Len(w) /\ 1 <= Len(buf)
  BY <1>1, <1>5, <1>8, <1>9
<1>11. w[1] = buf[1]
  BY <1>8, <1>10
<1>12. ASSUME NEW j \in 1..Len(v) PROVE v[j] = w[a + j]
  <2>1. PICK i : i = a + j
    OBVIOUS
  <2>2. i \in 1..Len(w)
    BY <1>5, <1>8, <1>9, <1>10, <2>1
  <2>3. CASE j <= Len(b)
    <3>1. i <= Len(buf) /\ j \in 1..Len(b)
      BY <1>5, <1>8, <1>9, <2>1, <2>3
    <3>2. v[j] = b[j] /\ b[j] = buf[i]
      BY <1>5, <1>9, <2>1, <2>3, <3>1
    <3>3. w[i] = buf[i]
      BY <1>8, <2>2, <3>1
    <3> QED
      BY <2>1, <3>2, <3>3
  <2>4. CASE ~(j <= Len(b)) /\ j <= Len(b) + Len(d)
    <3>1. ~(i <= Len(buf)) /\ i <= Len(buf) + Len(d) /\ i - Len(buf) = j - Len(b)
      BY <1>5, <1>8, <1>9, <2>1, <2>4
    <3>2. v[j] = d[j - Len(b)]
      BY <1>9, <2>4
    <3>3. w[i] = d[i - Len(buf)]
      BY <1>8, <2>2, <3>1
    <3> QED
      BY <2>1, <3>1, <3>2, <3>3
  <2>5. CASE ~(j <= Len(b)) /\ ~(j <= Len(b) + Len(d))
    <3>1. /\ ~(i <= Len(buf)) /\ ~(i <= Len(buf) + Len(d))
          /\ i - (Len(buf) + Len(d)) = j - (Len(b) + Len(d))
      BY <1>5, <1>8, <1>9, <2>1, <2>5
    <3>2. v[j] = l[j - (Len(b) + Len(d))]
      BY <1>9, <2>5
    <3>3. w[i] = l[i - (Len(buf) + Len(d))]
      BY <1>8, <2>2, <3>1
    <3> QED
      BY <2>1, <3>1, <3>2, <3>3
  <2> QED
    BY <2>3, <2>4, <2>5
<1>13. Left(w, v, a)
  BY <1>8, <1>9, <1>10, <1>12 DEF Left
<1> QED
  BY <1>1, <1>3, <1>4, <1>5, <1>10, <1>11, <1>13

LEMMA ClientAuthenticatesInv ==
  ASSUME IInv, ClientAuthenticates
  PROVE  IInv'
<1>1. /\ cli.pc \in {"begin", "auth"} /\ buf # << >> /\ buf' = Tail(buf)
      /\ UNCHANGED <<cmd, shown, down, wrk, req, rsp, hnd, broke>>
  BY DEF ClientAuthenticates
<1>2. cli = [pc |-> cli.pc, id |-> cli.id, count |-> cli.count] /\ cli.id \in Nat
  BY DEF IInv, Shapes
<1>3. /\ cli' = [pc |-> cli'.pc, id |-> cli'.id, count |-> cli'.count] /\ cli'.id \in Nat
      /\ \/ cli'.pc = "closed"
         \/ cli.pc = "begin" /\ cli'.pc = "auth" /\ up' = Append(up, Signature)
         \/ cli.pc = "auth" /\ cli'.pc = "idle" /\ up' = up
  <2>1. PICK ok \in BOOLEAN :
          /\ cli' = [cli EXCEPT !.pc = IF ~ok THEN "closed"
                                       ELSE IF @ = "begin" THEN "auth" ELSE "idle"]
          /\ up' = IF ok /\ cli.pc = "begin" THEN Append(up, Signature) ELSE up
    <3>1. PICK ok : ok = (Head(buf).kind = "answer" /\ Head(buf).ok)
      OBVIOUS
    <3>2. PICK g : g = IF ok THEN TRUE ELSE FALSE
      OBVIOUS
    <3>3. g \in BOOLEAN /\ (g <=> ok)
      BY <3>2
    <3>4. /\ cli' = [cli EXCEPT !.pc = IF ~ok THEN "closed"
                                       ELSE IF @ = "begin" THEN "auth" ELSE "idle"]
          /\ up' = IF ok /\ cli.pc = "begin" THEN Append(up, Signature) ELSE up
      BY <3>1 DEF ClientAuthenticates
    <3> QED
      BY <3>3, <3>4
  <2>2. CASE ~ok
    <3>1. cli' = [cli EXCEPT !.pc = "closed"]
      BY <2>1, <2>2
    <3> QED
      BY <1>2, <3>1
  <2>3. CASE ok /\ cli.pc = "begin"
    <3>1. cli' = [cli EXCEPT !.pc = "auth"] /\ up' = Append(up, Signature)
      BY <2>1, <2>3
    <3> QED
      BY <1>2, <2>3, <3>1
  <2>4. CASE ok /\ cli.pc = "auth"
    <3>1. cli' = [cli EXCEPT !.pc = "idle"] /\ up' = up
      BY <2>1, <2>4
    <3> QED
      BY <1>2, <2>4, <3>1
  <2> QED
    BY <1>1, <2>1, <2>2, <2>3, <2>4
<1>4. IsList(up') /\ (cli'.pc = "auth" => Len(up') = Len(up) + 1)
  <2>1. /\ up' = up \/ up' = Append(up, Signature)
        /\ cli'.pc = "auth" => up' = Append(up, Signature)
    BY <1>1, <1>3 DEF ClientAuthenticates
  <2>2. IsList(up)
    BY DEF IInv, Lists
  <2>3. IsList(Append(up, Signature)) /\ Len(Append(up, Signature)) = Len(up) + 1
    BY <2>2, AppendList
  <2> QED
    BY <2>1, <2>2, <2>3
<1>5. Lists
  BY DEF IInv
<1>6. Takes(1)
  BY <1>1 DEF Takes
<1>7. IsList(buf') /\ Left(Wire, Wire', 1) /\ (Dead' <=> Dead) /\ 1 \in 1..Len(Wire)
  BY <1>5, <1>6, TakesFacts
<1>8. Lists'
  BY <1>1, <1>4, <1>7 DEF IInv, Lists
<1>9. Shapes'
  BY <1>1, <1>3 DEF IInv, Shapes
<1>10. RestOK'
  BY <1>1 DEF IInv, RestOK
<1>11. Quiet' <=> Quiet
  BY <1>1, <1>7 DEF Quiet
<1>12. Handshake
  BY <1>1 DEF IInv, ClientOK
<1>13. Wire' = << >> /\ Len(Wire') = 0 /\ Wire # << >>
  <2>1. PICK v : v = Wire'
    OBVIOUS
  <2>2. IsList(v) /\ Len(v) = Len(Wire) - 1 /\ Len(Wire) \in Nat /\ Len(v) \in Nat
    BY <1>7, <2>1 DEF Left
  <2>3. Len(Wire) <= 1
    BY <1>12 DEF Handshake
  <2>4. Len(v) = 0 /\ Len(Wire) # 0
    BY <1>7, <2>2, <2>3
  <2>5. v = << >> /\ Wire # << >>
    BY <2>2, <2>4, ListFacts, EmptyList
  <2> QED
    BY <2>1, <2>4, <2>5
<1>14. shown' = << >>
  BY <1>1, <1>12 DEF Handshake
<1>15. ShownOK'
  BY <1>14, EmptyList DEF ShownOK
<1>16. ASSUME cli.pc = "begin", cli'.pc = "auth" PROVE Handshake'
  <2>1. Quiet \/ (Nowhere /\ hnd.pc = "auth")
    BY <1>12, <1>13, <1>16 DEF Handshake
  <2>2. Nowhere => Asked'
    <3>1. up = << >> => Len(up') = 1
      BY <1>4, <1>16, EmptyList
    <3> QED
      BY <1>1, <3>1 DEF Nowhere, Asked
  <2>3. PICK v : v = Wire'
    OBVIOUS
  <2>4. Len(v) <= 1 /\ \A p \in 1..Len(v) : v[p].kind = "answer"
    BY <1>13, <2>3
  <2> QED
    BY <1>1, <1>11, <1>13, <1>14, <1>16, <2>1, <2>2, <2>3, <2>4 DEF Handshake
<1>17. ASSUME cli.pc = "auth", cli'.pc = "idle" PROVE AtIdle'
  <2>1. Quiet \/ (Nowhere /\ hnd.pc = "idle")
    BY <1>12, <1>13, <1>17 DEF Handshake
  <2>2. up' = up
    BY <1>3, <1>17
  <2>3. Nowhere => Nowhere'
    BY <1>1, <2>2 DEF Nowhere
  <2> QED
    BY <1>1, <1>11, <1>13, <2>1, <2>3 DEF AtIdle, Finished
<1>18. ClientOK'
  BY <1>3, <1>16, <1>17 DEF ClientOK
<1> QED
  BY <1>8, <1>9, <1>10, <1>15, <1>18 DEF IInv

LEMMA ClientSendsInv ==
  ASSUME IInv, ClientSends
  PROVE  IInv'
<1>1. /\ cli.pc = "idle" /\ cli' = [pc |-> "response", id |-> 0, count |-> 0]
      /\ shown' = << >> /\ buf' = << >>
      /\ UNCHANGED <<down, wrk, req, rsp, hnd, broke>>
  BY DEF ClientSends
<1>2. cmd' \in Commands /\ up' = Append(up, Command(cmd'))
  BY DEF ClientSends
<1>3. AtIdle /\ Lists
  BY <1>1 DEF IInv, ClientOK
<1>4. (Dead' <=> Dead) /\ Live' = Live /\ (Quiet' <=> Quiet)
  BY <1>1 DEF Dead, Live, Quiet
<1>5. buf = << >>
  <2>1. IsList(buf) /\ IsList(down) /\ IsList(Live)
    BY <1>3, LiveList DEF Lists
  <2>2. PICK w : w = Wire
    OBVIOUS
  <2>3. IsJoin(w, buf, down, Live)
    BY <2>1, <2>2, Joined DEF Wire
  <2>4. Len(w) = 0
    BY <1>3, <2>2, EmptyList DEF AtIdle
  <2>5. Len(buf) = 0
    BY <2>3, <2>4 DEF IsJoin
  <2> QED
    BY <2>1, <2>5, ListFacts
<1>6. Wire' = << >>
  BY <1>1, <1>3, <1>4, <1>5 DEF Wire, AtIdle
<1>7. IsList(up')
  BY <1>2, AppendList DEF IInv, Lists
<1>8. Lists'
  BY <1>1, <1>7, EmptyList DEF IInv, Lists
<1>9. Shapes'
  <2>1. \A k \in 1..Len(shown') : FALSE
    BY <1>1, EmptyList
  <2>2. cli' = [pc |-> cli'.pc, id |-> cli'.id, count |-> cli'.count] /\ cli'.id \in Nat
    BY <1>1
  <2> QED
    BY <1>1, <1>2, <2>1, <2>2 DEF IInv, Shapes
<1>10. RestOK'
  BY <1>1 DEF IInv, RestOK
<1>11. ShownOK'
  BY <1>1, EmptyList DEF ShownOK
<1>12. Quiet' \/ Unread'
  <2>1. CASE Quiet
    BY <1>4, <2>1
  <2>2. CASE Finished
    <3>1. up' = <<Command(cmd')>> /\ req' = << >> /\ hnd'.pc = "idle"
      BY <1>1, <1>2, <2>2 DEF Finished, Nowhere
    <3> QED
      BY <1>1, <1>6, <3>1 DEF Unread
  <2> QED
    BY <1>3, <2>1, <2>2 DEF AtIdle
<1>13. AtResponse'
  <2>1. Piece(Wire', cmd', broke')
    BY <1>6, EmptyPiece
  <2>2. cli'.id = 0 /\ Len(shown') = 0
    BY <1>1, EmptyList
  <2> QED
    BY <1>6, <1>12, <2>1, <2>2 DEF AtResponse
<1>14. ClientOK'
  BY <1>1, <1>13 DEF ClientOK
<1> QED
  BY <1>8, <1>9, <1>10, <1>11, <1>14 DEF IInv

\* The client has taken frames: the stage of the command is what it was, as long
\* as nothing but the client and what it shows has changed.
LEMMA StageKept ==
  ASSUME IInv, NEW a, Left(Wire, Wire', a), (Dead' <=> Dead), UNCHANGED <<cmd, up, req, hnd, broke>>
  PROVE  /\ Quiet => Quiet'
         /\ Finished => Finished'
         /\ Running /\ Len(shown') < hnd.i /\ (cli'.pc = "response" => cli'.id # 0)
              /\ (cli'.pc = "rows" /\ ~broke => Len(Wire') >= 2 - shown'[Len(shown')].rows)
            => Running'
         /\ ~Unread
<1>1. Quiet => Quiet'
  BY DEF Quiet
<1>2. Nowhere => Nowhere'
  BY DEF Nowhere
<1>3. Finished => Finished'
  BY <1>2 DEF Finished
<1>4. PICK w, v : w = Wire /\ v = Wire'
  OBVIOUS
<1>5. Open(w, cmd, hnd.i) => Open(v, cmd, hnd.i)
  BY <1>4, OpenLeft
<1>6. ASSUME Running, Len(shown') < hnd.i, cli'.pc = "response" => cli'.id # 0,
             cli'.pc = "rows" /\ ~broke => Len(Wire') >= 2 - shown'[Len(shown')].rows
      PROVE  Running'
  <2>1. Open(Wire', cmd', hnd'.i)
    BY <1>4, <1>5, <1>6 DEF Running
  <2>2. /\ hnd'.pc = "statement" /\ hnd'.cmd = cmd' /\ hnd'.i \in 1..Len(cmd')
        /\ cmd' # <<"syntax">> /\ Nowhere' /\ Len(shown') < hnd'.i
    BY <1>2, <1>6 DEF Running
  <2> QED
    BY <1>6, <2>1, <2>2 DEF Running
<1>7. ~Unread
  <2>1. Len(w) \in Nat /\ a \in 1..Len(w)
    BY <1>4 DEF Left
  <2>2. w # << >>
    BY <2>1, EmptyList
  <2> QED
    BY <1>4, <2>2 DEF Unread
<1> QED
  BY <1>1, <1>3, <1>6, <1>7

\* The rest of the invariant after a step of the client.
LEMMA ClientKeeps ==
  ASSUME IInv, NEW a, Takes(a), UNCHANGED <<cmd, up, req, hnd, broke>>, IsList(shown'),
         cli' = [pc |-> cli'.pc, id |-> cli'.id, count |-> cli'.count], cli'.id \in Nat,
         \A k \in 1..Len(shown') :
           shown'[k] = [of |-> shown'[k].of, result |-> shown'[k].result, rows |-> shown'[k].rows]
  PROVE  Lists' /\ Shapes' /\ RestOK'
<1>1. UNCHANGED <<down, wrk, rsp>> /\ IsList(buf')
  BY TakesFacts DEF Takes, IInv
<1>2. Lists'
  BY <1>1 DEF IInv, Lists
<1>3. Shapes'
  BY <1>1 DEF IInv, Shapes
<1>4. RestOK'
  BY <1>1 DEF IInv, RestOK
<1> QED
  BY <1>2, <1>3, <1>4

\* The response that the client accepts is the one of the next statement.
Accepted(r) == r = Wire[1] /\ IsResponse(r) /\ r.id = cli.id

LEMMA AcceptedFacts ==
  ASSUME IInv, AtResponse, NEW r, Accepted(r), Wire # << >>
  PROVE  /\ Truthful(r, cmd) /\ Follows(Wire, 1, cmd) /\ (cmd[r.of] = "breaks" => broke)
         /\ r.of = cli.id + 1 /\ r.of \in 1..Len(cmd) /\ Len(shown) = cli.id
         /\ Len(cmd) \in Nat /\ cli.id \in Nat /\ 1 \in 1..Len(Wire) /\ Len(Wire) \in Nat
<1>1. Len(cmd) \in Nat /\ cli.id \in Nat /\ IsList(Wire)
  BY CommandFacts, WireList DEF IInv, Shapes
<1>2. 1 \in 1..Len(Wire) /\ Len(Wire) \in Nat
  BY <1>1, ListFacts
<1>3. Truthful(r, cmd) /\ Follows(Wire, 1, cmd) /\ (cmd[r.of] = "breaks" => broke)
  BY <1>2 DEF AtResponse, Piece, Accepted
<1>4. r.of \in 1..Len(cmd) /\ (r.id = r.of - 1 \/ r.id = 0) /\ r.id = cli.id
  BY <1>3 DEF Truthful, Accepted
<1>5. cli.id = 0 => r.of = 1
  BY DEF AtResponse, Accepted
<1>6. r.of = cli.id + 1
  BY <1>1, <1>4, <1>5
<1> QED
  BY <1>1, <1>2, <1>3, <1>4, <1>6 DEF AtResponse

\* What the client prints for it.
Printed(r) == [of |-> r.of, result |-> r.result, rows |-> 0]

LEMMA PrintedOK ==
  ASSUME IInv, cli.pc = "response", AtResponse, NEW r, Accepted(r), Wire # << >>,
         UNCHANGED <<cmd, broke>>, shown' = Append(shown, Printed(r)),
         cli'.pc \in {"response", "idle"} => r.result # "rows"
  PROVE  /\ IsList(shown') /\ Len(shown') = cli.id + 1 /\ ShownOK'
         /\ shown'[Len(shown')].result = r.result /\ shown'[Len(shown')].rows = 0
         /\ \A k \in 1..Len(shown') :
              shown'[k] = [of |-> shown'[k].of, result |-> shown'[k].result, rows |-> shown'[k].rows]
<1>1. /\ Truthful(r, cmd) /\ (cmd[r.of] = "breaks" => broke)
      /\ r.of = cli.id + 1 /\ r.of \in 1..Len(cmd) /\ Len(shown) = cli.id /\ cli.id \in Nat
  BY AcceptedFacts
<1>2. PICK s, n : s = shown' /\ n = Len(shown)
  OBVIOUS
<1>3. /\ IsList(s) /\ Len(s) = n + 1 /\ (\A k \in 1..n : s[k] = shown[k]) /\ s[n + 1] = Printed(r)
      /\ n \in Nat /\ r.of = n + 1
  BY <1>1, <1>2, AppendList DEF IInv, Lists
<1>4. Printed(r).of = r.of /\ Printed(r).result = r.result /\ Printed(r).rows = 0
  BY DEF Printed
<1>5. ASSUME NEW k \in 1..n
      PROVE  /\ s[k].of = k
             /\ ~broke => /\ k \in 1..Len(cmd)
                          /\ s[k].result = IF Refused(cmd[k]) THEN "error" ELSE cmd[k]
             /\ ~broke => s[k].rows = IF cmd[k] = "rows" THEN 1 ELSE 0
             /\ s[k] = [of |-> s[k].of, result |-> s[k].result, rows |-> s[k].rows]
  BY <1>2, <1>3 DEF IInv, ShownOK, Shapes
<1>6. ASSUME NEW k, k = n + 1
      PROVE  /\ s[k].of = k
             /\ ~broke => /\ k \in 1..Len(cmd)
                          /\ s[k].result = IF Refused(cmd[k]) THEN "error" ELSE cmd[k]
             /\ ~broke /\ r.result # "rows" => s[k].rows = IF cmd[k] = "rows" THEN 1 ELSE 0
             /\ s[k] = [of |-> s[k].of, result |-> s[k].result, rows |-> s[k].rows]
  <2>1. s[k].of = k /\ s[k].result = r.result /\ s[k].rows = 0 /\ k \in 1..Len(cmd)
    BY <1>1, <1>3, <1>4, <1>6
  <2>2. ~broke => r.result = IF Refused(cmd[k]) THEN "error" ELSE cmd[k]
    BY <1>1, <1>3, <1>6 DEF Truthful
  <2>3. s[k] = [of |-> s[k].of, result |-> s[k].result, rows |-> s[k].rows]
    BY <1>3, <1>6 DEF Printed
  <2>4. ~broke /\ r.result # "rows" => cmd[k] # "rows"
    BY <2>2 DEF Refused
  <2> QED
    BY <2>1, <2>2, <2>3, <2>4
<1>7. \A k \in 1..Len(s) : k \in 1..n \/ k = n + 1
  BY <1>3
<1>8. ASSUME NEW k \in 1..Len(s)
      PROVE  /\ s[k].of = k
             /\ ~broke' => /\ k \in 1..Len(cmd')
                           /\ s[k].result = IF Refused(cmd'[k]) THEN "error" ELSE cmd'[k]
             /\ ~broke' /\ (k < Len(s) \/ cli'.pc \in {"response", "idle"}) =>
                    s[k].rows = IF cmd'[k] = "rows" THEN 1 ELSE 0
             /\ s[k] = [of |-> s[k].of, result |-> s[k].result, rows |-> s[k].rows]
  <2>1. CASE k \in 1..n
    BY <1>5, <2>1
  <2>2. CASE k = n + 1
    <3>1. ~(k < Len(s))
      BY <1>3, <2>2
    <3> QED
      BY <1>6, <2>2, <3>1
  <2> QED
    BY <1>7, <2>1, <2>2
<1>9. ShownOK'
  BY <1>2, <1>8 DEF ShownOK
<1>10. s[Len(s)].result = r.result /\ s[Len(s)].rows = 0
  BY <1>3, <1>4
<1> QED
  BY <1>1, <1>2, <1>3, <1>8, <1>9, <1>10

\* The count that the client goes by after the response.
CountOf(r) == IF cli.id = 0 THEN r.count ELSE cli.count

LEMMA CountFacts ==
  ASSUME IInv, AtResponse, NEW r, Accepted(r), Wire # << >>
  PROVE  /\ CountOf(r) = Len(cmd) \/ (CountOf(r) = 1 /\ cli.id = 0 /\ Refused(cmd[r.of]))
         /\ CountOf(r) \in Nat
<1>1. Truthful(r, cmd) /\ Len(cmd) \in Nat
  BY AcceptedFacts
<1>2. cli.id # 0 => cli.count = Len(cmd)
  BY DEF AtResponse, IInv, Shapes
<1>3. r.count = Len(cmd) \/ (r.count = 1 /\ Refused(cmd[r.of]))
  BY <1>1 DEF Truthful
<1> QED
  BY <1>1, <1>2, <1>3 DEF CountOf

\* Nothing comes after what the last statement gives.
LEMMA LastOfAll ==
  ASSUME NEW w, IsList(w), NEW c, NEW b, Piece(w, c, b), NEW p \in 1..Len(w), IsResponse(w[p]),
         w[p].of = Len(c), Len(c) \in Nat
  PROVE  /\ w[p].result # "rows" => p = Len(w)
         /\ w[p].result = "rows" => p + 2 >= Len(w)
<1>0. Len(w) \in Nat
  BY ListFacts
<1>1. ASSUME NEW q \in 1..Len(w), IsResponse(w[q]) PROVE w[q].of # Len(c) + 1
  <2>1. w[q].of \in 1..Len(c)
    BY <1>1 DEF Piece, Truthful
  <2> QED
    BY <2>1
<1>2. Follows(w, p, c)
  BY DEF Piece
<1>3. ASSUME NEW q \in 1..Len(w), IsResponse(w[q]), w[q].of = Len(c), w[q].result # "rows"
      PROVE  q = Len(w)
  <2>1. CASE q + 1 <= Len(w)
    <3>1. Follows(w, q, c)
      BY <1>3 DEF Piece
    <3>2. IsResponse(w[q + 1]) /\ w[q + 1].of = w[q].of + 1
      BY <1>3, <2>1, <3>1 DEF Follows
    <3>3. q + 1 \in 1..Len(w)
      BY <1>0, <2>1
    <3> QED
      BY <1>1, <1>3, <3>2, <3>3
  <2>2. CASE ~(q + 1 <= Len(w))
    BY <1>0, <2>2
  <2> QED
    BY <2>1, <2>2
<1>4. ASSUME w[p].result = "rows", ~(p + 2 >= Len(w)) PROVE FALSE
  <2>1. p + 3 <= Len(w) /\ p + 3 \in 1..Len(w) /\ p + 2 \in 1..Len(w) /\ p + 2 <= Len(w) /\ p + 2 # Len(w)
    BY <1>0, <1>4
  <2>2. CASE c[w[p].of] = "rows"
    <3>1. IsResponse(w[p + 3]) /\ w[p + 3].of = w[p].of + 1
      BY <1>2, <1>4, <2>1, <2>2 DEF Follows
    <3> QED
      BY <1>1, <2>1, <3>1
  <2>3. CASE c[w[p].of] # "rows"
    <3>1. IsResponse(w[p + 2]) /\ w[p + 2].of = w[p].of /\ w[p + 2].result = "error"
      BY <1>2, <1>4, <2>1, <2>3 DEF Follows
    <3> QED
      BY <1>3, <2>1, <3>1
  <2> QED
    BY <2>2, <2>3
<1> QED
  BY <1>3, <1>4

\* The response begins a row set.
LEMMA RowsBegin ==
  ASSUME IInv, AtResponse, cli.pc = "response", NEW r, Accepted(r), Wire # << >>, r.result = "rows",
         UNCHANGED <<cmd, up, req, hnd, broke>>, Left(Wire, Wire', 1), (Dead' <=> Dead),
         cli'.pc = "rows", cli'.id = cli.id, cli'.count = CountOf(r),
         Len(shown') = cli.id + 1, shown'[Len(shown')].result = "rows", shown'[Len(shown')].rows = 0
  PROVE  AtRows'
<1>1. /\ Truthful(r, cmd) /\ Follows(Wire, 1, cmd) /\ (cmd[r.of] = "breaks" => broke)
      /\ r.of = cli.id + 1 /\ r.of \in 1..Len(cmd)
      /\ Len(cmd) \in Nat /\ cli.id \in Nat /\ 1 \in 1..Len(Wire) /\ Len(Wire) \in Nat
  BY AcceptedFacts
<1>2. cmd[r.of] \in {"rows", "breaks"} /\ ~Refused(cmd[r.of])
  BY <1>1 DEF Truthful, Refused
<1>3. CountOf(r) = Len(cmd)
  BY <1>2, CountFacts
<1>4. PICK w, v : w = Wire /\ v = Wire'
  OBVIOUS
<1>5. /\ IsList(w) /\ IsList(v) /\ Len(w) \in Nat /\ Len(v) \in Nat /\ Len(v) = Len(w) - 1
      /\ \A j \in 1..Len(v) : v[j] = w[1 + j]
  BY <1>4 DEF Left
<1>6. Piece(v, cmd, broke)
  <2>1. Part(w, v, 1)
    BY <1>4, LeftIsPart
  <2>2. Piece(w, cmd, broke)
    BY <1>4 DEF AtResponse
  <2> QED
    BY <2>1, <2>2, PartOfPiece
<1>7. w[1] = r /\ IsResponse(w[1]) /\ 1 \in 1..Len(w)
  BY <1>1, <1>4 DEF Accepted
<1>8. Quiet' \/ Running' \/ Finished'
  <2>1. Quiet \/ Running \/ Finished
    BY StageKept DEF AtResponse
  <2>2. ASSUME Running PROVE Running'
    <3>1. w[1].of < hnd.i /\ 1 + 2 <= Len(w)
      BY <1>4, <1>7, <2>2 DEF Running, Open
    <3>2. Len(shown') < hnd.i
      BY <1>1, <1>7, <3>1
    <3>3. Len(v) >= 2 - 0
      BY <1>5, <3>1
    <3> QED
      BY <1>4, <2>2, <3>2, <3>3, StageKept
  <2> QED
    BY <2>1, <2>2, StageKept
<1>9. cli'.id + 1 = cli'.count => Len(v) <= 2 /\ (Len(v) = 2 => IsRow(v[1]))
  <2> SUFFICES ASSUME cli'.id + 1 = cli'.count PROVE Len(v) <= 2 /\ (Len(v) = 2 => IsRow(v[1]))
    OBVIOUS
  <2>1. w[1].of = Len(cmd)
    BY <1>1, <1>3, <1>7
  <2>2. Piece(w, cmd, broke)
    BY <1>4 DEF AtResponse
  <2>3. 1 + 2 >= Len(w)
    BY <1>1, <1>5, <1>7, <2>1, <2>2, LastOfAll
  <2>4. Len(v) >= 1 => IsRow(v[1])
    <3>1. Len(v) >= 1 => 1 \in 1..Len(v) /\ 1 + 1 <= Len(w)
      BY <1>5
    <3> QED
      BY <1>1, <1>4, <1>5, <1>7, <3>1 DEF Follows
  <2> QED
    BY <1>5, <2>3, <2>4
<1>10. ~broke => /\ Len(v) >= 1 => IsRow(v[1])
                 /\ Len(v) >= 2 => v[2].kind = "end"
  <2> SUFFICES ASSUME ~broke PROVE (Len(v) >= 1 => IsRow(v[1])) /\ (Len(v) >= 2 => v[2].kind = "end")
    OBVIOUS
  <2>1. cmd[w[1].of] = "rows" /\ w[1].result = "rows" /\ Follows(w, 1, cmd)
    BY <1>1, <1>2, <1>4, <1>7
  <2>2. Len(v) >= 1 => 1 \in 1..Len(v) /\ 1 + 1 <= Len(w)
    BY <1>5
  <2>3. Len(v) >= 2 => 2 \in 1..Len(v) /\ 1 + 2 <= Len(w)
    BY <1>5
  <2> QED
    BY <1>5, <2>1, <2>2, <2>3 DEF Follows
<1>11. cli'.id < cli'.count /\ cli'.count = Len(cmd')
  BY <1>1, <1>3
<1>12. 2 - 0 = 2 /\ 0 \in {0, 1}
  OBVIOUS
<1> QED
  BY <1>4, <1>6, <1>8, <1>9, <1>10, <1>11, <1>12 DEF AtRows

\* The response has no rows: the client goes on to the next one, or is done.
LEMMA NextResponse ==
  ASSUME IInv, AtResponse, cli.pc = "response", NEW r, Accepted(r), Wire # << >>, r.result # "rows",
         UNCHANGED <<cmd, up, req, hnd, broke>>, NEW a, Left(Wire, Wire', a), (Dead' <=> Dead),
         ClientNext(CountOf(r)), Len(shown') = cli.id + 1
  PROVE  ClientOK'
<1>1. /\ Truthful(r, cmd) /\ Follows(Wire, 1, cmd)
      /\ r.of = cli.id + 1 /\ r.of \in 1..Len(cmd)
      /\ Len(cmd) \in Nat /\ cli.id \in Nat /\ 1 \in 1..Len(Wire) /\ Len(Wire) \in Nat
  BY AcceptedFacts
<1>2. PICK n : n = CountOf(r)
  OBVIOUS
<1>3. (n = Len(cmd) \/ (n = 1 /\ cli.id = 0 /\ Refused(cmd[r.of]))) /\ n \in Nat
  BY <1>2, CountFacts
<1>4. cli' = [pc |-> IF cli.id + 1 < n THEN "response" ELSE "idle", id |-> cli.id + 1, count |-> n]
  BY <1>2 DEF ClientNext
<1>5. PICK w, v : w = Wire /\ v = Wire'
  OBVIOUS
<1>6. IsList(w) /\ IsList(v) /\ Len(w) \in Nat /\ a \in 1..Len(w) /\ Len(v) = Len(w) - a /\ Len(v) \in Nat
  BY <1>5 DEF Left
<1>7. w[1] = r /\ IsResponse(w[1]) /\ 1 \in 1..Len(w) /\ Piece(w, cmd, broke)
  BY <1>1, <1>5 DEF Accepted, AtResponse
<1>8. Quiet \/ Running \/ Finished
  BY StageKept DEF AtResponse
<1>9. Running => r.of < hnd.i /\ hnd.i \in 1..Len(cmd) /\ ~Refused(cmd[r.of])
  BY <1>5, <1>7 DEF Running, Open
<1>10. CASE cli.id + 1 < n
  <2>1. n = Len(cmd)
    BY <1>1, <1>3, <1>10
  <2>2. cli'.pc = "response" /\ cli'.id = cli.id + 1 /\ cli'.count = Len(cmd') /\ cli'.id # 0 /\ cli'.id < cli'.count
    BY <1>1, <1>4, <1>10, <2>1
  <2>3. Piece(v, cmd, broke)
    <3>1. Part(w, v, a)
      BY <1>5, LeftIsPart
    <3> QED
      BY <1>7, <3>1, PartOfPiece
  <2>4. Running => Running'
    <3>1. Running => Len(shown') < hnd.i
      BY <1>1, <1>9
    <3> QED
      BY <2>2, <3>1, StageKept
  <2>5. Quiet' \/ Running' \/ Finished'
    BY <1>8, <2>4, StageKept
  <2>6. AtResponse'
    BY <1>5, <2>2, <2>3, <2>5 DEF AtResponse
  <2> QED
    BY <2>2, <2>6 DEF ClientOK
<1>11. CASE ~(cli.id + 1 < n)
  <2>1. cli'.pc = "idle"
    BY <1>4, <1>11
  <2>2. ~Refused(cmd[r.of]) => r.of = Len(cmd)
    BY <1>1, <1>3, <1>11
  <2>3. 1 = Len(w)
    <3>1. CASE Refused(cmd[r.of])
      BY <1>1, <1>5, <1>7, <3>1 DEF Follows
    <3>2. CASE ~Refused(cmd[r.of])
      BY <1>1, <1>6, <1>7, <2>2, <3>2, LastOfAll
    <3> QED
      BY <3>1, <3>2
  <2>4. v = << >>
    <3>0. Len(w) = 1 /\ a \in 1..Len(w) /\ Len(v) = Len(w) - a
      BY <1>6, <2>3, Zenon
    <3>1. a = 1
      BY <3>0
    <3>2. Len(v) = 0
      BY <3>0, <3>1
    <3> QED
      BY <1>6, <3>2, ListFacts
  <2>5. ~Running
    <3>1. Running => FALSE
      BY <1>1, <1>9, <2>2
    <3> QED
      BY <3>1
  <2>6. Quiet' \/ Finished'
    BY <1>8, <2>5, StageKept
  <2>7. AtIdle'
    BY <1>5, <2>4, <2>6 DEF AtIdle
  <2> QED
    BY <2>1, <2>7 DEF ClientOK
<1> QED
  BY <1>10, <1>11

LEMMA ClientResponseInv ==
  ASSUME IInv, ClientResponse
  PROVE  IInv'
<1>1. /\ cli.pc = "response" /\ buf # << >>
      /\ UNCHANGED <<cmd, up, down, wrk, req, rsp, hnd, broke>>
  BY DEF ClientResponse
<1>2. PICK r : r = Head(buf)
  OBVIOUS
<1>3. CASE ~Expected(r)
  BY <1>1, <1>2, <1>3, ClosedInv DEF ClientResponse, ClientThrows
<1>4. CASE Expected(r)
  <2>1. shown' = Append(shown, Printed(r))
    BY <1>2, <1>4 DEF ClientResponse, Printed
  <2>2. \/ /\ r.result = "rows" /\ buf' = Tail(buf)
           /\ cli' = [cli EXCEPT !.pc = "rows", !.count = CountOf(r)]
        \/ /\ r.result = "error" /\ buf' = buf
           /\ cli' = [cli EXCEPT !.pc = "closed"]
        \/ r.result # "rows" /\ ClientNext(CountOf(r))
    BY <1>2, <1>4 DEF ClientResponse, CountOf
  <2>3. AtResponse /\ Lists
    BY <1>1 DEF IInv, ClientOK
  <2>4. cli = [pc |-> cli.pc, id |-> cli.id, count |-> cli.count] /\ cli.id \in Nat
    BY DEF IInv, Shapes
  <2>5. Accepted(r) /\ Wire # << >>
    <3>1. PICK w : w = Wire
      OBVIOUS
    <3>2. IsList(buf) /\ IsList(down) /\ IsList(Live) /\ IsJoin(w, buf, down, Live)
      <4>1. IsList(buf) /\ IsList(down) /\ IsList(Live)
        BY <2>3, LiveList DEF Lists
      <4> QED
        BY <3>1, <4>1, Joined DEF Wire
    <3>3. Len(buf) \in Nat \ {0} /\ r = buf[1]
      BY <1>1, <1>2, <3>2, ListFacts
    <3>4. w[1] = buf[1] /\ Len(w) # 0
      <4>1. 1 \in 1..Len(w) /\ 1 <= Len(buf)
        BY <3>2, <3>3 DEF IsJoin
      <4> QED
        BY <3>2, <4>1 DEF IsJoin
    <3>5. w # << >>
      BY <3>4, EmptyList
    <3> QED
      BY <1>4, <3>1, <3>3, <3>4, <3>5 DEF Accepted, Expected, IsResponse
  <2>6. CASE r.result = "rows" /\ buf' = Tail(buf) /\ cli' = [cli EXCEPT !.pc = "rows", !.count = CountOf(r)]
    <3>1. cli' = [pc |-> "rows", id |-> cli.id, count |-> CountOf(r)]
      BY <2>4, <2>6
    <3>2. cli'.pc = "rows" /\ cli'.id = cli.id /\ cli'.count = CountOf(r) /\ cli'.id \in Nat
          /\ cli' = [pc |-> cli'.pc, id |-> cli'.id, count |-> cli'.count]
      BY <2>4, <3>1
    <3>3. /\ IsList(shown') /\ Len(shown') = cli.id + 1 /\ ShownOK'
          /\ shown'[Len(shown')].result = r.result /\ shown'[Len(shown')].rows = 0
          /\ \A k \in 1..Len(shown') :
               shown'[k] = [of |-> shown'[k].of, result |-> shown'[k].result, rows |-> shown'[k].rows]
      BY <1>1, <2>1, <2>3, <2>5, <3>2, PrintedOK
    <3>4. Takes(1)
      BY <1>1, <2>6 DEF Takes
    <3>5. Left(Wire, Wire', 1) /\ (Dead' <=> Dead)
      BY <2>3, <3>4, TakesFacts
    <3>6. Lists' /\ Shapes' /\ RestOK'
      BY <1>1, <3>2, <3>3, <3>4, ClientKeeps
    <3>7. AtRows'
      BY <1>1, <2>3, <2>5, <2>6, <3>2, <3>3, <3>5, RowsBegin
    <3>8. ClientOK'
      BY <3>2, <3>7 DEF ClientOK
    <3> QED
      BY <3>3, <3>6, <3>8 DEF IInv
  <2>7. CASE r.result = "error" /\ buf' = buf /\ cli' = [cli EXCEPT !.pc = "closed"]
    <3>1. cli' = [pc |-> "closed", id |-> cli.id, count |-> cli.count]
      BY <2>4, <2>7
    <3>2. cli'.pc = "closed" /\ cli'.id \in Nat
          /\ cli' = [pc |-> cli'.pc, id |-> cli'.id, count |-> cli'.count]
      BY <2>4, <3>1
    <3>3. /\ IsList(shown') /\ ShownOK'
          /\ \A k \in 1..Len(shown') :
               shown'[k] = [of |-> shown'[k].of, result |-> shown'[k].result, rows |-> shown'[k].rows]
      BY <1>1, <2>1, <2>3, <2>5, <3>2, PrintedOK
    <3>4. Lists' /\ Shapes' /\ RestOK'
      <4>1. Lists'
        BY <1>1, <2>7, <3>3 DEF IInv, Lists
      <4>2. Shapes'
        BY <1>1, <3>2, <3>3 DEF IInv, Shapes
      <4>3. RestOK'
        BY <1>1 DEF IInv, RestOK
      <4> QED
        BY <4>1, <4>2, <4>3
    <3>5. ClientOK'
      BY <3>2 DEF ClientOK
    <3> QED
      BY <3>3, <3>4, <3>5 DEF IInv
  <2>8. CASE r.result # "rows" /\ ClientNext(CountOf(r))
    <3>1. /\ cli' = [pc |-> cli'.pc, id |-> cli'.id, count |-> cli'.count]
          /\ cli'.id = cli.id + 1 /\ buf' = << >>
      BY <2>8 DEF ClientNext
    <3>2. cli'.id \in Nat
      BY <2>4, <3>1
    <3>3. /\ IsList(shown') /\ Len(shown') = cli.id + 1 /\ ShownOK'
          /\ \A k \in 1..Len(shown') :
               shown'[k] = [of |-> shown'[k].of, result |-> shown'[k].result, rows |-> shown'[k].rows]
      BY <1>1, <2>1, <2>3, <2>5, <2>8, PrintedOK
    <3>4. PICK a : a = Len(buf)
      OBVIOUS
    <3>5. Takes(a)
      BY <1>1, <3>1, <3>4 DEF Takes
    <3>6. Left(Wire, Wire', a) /\ (Dead' <=> Dead)
      BY <2>3, <3>5, TakesFacts
    <3>7. Lists' /\ Shapes' /\ RestOK'
      BY <1>1, <3>1, <3>2, <3>3, <3>5, ClientKeeps
    <3>8. ClientOK'
      BY <1>1, <2>3, <2>5, <2>8, <3>3, <3>6, NextResponse
    <3> QED
      BY <3>3, <3>7, <3>8 DEF IInv
  <2> QED
    BY <2>2, <2>6, <2>7, <2>8
<1> QED
  BY <1>3, <1>4

\* A row is read, or what is taken for one.
LEMMA RowRead ==
  ASSUME IInv, AtRows, cli.pc = "rows", Wire # << >>, Wire[1].kind # "end",
         UNCHANGED <<cli, cmd, up, req, hnd, broke>>, Left(Wire, Wire', 1), (Dead' <=> Dead),
         Len(shown') = Len(shown), shown'[Len(shown)].result = shown[Len(shown)].result,
         shown'[Len(shown)].rows = shown[Len(shown)].rows + 1
  PROVE  AtRows'
<1>1. PICK w, v, n : w = Wire /\ v = Wire' /\ n = shown[Len(shown)].rows
  OBVIOUS
<1>2. /\ IsList(w) /\ IsList(v) /\ Len(w) \in Nat /\ Len(v) \in Nat /\ Len(v) = Len(w) - 1
      /\ \A j \in 1..Len(v) : v[j] = w[1 + j]
  BY <1>1 DEF Left
<1>3. Piece(v, cmd, broke)
  <2>1. Part(w, v, 1)
    BY <1>1, LeftIsPart
  <2>2. Piece(w, cmd, broke)
    BY <1>1 DEF AtRows
  <2> QED
    BY <2>1, <2>2, PartOfPiece
<1>4. ~broke => n = 0 /\ (Len(w) >= 2 => w[2].kind = "end")
  <2> SUFFICES ASSUME ~broke PROVE n = 0 /\ (Len(w) >= 2 => w[2].kind = "end")
    OBVIOUS
  <2>1. n \in {0, 1} /\ (Len(w) >= 2 - n => w[2 - n].kind = "end")
    BY <1>1 DEF AtRows
  <2>2. Len(w) >= 1
    BY <1>2
  <2>3. n # 1
    <3>1. n = 1 => 2 - n = 1
      OBVIOUS
    <3> QED
      BY <1>1, <2>1, <2>2, <3>1
  <2>4. n = 0 /\ 2 - n = 2
    BY <2>1, <2>3
  <2> QED
    BY <2>1, <2>4
<1>5. ~broke => /\ shown'[Len(shown')].result = "rows" /\ shown'[Len(shown')].rows = 1
                /\ Len(v) >= 1 => v[1].kind = "end"
  <2> SUFFICES ASSUME ~broke
               PROVE  /\ shown'[Len(shown')].result = "rows" /\ shown'[Len(shown')].rows = 1
                      /\ Len(v) >= 1 => v[1].kind = "end"
    OBVIOUS
  <2>1. shown[Len(shown)].result = "rows"
    BY DEF AtRows
  <2>2. n + 1 = 1
    BY <1>4
  <2>3. Len(v) >= 1 => 1 \in 1..Len(v) /\ 1 + 1 = 2 /\ Len(w) >= 2
    BY <1>2
  <2> QED
    BY <1>1, <1>2, <1>4, <2>1, <2>2, <2>3
<1>6. Quiet' \/ Running' \/ Finished'
  <2>1. Quiet \/ Running \/ Finished
    BY DEF AtRows
  <2>2. ASSUME Running PROVE Running'
    <3>1. Len(shown') < hnd.i
      BY <2>2 DEF Running
    <3>2. ~broke => Len(v) >= 1
      <4>1. ~broke => Len(w) >= 2 - n
        BY <1>1, <2>2 DEF Running
      <4>2. ~broke => Len(w) >= 2
        BY <1>4, <4>1
      <4> QED
        BY <1>2, <4>2
    <3>3. ~broke => Len(v) >= 2 - shown'[Len(shown')].rows
      <4>1. 2 - 1 = 1
        OBVIOUS
      <4> QED
        BY <1>5, <3>2, <4>1
    <3> QED
      BY <1>1, <2>2, <3>1, <3>3, StageKept
  <2> QED
    BY <2>1, <2>2, StageKept
<1>7. cli'.id + 1 = cli'.count => Len(v) <= 1
  <2>1. cli.id + 1 = cli.count => Len(w) <= 2
    BY <1>1 DEF AtRows
  <2> QED
    BY <1>2, <2>1
<1>8. cli'.id + 1 = cli'.count => Len(v) <= 2 /\ Len(v) # 2
  BY <1>2, <1>7
<1>9. Len(shown') = cli'.id + 1 /\ cli'.count = Len(cmd') /\ cli'.id < cli'.count
  BY DEF AtRows
<1>10. ~broke' => /\ shown'[Len(shown')].result = "rows" /\ shown'[Len(shown')].rows \in {0, 1}
                  /\ shown'[Len(shown')].rows # 0
                  /\ Len(v) >= 2 - shown'[Len(shown')].rows => v[2 - shown'[Len(shown')].rows].kind = "end"
  <2>1. 2 - 1 = 1
    OBVIOUS
  <2> QED
    BY <1>5, <2>1
<1> QED
  BY <1>1, <1>3, <1>6, <1>8, <1>9, <1>10 DEF AtRows

\* The row set has ended, or seems to have.
LEMMA RowsEnd ==
  ASSUME IInv, AtRows, cli.pc = "rows", Wire # << >>, Wire[1].kind \in {"end", "response", "rest"},
         UNCHANGED <<cmd, shown, up, req, hnd, broke>>, NEW a, Left(Wire, Wire', a), (Dead' <=> Dead),
         ClientNext(cli.count)
  PROVE  ClientOK' /\ ShownOK'
<1>1. PICK w, v, n : w = Wire /\ v = Wire' /\ n = shown[Len(shown)].rows
  OBVIOUS
<1>2. /\ IsList(w) /\ IsList(v) /\ Len(w) \in Nat /\ Len(v) \in Nat /\ a \in 1..Len(w)
      /\ Len(v) = Len(w) - a
  BY <1>1 DEF Left
<1>3. /\ Len(shown) = cli.id + 1 /\ cli.count = Len(cmd) /\ cli.id < cli.count
      /\ Len(cmd) \in Nat /\ cli.id \in Nat
  BY CommandFacts DEF AtRows, IInv, Shapes
<1>4. cli' = [pc |-> IF cli.id + 1 < cli.count THEN "response" ELSE "idle",
              id |-> cli.id + 1, count |-> cli.count]
  BY DEF ClientNext
<1>5. Quiet \/ Running \/ Finished
  BY DEF AtRows
<1>6. ~IsRow(w[1]) /\ Len(w) >= 1
  BY <1>1, <1>2 DEF IsRow
<1>7. ShownOK'
  <2>1. ~broke => n = 1 /\ shown[Len(shown)].result = "rows"
    BY <1>1, <1>6 DEF AtRows
  <2>2. ASSUME NEW k \in 1..Len(shown)
        PROVE  /\ shown[k].of = k
               /\ ~broke => /\ k \in 1..Len(cmd)
                            /\ shown[k].result = IF Refused(cmd[k]) THEN "error" ELSE cmd[k]
               /\ ~broke => shown[k].rows = IF cmd[k] = "rows" THEN 1 ELSE 0
    <3>1. /\ shown[k].of = k
          /\ ~broke => /\ k \in 1..Len(cmd)
                       /\ shown[k].result = IF Refused(cmd[k]) THEN "error" ELSE cmd[k]
          /\ ~broke /\ k < Len(shown) => shown[k].rows = IF cmd[k] = "rows" THEN 1 ELSE 0
      BY DEF IInv, ShownOK
    <3>2. k < Len(shown) \/ k = Len(shown)
      BY <1>3
    <3>3. ASSUME ~broke, k = Len(shown) PROVE shown[k].rows = IF cmd[k] = "rows" THEN 1 ELSE 0
      <4>1. cmd[k] = "rows"
        BY <2>1, <3>1, <3>3 DEF Refused
      <4> QED
        BY <1>1, <2>1, <3>3, <4>1
    <3> QED
      BY <3>1, <3>2, <3>3
  <2> QED
    BY <2>2 DEF ShownOK
<1>8. CASE cli.id + 1 < cli.count
  <2>1. cli'.pc = "response" /\ cli'.id = cli.id + 1 /\ cli'.count = Len(cmd') /\ cli'.id # 0 /\ cli'.id < cli'.count
    BY <1>3, <1>4, <1>8
  <2>2. Piece(v, cmd, broke)
    <3>1. Part(w, v, a)
      BY <1>1, LeftIsPart
    <3>2. Piece(w, cmd, broke)
      BY <1>1 DEF AtRows
    <3> QED
      BY <3>1, <3>2, PartOfPiece
  <2>3. Running => Running'
    <3>1. Running => Len(shown') < hnd.i
      BY DEF Running
    <3> QED
      BY <2>1, <3>1, StageKept
  <2>4. Quiet' \/ Running' \/ Finished'
    BY <1>5, <2>3, StageKept
  <2>5. AtResponse'
    BY <1>1, <1>3, <2>1, <2>2, <2>4 DEF AtResponse
  <2> QED
    BY <1>7, <2>1, <2>5 DEF ClientOK
<1>9. CASE ~(cli.id + 1 < cli.count)
  <2>1. cli'.pc = "idle"
    BY <1>4, <1>9
  <2>2. cli.id + 1 = cli.count
    BY <1>3, <1>9
  <2>3. Len(w) <= 2 /\ Len(w) # 2
    BY <1>1, <1>6, <2>2 DEF AtRows
  <2>4. v = << >>
    <3>1. a = 1 /\ Len(w) = 1
      BY <1>2, <1>6, <2>3
    <3>2. Len(v) = 0
      BY <1>2, <3>1
    <3> QED
      BY <1>2, <3>2, ListFacts
  <2>5. ~Running
    <3>1. Running => Len(shown) < hnd.i /\ hnd.i \in 1..Len(cmd)
      BY DEF Running
    <3>2. Running => FALSE
      BY <1>3, <2>2, <3>1
    <3> QED
      BY <3>2
  <2>6. Quiet' \/ Finished'
    BY <1>5, <2>5, StageKept
  <2>7. AtIdle'
    BY <1>1, <2>4, <2>6 DEF AtIdle
  <2> QED
    BY <1>7, <2>1, <2>7 DEF ClientOK
<1> QED
  BY <1>8, <1>9

LEMMA ClientRowInv ==
  ASSUME IInv, ClientRow
  PROVE  IInv'
<1>1. /\ cli.pc = "rows" /\ buf # << >>
      /\ UNCHANGED <<cmd, up, down, wrk, req, rsp, hnd, broke>>
  BY DEF ClientRow
<1>2. AtRows /\ Lists
  BY <1>1 DEF IInv, ClientOK
<1>3. cli = [pc |-> cli.pc, id |-> cli.id, count |-> cli.count] /\ cli.id \in Nat
  BY DEF IInv, Shapes
<1>4. IsList(shown) /\ Len(shown) = cli.id + 1
  BY <1>2 DEF Lists, AtRows
<1>5. CASE /\ Head(buf).kind # "end" /\ buf' = Tail(buf) /\ cli' = cli
           /\ shown' = [shown EXCEPT ![Len(shown)].rows = @ + 1]
  <2>1. Takes(1)
    BY <1>1, <1>5 DEF Takes
  <2>2. Left(Wire, Wire', 1) /\ (Dead' <=> Dead) /\ Head(buf) = Wire[1] /\ 1 \in 1..Len(Wire)
    BY <1>2, <2>1, TakesFacts
  <2>3. Wire # << >>
    BY <2>2, EmptyList
  <2>4. PICK n, e, s : n = Len(shown) /\ e = [shown[Len(shown)] EXCEPT !.rows = @ + 1] /\ s = shown'
    OBVIOUS
  <2>5. n \in Nat /\ n \in 1..n /\ n = Len(shown)
    BY <1>3, <1>4, <2>4
  <2>6. s = [shown EXCEPT ![n] = e]
    BY <1>5, <2>4
  <2>7. /\ IsList(s) /\ Len(s) = n /\ s[n] = e
        /\ \A k \in 1..n : k # n => s[k] = shown[k]
    <3>1. PICK F : shown \in Seq(F)
      BY <1>4 DEF IsList
    <3>2. shown \in Seq(F \cup {e}) /\ e \in F \cup {e} /\ n \in 1..Len(shown)
      BY <2>5, <3>1
    <3>3. s \in Seq(F \cup {e}) /\ Len(s) = Len(shown)
      BY <2>6, <3>2, ExceptSeq
    <3>4. \A k \in 1..Len(shown) : s[k] = IF k = n THEN e ELSE shown[k]
      BY <2>6, <3>2, ExceptSeq
    <3> QED
      BY <2>5, <3>3, <3>4 DEF IsList
  <2>8. /\ e = [of |-> e.of, result |-> e.result, rows |-> e.rows]
        /\ e.of = shown[n].of /\ e.result = shown[n].result /\ e.rows = shown[n].rows + 1
    <3>1. PICK t : t = shown[n]
      OBVIOUS
    <3>2. t = [of |-> t.of, result |-> t.result, rows |-> t.rows]
      BY <2>5, <3>1 DEF IInv, Shapes
    <3>3. e = [t EXCEPT !.rows = @ + 1]
      BY <2>4, <3>1
    <3>4. e = [of |-> t.of, result |-> t.result, rows |-> t.rows + 1]
      BY <3>2, <3>3
    <3> QED
      BY <3>1, <3>4
  <2>9. \A k \in 1..n : s[k] = [of |-> s[k].of, result |-> s[k].result, rows |-> s[k].rows]
    <3>1. ASSUME NEW k \in 1..n, k # n PROVE s[k] = [of |-> s[k].of, result |-> s[k].result, rows |-> s[k].rows]
      BY <2>5, <2>7, <3>1 DEF IInv, Shapes
    <3> QED
      BY <2>7, <2>8, <3>1
  <2>10. Lists' /\ Shapes' /\ RestOK'
    <3>1. cli' = [pc |-> cli'.pc, id |-> cli'.id, count |-> cli'.count] /\ cli'.id \in Nat
      BY <1>3, <1>5
    <3>2. IsList(shown') /\ \A k \in 1..Len(shown') :
             shown'[k] = [of |-> shown'[k].of, result |-> shown'[k].result, rows |-> shown'[k].rows]
      BY <2>4, <2>7, <2>9
    <3> QED
      BY <1>1, <2>1, <3>1, <3>2, ClientKeeps
  <2>11. ShownOK'
    <3>1. ASSUME NEW k \in 1..n
          PROVE  /\ s[k].of = k
                 /\ ~broke => /\ k \in 1..Len(cmd)
                              /\ s[k].result = IF Refused(cmd[k]) THEN "error" ELSE cmd[k]
                 /\ ~broke /\ k < n => s[k].rows = IF cmd[k] = "rows" THEN 1 ELSE 0
      <4>1. /\ shown[k].of = k
            /\ ~broke => /\ k \in 1..Len(cmd)
                         /\ shown[k].result = IF Refused(cmd[k]) THEN "error" ELSE cmd[k]
            /\ ~broke /\ k < n => shown[k].rows = IF cmd[k] = "rows" THEN 1 ELSE 0
        BY <2>5 DEF IInv, ShownOK
      <4>2. CASE k = n
        <5>1. ~(k < n)
          BY <2>5, <4>2
        <5> QED
          BY <2>7, <2>8, <4>1, <4>2, <5>1
      <4>3. CASE k # n
        BY <2>7, <4>1, <4>3
      <4> QED
        BY <4>2, <4>3
    <3>2. cli'.pc = "rows"
      BY <1>1, <1>5
    <3> QED
      BY <1>1, <2>4, <2>7, <3>1, <3>2 DEF ShownOK
  <2>12. AtRows'
    <3>1. /\ Len(shown') = Len(shown) /\ shown'[Len(shown)].result = shown[Len(shown)].result
          /\ shown'[Len(shown)].rows = shown[Len(shown)].rows + 1
      BY <2>4, <2>7, <2>8
    <3>2. Wire[1].kind # "end"
      BY <1>5, <2>2
    <3> QED
      BY <1>1, <1>2, <1>5, <2>2, <2>3, <3>1, <3>2, RowRead
  <2>13. ClientOK'
    BY <1>1, <1>5, <2>12 DEF ClientOK
  <2> QED
    BY <2>10, <2>11, <2>13 DEF IInv
<1>6. CASE Head(buf).kind \in {"end", "response", "rest"} /\ ClientNext(cli.count) /\ shown' = shown
  <2>1. PICK a : a = Len(buf)
    OBVIOUS
  <2>2. /\ cli' = [pc |-> cli'.pc, id |-> cli'.id, count |-> cli'.count]
        /\ cli'.id = cli.id + 1 /\ buf' = << >>
    BY <1>6 DEF ClientNext
  <2>3. cli'.id \in Nat
    BY <1>3, <2>2
  <2>4. Takes(a)
    BY <1>1, <2>1, <2>2 DEF Takes
  <2>5. Left(Wire, Wire', a) /\ (Dead' <=> Dead) /\ Head(buf) = Wire[1] /\ 1 \in 1..Len(Wire)
    BY <1>2, <2>4, TakesFacts
  <2>6. Wire # << >>
    BY <2>5, EmptyList
  <2>7. Lists' /\ Shapes' /\ RestOK'
    <3>1. IsList(shown') /\ \A k \in 1..Len(shown') :
             shown'[k] = [of |-> shown'[k].of, result |-> shown'[k].result, rows |-> shown'[k].rows]
      BY <1>4, <1>6 DEF IInv, Shapes
    <3> QED
      BY <1>1, <2>2, <2>3, <2>4, <3>1, ClientKeeps
  <2>8. Wire[1].kind \in {"end", "response", "rest"}
    BY <1>6, <2>5
  <2>9. ClientOK' /\ ShownOK'
    BY <1>1, <1>2, <1>6, <2>5, <2>6, <2>8, RowsEnd
  <2> QED
    BY <2>7, <2>9 DEF IInv
<1> QED
  BY <1>5, <1>6 DEF ClientRow

-----------------------------------------------------------------------------
(***************************************************************************)
(* The invariant.                                                          *)
(***************************************************************************)

LEMMA InitIInv ==
  ASSUME Init
  PROVE  IInv
<1>1. /\ cli = [pc |-> "connect", id |-> 0, count |-> 0]
      /\ cmd = << >> /\ buf = << >> /\ shown = << >>
      /\ up = << >> /\ down = << >> /\ req = << >> /\ rsp = << >>
      /\ wrk = [pc |-> "begin", id |-> 0, count |-> 0]
      /\ hnd = [pc |-> "begin", cmd |-> << >>, i |-> 0]
      /\ broke = FALSE
  BY DEF Init
<1>2. Lists
  BY <1>1, EmptyList DEF Lists
<1>3. Shapes
  <2>1. \A k \in 1..Len(shown) : FALSE
    BY <1>1, EmptyList
  <2> QED
    BY <1>1, <2>1 DEF Shapes
<1>4. RestOK
  BY <1>1, EmptyList DEF RestOK
<1>5. ShownOK
  BY <1>1, EmptyList DEF ShownOK
<1>6. Wire = << >>
  <2>1. Live = << >>
    BY <1>1 DEF Live
  <2> QED
    BY <1>1, <2>1 DEF Wire
<1>7. Handshake
  BY <1>1, <1>6, EmptyList DEF Handshake, Nowhere
<1>8. ClientOK
  BY <1>1, <1>7 DEF ClientOK
<1> QED
  BY <1>2, <1>3, <1>4, <1>5, <1>8 DEF IInv

LEMMA StutterIInv ==
  ASSUME IInv, UNCHANGED vars
  PROVE  IInv'
<1>1. UNCHANGED <<cli, cmd, buf, shown, up, down, wrk, req, rsp, hnd, broke>>
  BY DEF vars, client
<1>2. Wire' = Wire /\ (Quiet' <=> Quiet) /\ Live' = Live
  BY <1>1 DEF Wire, Live, Quiet, Dead
<1>3. Lists'
  BY <1>1 DEF IInv, Lists
<1>4. Shapes'
  BY <1>1 DEF IInv, Shapes
<1>5. RestOK'
  BY <1>1 DEF IInv, RestOK
<1>6. Part(Wire, Wire', 0)
  BY <1>2, PartSelf, WireList DEF IInv
<1>7. Quiet' \/ Passes
  BY <1>1, <1>2 DEF Passes, Moves
<1> QED
  BY <1>1, <1>3, <1>4, <1>5, <1>6, <1>7, CutStep

LEMMA NextIInv ==
  ASSUME IInv, [Next]_vars
  PROVE  IInv'
<1>1. CASE ClientStep
  BY <1>1, ClientBeginsInv, ClientFillsInv, ClientAuthenticatesInv, ClientResponseInv, ClientRowInv,
     ClientGoesInv DEF ClientStep
<1>2. CASE ClientSends \/ ClientLeaves
  BY <1>2, ClientSendsInv, ClientGoesInv
<1>3. CASE WorkerStep
  BY <1>3, WorkerForwardsInv, WorkerAnswersInv, WorkerResponseInv, WorkerRowInv, WorkerStopsInv
     DEF WorkerStep
<1>4. CASE HandlerStep
  BY <1>4, HandlerAuthenticatesInv, HandlerReadsInv, HandlerExecutesInv, HandlerLosesWorkerInv
     DEF HandlerStep
<1>5. CASE ServerDies
  BY <1>5, ServerDiesInv
<1>6. CASE UNCHANGED vars
  BY <1>6, StutterIInv
<1> QED
  BY <1>1, <1>2, <1>3, <1>4, <1>5, <1>6 DEF Next

LEMMA IInvImpliesAnswersMatch ==
  ASSUME IInv
  PROVE  AnswersMatch
<1>1. IsList(shown)
  BY DEF IInv, Lists
<1>2. DOMAIN shown = 1..Len(shown)
  BY <1>1, ListFacts
<1>3. ASSUME NEW k \in 1..Len(shown)
      PROVE  /\ shown[k].of = k
             /\ ~broke => shown[k].result = IF cmd[k] \in {"bad", "syntax"} THEN "error" ELSE cmd[k]
             /\ ~broke /\ (k < Len(shown) \/ cli.pc = "idle") =>
                    shown[k].rows = IF cmd[k] = "rows" THEN 1 ELSE 0
  BY DEF IInv, ShownOK, Refused
<1> QED
  BY <1>2, <1>3 DEF AnswersMatch

\* The client never takes the response of one statement for that of another: what
\* it prints as result k of a command is what statement k gave, for commands of
\* any length, whatever it reads ahead and drops (executeCommandOnServer makes a
\* stream per response), whatever the factory refuses with response ID 0
\* (sendErrorReponse), and wherever the worker or the IO manager ends.
THEOREM AnswersAreMatched == Spec => []AnswersMatch
<1>1. Init => IInv
  BY InitIInv
<1>2. IInv /\ [Next]_vars => IInv'
  BY NextIInv
<1>3. IInv => AnswersMatch
  BY IInvImpliesAnswersMatch
<1> QED
  BY <1>1, <1>2, <1>3, PTL DEF Spec

=============================================================================
