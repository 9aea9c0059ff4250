---------------------------- MODULE TextColumn ----------------------------
(***************************************************************************)
(* A column of texts or binaries (Column::writeBuffer, writeLob, loadText, *)
(* ColumnLobStream).  A text is a chain of chunks.  A chunk is a header    *)
(* with the length that remains, the length of the chunk and the place of  *)
(* the next one, followed by the data; a text that does not fit in a block *)
(* goes on in a new block.                                                 *)
(*                                                                         *)
(* The list of available blocks (avail) records the free space of blocks,  *)
(* by which the block of the next text is selected.  It is not always      *)
(* brought up to date.  Blocks are not evicted and the process does not    *)
(* crash: that is the subject of ColumnStore.                              *)
(***************************************************************************)
EXTENDS Integers, Sequences, FiniteSets, FiniteSetsExt, Functions

CONSTANTS
  AreaSize,     \* bytes of a block
  HeaderSize,   \* LobChunkHeader::kSerializedSize
  MinRequired,  \* free space by which a block is selected
  Threshold,    \* kBlockFreeSpaceThresholdForLob
  SmallLimit,   \* kSmallLobSizeLimit
  Lengths,      \* lengths of texts
  MaxBlocks, MaxTexts, MaxFailures  \* bounds

ASSUME SizeAssumption ==
  /\ AreaSize \in Nat /\ HeaderSize \in Nat /\ Threshold \in Nat \ {0}
  /\ HeaderSize + Threshold <= AreaSize
  /\ MinRequired \in 1..(HeaderSize - 1)  \* 10 and 20 in the code
ASSUME LengthAssumption == Lengths \subseteq Nat /\ SmallLimit \in Nat \ {0}
ASSUME BoundAssumption == MaxBlocks \in Nat

VARIABLES
  pos,      \* next position in each block
  chunks,   \* the chunks that are intact, by <<block, offset>>
  avail,    \* m_availableDataBlocks
  texts,    \* the texts that have been written
  writing,  \* the text that is being written
  fresh,    \* the last text may still be rolled back
  failures

vars == <<pos, chunks, avail, texts, writing, fresh, failures>>

-----------------------------------------------------------------------------
Blocks == DOMAIN pos
LastBlock == Len(pos)
Free(b) == AreaSize - pos[b]

NoAddress == <<0, 0>>
Nothing == [text |-> 0]

(* A chunk of text t that holds length bytes from the byte after from on.  *)
Chunk(t, from, remaining, length, ok) ==
  [text |-> t, from |-> from, remaining |-> remaining, length |-> length, ok |-> ok, next |-> NoAddress]

(* Bytes of block b from offset on are written: chunks there are gone.     *)
Survivors(b, offset) ==
  {a \in DOMAIN chunks : ~(a[1] = b /\ a[2] + HeaderSize + chunks[a].length > offset)}

Init ==
  /\ pos = <<>> /\ chunks = <<>> /\ avail = <<>>
  /\ texts = <<>> /\ writing = Nothing
  /\ fresh = FALSE /\ failures = 0

-----------------------------------------------------------------------------
(* selectAvailableBlockUnlocked: the first block in which there seems to   *)
(* be room; else a new block after the one with the most free space.       *)
Fitting == {b \in DOMAIN avail : avail[b] >= MinRequired}

Fullest == CHOOSE b \in DOMAIN avail :
             \A c \in DOMAIN avail : avail[c] < avail[b] \/ (avail[c] = avail[b] /\ b <= c)

Without(b) == Restrict(avail, DOMAIN avail \ {b})
WithRoom(f, b, n) == [x \in DOMAIN f \cup {b} |-> IF x = b THEN n ELSE f[x]]

Writing(b, p, n, kind) ==
  [text |-> Len(texts) + 1, kind |-> kind, len |-> n, left |-> n, first |-> b, at |-> p, block |-> b,
   header |-> NoAddress, lost |-> FALSE]

Begin(n, kind) ==
  /\ writing = Nothing /\ Len(texts) < MaxTexts
  /\ \/ /\ Fitting # {}
        /\ writing' = Writing(Min(Fitting), pos[Min(Fitting)], n, kind)
        /\ UNCHANGED <<pos, avail>>
     \/ /\ Fitting = {} /\ LastBlock < MaxBlocks
        /\ pos' = Append(pos, 0)
        /\ writing' = Writing(LastBlock + 1, 0, n, kind)
        /\ avail' = WithRoom(IF avail = <<>> THEN avail ELSE Without(Fullest), LastBlock + 1, AreaSize)
  /\ fresh' = FALSE
  /\ UNCHANGED <<chunks, texts, failures>>

(* A string.                                                               *)
BeginText == \E n \in Lengths : Begin(n, "string")

(* No block can be created; the fullest one has been erased from the list. *)
BeginFails ==
  /\ writing = Nothing /\ Len(texts) < MaxTexts /\ failures < MaxFailures
  /\ Fitting = {} /\ avail # <<>>
  /\ avail' = Without(Fullest)
  /\ fresh' = FALSE /\ failures' = failures + 1
  /\ UNCHANGED <<pos, chunks, texts, writing>>

(* What fits after the header.                                             *)
ChunkLength(b, left) == Min({Free(b) - HeaderSize, left})

(* The header and the data of a chunk.                                     *)
WriteChunk ==
  /\ writing # Nothing
  /\ writing.left > 0 \/ writing.header = NoAddress
  /\ LET b == writing.block
         n == ChunkLength(b, writing.left)
         place == <<b, pos[b]>>
         done == writing.len - writing.left
     IN /\ Free(b) >= HeaderSize
        /\ chunks' = [a \in Survivors(b, pos[b]) \cup {place} |->
                        IF a = place THEN Chunk(writing.text, done, writing.left, n, TRUE) ELSE chunks[a]]
        /\ pos' = [pos EXCEPT ![b] = @ + HeaderSize + n]
        /\ writing' = [writing EXCEPT !.left = @ - n, !.header = place]
  /\ UNCHANGED <<avail, texts, fresh, failures>>

(* The write of the header or of the data fails.                           *)
Abandon ==
  /\ writing' = Nothing
  /\ texts' = Append(texts, [len |-> writing.len, at |-> NoAddress, kind |-> "failed", lost |-> FALSE])
  /\ failures < MaxFailures /\ failures' = failures + 1
  /\ UNCHANGED <<avail, fresh>>

WriteChunkFails ==
  /\ writing # Nothing
  /\ writing.left > 0 \/ writing.header = NoAddress
  /\ LET b == writing.block
         n == ChunkLength(b, writing.left)
         place == <<b, pos[b]>>
     IN /\ Free(b) >= HeaderSize
        /\ \/ /\ chunks' = Restrict(chunks, Survivors(b, pos[b]))
              /\ UNCHANGED pos
           \/ /\ chunks' = [a \in Survivors(b, pos[b]) \cup {place} |->
                              IF a = place THEN Chunk(writing.text, 0, writing.left, n, FALSE) ELSE chunks[a]]
              /\ pos' = [pos EXCEPT ![b] = @ + HeaderSize]
  /\ Abandon

(* createOrGetNextBlock: the text goes on in a new block; the old one is   *)
(* closed.  The header of the chunk before it gets the link.  When not     *)
(* even the first header has found room, the text begins in the new block, *)
(* while its address will be the place in the old one.                     *)
(* The link leads to the end of the old block.                             *)
LinkMutant(b) == <<writing.block, pos[writing.block]>>

Link(b) == <<b, 0>>

NextBlock ==
  /\ writing # Nothing
  /\ writing.left > 0 \/ writing.header = NoAddress
  /\ Free(writing.block) < HeaderSize /\ LastBlock < MaxBlocks
  /\ LET new == LastBlock + 1
     IN /\ pos' = Append(pos, 0)
        /\ avail' = WithRoom(Without(writing.block), new, AreaSize)
        /\ writing' = [writing EXCEPT !.block = new, !.lost = @ \/ writing.header = NoAddress]
        /\ chunks' = IF writing.header = NoAddress THEN chunks
                     ELSE [chunks EXCEPT ![writing.header].next = Link(new)]
  /\ UNCHANGED <<texts, fresh, failures>>

NextBlockFails ==
  /\ writing # Nothing
  /\ writing.left > 0 \/ writing.header = NoAddress
  /\ Free(writing.block) < HeaderSize
  /\ Abandon
  /\ UNCHANGED <<pos, chunks>>

(* The end of writeRecord.  For a string, the record of the first block in *)
(* the list is updated through an iterator; if that record was erased,     *)
(* the update hits freed memory, or the record of the last block, which    *)
(* has taken its place.  For a stream, the list is not updated, and the    *)
(* address is that of NULL unless the first header found no room.          *)
Written(at) == [len |-> writing.len, at |-> at, kind |-> writing.kind, lost |-> writing.lost]

EndWrite ==
  /\ writing # Nothing /\ writing.left = 0 /\ writing.header # NoAddress
  /\ LET b == writing.first
         here == <<b, writing.at>>
     IN IF writing.kind = "string"
        THEN /\ IF writing.block = b
                THEN avail' = [avail EXCEPT ![b] = Free(b)]
                ELSE avail' \in {avail, [avail EXCEPT ![writing.block] = Free(b)]}
             /\ texts' = Append(texts, Written(here))
             /\ fresh' = TRUE
        ELSE /\ UNCHANGED avail
             /\ texts' = Append(texts, Written(IF writing.lost THEN here ELSE NoAddress))
             /\ fresh' = writing.lost
  /\ writing' = Nothing
  /\ UNCHANGED <<pos, chunks, failures>>

RoomAfterRollback(b, offset) == [avail EXCEPT ![b] = AreaSize - offset]

(* Another column of the row could not be written: rollbackToAddress takes *)
(* the text back, if its first block still is an available one.            *)
Rollback ==
  /\ writing = Nothing /\ fresh
  /\ LET t == Len(texts)
         b == texts[t].at[1]
     IN /\ IF b \in DOMAIN avail
           THEN /\ pos' = [pos EXCEPT ![b] = texts[t].at[2]]
                /\ avail' = RoomAfterRollback(b, texts[t].at[2])
           ELSE UNCHANGED <<pos, avail>>
        /\ texts' = [texts EXCEPT ![t].kind = "undone"]
  /\ fresh' = FALSE
  /\ UNCHANGED <<chunks, writing, failures>>

-----------------------------------------------------------------------------
(* Reading.  The chain of chunks from an address on.                       *)
Chain(a) ==
  LET place[k \in 1..(MaxBlocks + 1)] ==
        IF k = 1 THEN a
        ELSE LET before == place[k - 1]
             IN IF before \in DOMAIN chunks THEN chunks[before].next ELSE NoAddress
      length == Cardinality({k \in 1..(MaxBlocks + 1) : \A j \in 1..k : place[j] \in DOMAIN chunks})
  IN [k \in 1..length |-> chunks[place[k]]]

(* readRecord and loadLobChunkHeaderUnlocked refuse addresses near the end *)
(* of a block.                                                             *)
AddressIsValid(a) ==
  a # NoAddress /\ a[2] + MinRequired < AreaSize /\ AreaSize - a[2] >= HeaderSize

(* readInternal refuses a chunk after the first whose successor is in the  *)
(* last block.                                                             *)
RefusesLink(c, k) == k > 1 /\ c[k].next[1] >= LastBlock

(* The text t can be read at its address, to the last byte.                *)
ReadsBack(t) ==
  LET x == texts[t]
      c == Chain(x.at)
  IN /\ AddressIsValid(x.at) /\ c # <<>>
     /\ c[1].remaining = x.len
     /\ \A k \in DOMAIN c :
          /\ c[k].text = t /\ c[k].ok
          /\ c[k].from = x.len - c[k].remaining
          /\ k > 1 => c[k].length > 0
          /\ k < Len(c) => c[k].length + c[k + 1].remaining = c[k].remaining
          /\ ~RefusesLink(c, k)
     /\ c[Len(c)].length = c[Len(c)].remaining

(* UPDATE t SET x = x for a text that is read as a stream.                 *)
BeginCopy ==
  \E t \in DOMAIN texts :
    /\ texts[t].kind = "string" /\ texts[t].len >= SmallLimit /\ ReadsBack(t)
    /\ Begin(texts[t].len, "stream")

Next ==
  \/ BeginText \/ BeginCopy \/ BeginFails
  \/ WriteChunk \/ WriteChunkFails \/ NextBlock \/ NextBlockFails
  \/ EndWrite \/ Rollback

Spec == Init /\ [][Next]_vars

-----------------------------------------------------------------------------
(* Properties.                                                             *)

(* A text in three or more blocks whose last chunk is in the last block.   *)
EndsInLastBlock(t) ==
  LET c == Chain(texts[t].at) IN \E k \in DOMAIN c : RefusesLink(c, k)

(* A text that was written can be read again, whatever was written, failed *)
(* or was rolled back before and after it (writeBuffer, ColumnLobStream::  *)
(* readInternal).  Named exceptions: the text whose first header did not   *)
(* fit in the selected block, and the text in three or more blocks that    *)
(* ends in the last one.                                                   *)
TextsReadBack ==
  \A t \in DOMAIN texts :
    texts[t].kind = "string" /\ ~texts[t].lost => EndsInLastBlock(t) \/ ReadsBack(t)
=============================================================================
