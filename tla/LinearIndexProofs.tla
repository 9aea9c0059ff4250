------------------------- MODULE LinearIndexProofs -------------------------
(***************************************************************************)
(* The linear index implements the atomic index, and keeps its least and   *)
(* greatest key exact, for every number of records per file, every set of  *)
(* keys and values and every cache.                                        *)
(***************************************************************************)
EXTENDS LinearIndex, WellFoundedInduction, TLAPS

(* The value of a record that the state s selects.                         *)
ValueAt(r, s) == IF s = 1 THEN r.v1 ELSE r.v2

(* Where the request stands: what its earlier steps have left behind.      *)
Progress ==
  /\ pc \in {"create", "register"} => req.kind = "insert" /\ FileOf(req.key) \notin files
  /\ pc = "register" => FileOf(req.key) \in onDisk /\ disk[req.key] = Free
  /\ pc \in {"value", "state"} =>
       /\ FileOf(req.key) \in files
       /\ (req.kind = "insert") <=> (mem[req.key].st = 0)
  /\ pc = "value" => req.kind # "erase"
  /\ pc = "state" /\ req.kind # "erase" =>
       /\ ValueAt(mem[req.key], TargetState(req)) = req.val
       /\ ValueAt(disk[req.key], TargetState(req)) = req.val

IType ==
  /\ up \in BOOLEAN
  /\ disk \in [Keys -> Record] /\ mem \in [Keys -> Record]
  /\ req \in Requests \cup {NoRequest} /\ pc \in PcValues
  /\ (req = NoRequest) <=> (pc = "idle")
  /\ ~up => pc = "idle" /\ files = {}
  /\ files \subseteq onDisk

(* Buffers and files: they differ only where a file is open, and where the *)
(* state bytes agree the selected values do.                               *)
Buffers ==
  /\ \A k \in Keys : FileOf(k) \notin files => mem[k] = disk[k]
  /\ \A k \in Keys : FileOf(k) \notin onDisk => disk[k] = Free
  /\ \A k \in Keys : mem[k].st = disk[k].st => Stored(mem[k]) = Stored(disk[k])

IInv == IType /\ Buffers /\ Progress

-----------------------------------------------------------------------------
(* What the operators on records return.                                   *)
LEMMA StoredFacts ==
  ASSUME NEW r \in Record
  PROVE  /\ r.st \in 0..2
         /\ r.st = 0 => Stored(r) = Absent
         /\ r.st # 0 => Stored(r) = ValueAt(r, r.st)
  BY DEF Record, Stored, ValueAt

LEMMA StoredIsContents ==
  ASSUME NEW r \in Record
  PROVE  /\ Stored(r) \in Contents \cup {Absent}
         /\ Stored(r) = Absent <=> r.st = 0
  <1>1. Absent \notin Contents
    BY ValuesAssumption DEF Contents
  <1> QED BY <1>1 DEF Record, Stored

LEMMA WithStateFacts ==
  ASSUME NEW r \in Record, NEW s \in 0..2
  PROVE  /\ WithState(r, s) \in Record
         /\ WithState(r, s).st = s
         /\ s # 0 => Stored(WithState(r, s)) = ValueAt(r, s)
         /\ s = 0 => Stored(WithState(r, s)) = Absent
  <1>1. /\ r = [st |-> r.st, v1 |-> r.v1, v2 |-> r.v2]
        /\ r.v1 \in Contents /\ r.v2 \in Contents
    BY DEF Record
  <1>2. WithState(r, s) = [st |-> s, v1 |-> r.v1, v2 |-> r.v2]
    BY <1>1 DEF WithState
  <1> QED BY <1>1, <1>2 DEF Record, Stored, ValueAt

LEMMA WithValueFacts ==
  ASSUME NEW r \in Record, NEW s \in 0..2, NEW v \in Contents
  PROVE  /\ WithValue(r, s, v) \in Record
         /\ WithValue(r, s, v).st = r.st
         /\ ValueAt(WithValue(r, s, v), s) = v
         /\ s # 0 /\ r.st # s => Stored(WithValue(r, s, v)) = Stored(r)
  <1>1. /\ r = [st |-> r.st, v1 |-> r.v1, v2 |-> r.v2]
        /\ r.st \in 0..2 /\ r.v1 \in Contents /\ r.v2 \in Contents
    BY DEF Record
  <1>2. WithValue(r, s, v) = IF s = 1 THEN [st |-> r.st, v1 |-> v, v2 |-> r.v2]
                                      ELSE [st |-> r.st, v1 |-> r.v1, v2 |-> v]
    BY <1>1 DEF WithValue
  <1>3. WithValue(r, s, v) \in Record /\ WithValue(r, s, v).st = r.st
    BY <1>1, <1>2 DEF Record
  <1>4. ValueAt(WithValue(r, s, v), s) = v
    BY <1>2 DEF ValueAt
  <1>5. s # 0 /\ r.st # s => Stored(WithValue(r, s, v)) = Stored(r)
    BY <1>1, <1>2 DEF Stored
  <1> QED BY <1>3, <1>4, <1>5

(* The state byte a request writes is a state, and another one than that   *)
(* of the buffer.                                                          *)
LEMMA TargetFacts ==
  ASSUME IType, req # NoRequest
  PROVE  /\ TargetState(req) \in 0..2
         /\ req \in Requests /\ req.key \in Keys /\ req.val \in Contents
         /\ req.kind # "erase" => TargetState(req) \in {1, 2}
         /\ req.kind = "erase" => TargetState(req) = 0
         /\ ((req.kind = "insert") <=> (mem[req.key].st = 0))
              => TargetState(req) # mem[req.key].st
  <1>1. req \in Requests /\ req.key \in Keys /\ req.val \in Values
        /\ req.kind \in {"insert", "update", "erase"}
    BY DEF IType, Requests
  <1>2. mem[req.key].st \in 0..2
    BY <1>1 DEF IType, Record
  <1> QED BY <1>1, <1>2 DEF TargetState, Contents

-----------------------------------------------------------------------------
LEMMA IInvInit == Init => IInv
  <1> SUFFICES ASSUME Init PROVE IInv
    OBVIOUS
  <1>1. Free \in Record
    BY DEF Free, Record, Contents
  <1> QED BY <1>1 DEF Init, IInv, IType, Buffers, Progress, PcValues

LEMMA IInvStep == IInv /\ [Next]_vars => IInv'
  <1> SUFFICES ASSUME IInv, [Next]_vars PROVE IInv'
    OBVIOUS
  <1> USE DEF IInv
  <1>1. ASSUME NEW kind \in {"insert", "update", "erase"}, NEW k \in Keys, NEW v \in Values,
               Request(kind, k, v)
        PROVE  IInv'
    <2>1. req' \in Requests /\ req' # NoRequest
      BY <1>1, NoRequestAssumption DEF Request, Requests, Keys
    <2> QED BY <1>1, <2>1 DEF Request, files_vars, IType, Buffers, Progress, PcValues
  <1>2. CASE FindRecord
    BY <1>2 DEF FindRecord, files_vars, IType, Buffers, Progress, PcValues, Requests
  <1>3. CASE FindNothing
    BY <1>3 DEF FindNothing, Finish, files_vars, IType, Buffers, Progress, PcValues
  <1>4. CASE CreateIndexFile
    <2>1. disk' = disk
      BY <1>4 DEF CreateIndexFile, IType, Buffers
    <2> QED BY <1>4, <2>1, TargetFacts DEF CreateIndexFile, IType, Buffers, Progress, PcValues
  <1>5. CASE CreateIndexFileFails
    BY <1>5 DEF CreateIndexFileFails, Finish, files_vars, IType, Buffers, Progress, PcValues
  <1>6. CASE RegisterFile
    <2>1. req # NoRequest /\ req.key \in Keys /\ Free.st = 0
      BY <1>6, TargetFacts DEF RegisterFile, IType, Free
    <2>2. /\ \A k \in Keys : mem'[k] = disk[k] \/ mem'[k] = mem[k]
          /\ mem'[req.key] = Free
          /\ mem' \in [Keys -> Record]
      BY <1>6, <2>1 DEF RegisterFile, IType, Progress
    <2>3. IType'
      BY <1>6, <2>1, <2>2 DEF RegisterFile, IType, PcValues, Progress
    <2>5. Progress'
      <3>1. /\ req' = req /\ pc' = "value" /\ FileOf(req.key) \in files'
            /\ req.kind = "insert" /\ mem'[req.key].st = 0
        BY <1>6, <2>1, <2>2 DEF RegisterFile, Progress
      <3> QED BY <3>1 DEF Progress
    <2>4. Buffers'
      BY <1>6, <2>1, <2>2 DEF RegisterFile, IType, Buffers, Progress
    <2> QED BY <2>3, <2>4, <2>5
  <1>7. CASE RegisterFileFails
    BY <1>7 DEF RegisterFileFails, Finish, files_vars, IType, Buffers, Progress, PcValues
  <1>8. CASE WriteValue
    <2> DEFINE k0 == req.key
               s == TargetState(req)
    <2>1. /\ req # NoRequest /\ k0 \in Keys /\ s \in 0..2 /\ req.val \in Contents
          /\ s # mem[k0].st /\ FileOf(k0) \in files /\ FileOf(k0) \in onDisk
          /\ mem[k0] \in Record /\ disk[k0] \in Record /\ s # 0
      BY <1>8, TargetFacts DEF WriteValue, IType, Progress
    <2> HIDE DEF s
    <2>2. /\ mem'[k0] = WithValue(mem[k0], s, req.val)
          /\ disk'[k0] = WithValue(disk[k0], s, req.val)
          /\ \A k \in Keys \ {k0} : mem'[k] = mem[k] /\ disk'[k] = disk[k]
      BY <1>8, <2>1 DEF WriteValue, IType, s
    <2>3. /\ mem'[k0] \in Record /\ disk'[k0] \in Record
          /\ mem'[k0].st = mem[k0].st /\ disk'[k0].st = disk[k0].st
          /\ ValueAt(mem'[k0], s) = req.val /\ ValueAt(disk'[k0], s) = req.val
          /\ disk[k0].st # s => Stored(disk'[k0]) = Stored(disk[k0])
          /\ Stored(mem'[k0]) = Stored(mem[k0])
      <3>1. /\ WithValue(mem[k0], s, req.val) \in Record
            /\ WithValue(mem[k0], s, req.val).st = mem[k0].st
            /\ ValueAt(WithValue(mem[k0], s, req.val), s) = req.val
            /\ Stored(WithValue(mem[k0], s, req.val)) = Stored(mem[k0])
        BY <2>1, WithValueFacts
      <3>2. /\ WithValue(disk[k0], s, req.val) \in Record
            /\ WithValue(disk[k0], s, req.val).st = disk[k0].st
            /\ ValueAt(WithValue(disk[k0], s, req.val), s) = req.val
            /\ disk[k0].st # s =>
                 Stored(WithValue(disk[k0], s, req.val)) = Stored(disk[k0])
        BY <2>1, WithValueFacts
      <3> QED BY <2>2, <3>1, <3>2
    <2>4. req' = req /\ TargetState(req)' = s
      BY <1>8, <2>3 DEF WriteValue, TargetState, s
    <2>5. IType'
      BY <1>8, <2>1, <2>2, <2>3 DEF WriteValue, IType, PcValues
    <2>6. Buffers'
      BY <1>8, <2>1, <2>2, <2>3 DEF WriteValue, Buffers
    <2>7. Progress'
      BY <1>8, <2>1, <2>3, <2>4 DEF WriteValue, Progress
    <2> QED BY <2>5, <2>6, <2>7
  <1>9. CASE WriteValueFails
    <2> DEFINE k0 == req.key
               s == TargetState(req)
    <2>1. /\ req # NoRequest /\ k0 \in Keys /\ s \in 0..2 /\ req.val \in Contents
          /\ s # mem[k0].st /\ FileOf(k0) \in files /\ FileOf(k0) \in onDisk
          /\ mem[k0] \in Record /\ disk[k0] \in Record /\ s # 0
      BY <1>9, TargetFacts DEF WriteValueFails, IType, Progress
    <2> HIDE DEF s
    <2>2. PICK v \in Contents :
             disk'[k0] = WithValue(disk[k0], s, v) \/ disk'[k0] = disk[k0]
      BY <1>9, <2>1 DEF WriteValueFails, IType, s, Contents
    <2>3. /\ mem'[k0] = WithValue(mem[k0], s, req.val)
          /\ \A k \in Keys \ {k0} : mem'[k] = mem[k] /\ disk'[k] = disk[k]
      BY <1>9, <2>1 DEF WriteValueFails, IType, s
    <2>4. /\ mem'[k0] \in Record /\ disk'[k0] \in Record
          /\ mem'[k0].st = mem[k0].st /\ disk'[k0].st = disk[k0].st
          /\ disk[k0].st # s => Stored(disk'[k0]) = Stored(disk[k0])
          /\ Stored(mem'[k0]) = Stored(mem[k0])
      <3>1. /\ WithValue(mem[k0], s, req.val) \in Record
            /\ WithValue(mem[k0], s, req.val).st = mem[k0].st
            /\ Stored(WithValue(mem[k0], s, req.val)) = Stored(mem[k0])
        BY <2>1, WithValueFacts
      <3>2. /\ WithValue(disk[k0], s, v) \in Record
            /\ WithValue(disk[k0], s, v).st = disk[k0].st
            /\ disk[k0].st # s => Stored(WithValue(disk[k0], s, v)) = Stored(disk[k0])
        BY <2>1, WithValueFacts
      <3> QED BY <2>1, <2>2, <2>3, <3>1, <3>2
    <2>5. IType'
      BY <1>9, <2>1, <2>3, <2>4 DEF WriteValueFails, Finish, IType, PcValues
    <2>6. Buffers'
      BY <1>9, <2>1, <2>3, <2>4 DEF WriteValueFails, Buffers
    <2>7. Progress'
      BY <1>9 DEF WriteValueFails, Finish, Progress
    <2> QED BY <2>5, <2>6, <2>7
  <1>10. CASE WriteState
    <2> DEFINE k0 == req.key
               s == TargetState(req)
    <2>1. /\ req # NoRequest /\ k0 \in Keys /\ s \in 0..2 /\ req.val \in Contents
          /\ s # mem[k0].st /\ FileOf(k0) \in files /\ FileOf(k0) \in onDisk
          /\ mem[k0] \in Record /\ disk[k0] \in Record
      BY <1>10, TargetFacts DEF WriteState, IType, Progress
    <2> HIDE DEF s
    <2>2. /\ mem'[k0] = WithState(mem[k0], s)
          /\ disk'[k0] = WithState(disk[k0], s)
          /\ \A k \in Keys \ {k0} : mem'[k] = mem[k] /\ disk'[k] = disk[k]
      BY <1>10, <2>1 DEF WriteState, IType, s
    <2>3. s # 0 => ValueAt(mem[k0], s) = ValueAt(disk[k0], s)
      BY <1>10, <2>1, TargetFacts DEF WriteState, Progress, s
    <2>4. /\ mem'[k0] \in Record /\ disk'[k0] \in Record
          /\ Stored(mem'[k0]) = Stored(disk'[k0])
      BY <2>1, <2>2, <2>3, WithStateFacts
    <2>5. IType'
      BY <1>10, <2>1, <2>2, <2>4 DEF WriteState, Finish, IType, PcValues
    <2>6. Buffers'
      BY <1>10, <2>1, <2>2, <2>4 DEF WriteState, Buffers
    <2>7. Progress'
      BY <1>10 DEF WriteState, Finish, Progress
    <2> QED BY <2>5, <2>6, <2>7
  <1>11. CASE WriteStateFails
    <2> DEFINE k0 == req.key
               s == TargetState(req)
    <2>1. /\ req # NoRequest /\ k0 \in Keys /\ s \in 0..2 /\ req.val \in Contents
          /\ s # mem[k0].st /\ FileOf(k0) \in files /\ FileOf(k0) \in onDisk
          /\ mem[k0] \in Record /\ disk[k0] \in Record
      BY <1>11, TargetFacts DEF WriteStateFails, IType, Progress
    <2> HIDE DEF s
    <2>2. /\ mem'[k0] = WithState(mem[k0], s)
          /\ \A k \in Keys \ {k0} : mem'[k] = mem[k]
          /\ disk' = disk
      BY <1>11, <2>1 DEF WriteStateFails, IType, s
    <2>3. s # 0 => ValueAt(mem[k0], s) = ValueAt(disk[k0], s)
      BY <1>11, <2>1, TargetFacts DEF WriteStateFails, Progress, s
    <2>4. /\ mem'[k0] \in Record /\ mem'[k0].st = s
          /\ disk[k0].st = s => Stored(mem'[k0]) = Stored(disk[k0])
      <3>1. /\ mem'[k0] \in Record /\ mem'[k0].st = s
            /\ s # 0 => Stored(mem'[k0]) = ValueAt(mem[k0], s)
            /\ s = 0 => Stored(mem'[k0]) = Absent
        BY <2>1, <2>2, WithStateFacts
      <3>2. /\ disk[k0].st = 0 => Stored(disk[k0]) = Absent
            /\ disk[k0].st # 0 => Stored(disk[k0]) = ValueAt(disk[k0], disk[k0].st)
        BY <2>1, StoredFacts
      <3> QED BY <2>3, <3>1, <3>2
    <2>5. IType'
      BY <1>11, <2>1, <2>2, <2>4 DEF WriteStateFails, Finish, IType, PcValues
    <2>6. Buffers'
      BY <1>11, <2>1, <2>2, <2>4 DEF WriteStateFails, Buffers
    <2>7. Progress'
      BY <1>11 DEF WriteStateFails, Finish, Progress
    <2> QED BY <2>5, <2>6, <2>7
  <1>12. ASSUME NEW f \in FileIds, Evict(f) PROVE IInv'
    <2>1. /\ \A k \in Keys : mem'[k] = IF FileOf(k) = f THEN disk[k] ELSE mem[k]
          /\ mem' \in [Keys -> Record]
      BY <1>12 DEF Evict, IType
    <2>2. req # NoRequest => req.key \in Keys /\ mem'[req.key] = mem[req.key]
      BY <1>12, <2>1, TargetFacts DEF Evict
    <2>3. req # NoRequest => TargetState(req)' = TargetState(req)
      BY <1>12, <2>2 DEF Evict, TargetState
    <2>4. IType'
      BY <1>12, <2>1 DEF Evict, IType
    <2>5. Buffers'
      BY <1>12, <2>1 DEF Evict, Buffers
    <2>6. Progress'
      BY <1>12, <2>2, <2>3 DEF Evict, Progress, IType
    <2> QED BY <2>4, <2>5, <2>6
  <1>13. CASE Crash
    <2>1. \/ disk' = disk
          \/ /\ pc = "value"
             /\ disk' = [disk EXCEPT ![req.key] = WithValue(disk[req.key], TargetState(req), Torn)]
      BY <1>13 DEF Crash
    <2>2. /\ disk' \in [Keys -> Record]
          /\ \A k \in Keys : FileOf(k) \notin onDisk => disk'[k] = disk[k]
      <3>1. CASE disk' = disk
        BY <3>1 DEF IType
      <3>2. CASE pc = "value" /\ disk' # disk
        <4>1. /\ req # NoRequest /\ req.key \in Keys /\ TargetState(req) \in 0..2
              /\ FileOf(req.key) \in onDisk /\ disk[req.key] \in Record
          BY <3>2, TargetFacts DEF IType, Progress
        <4>2. WithValue(disk[req.key], TargetState(req), Torn) \in Record
          BY <4>1, WithValueFacts DEF Contents
        <4> QED BY <2>1, <3>2, <4>1, <4>2 DEF IType
      <3> QED BY <2>1, <3>1, <3>2
    <2> QED BY <1>13, <2>2 DEF Crash, Finish, IType, Buffers, Progress, PcValues
  <1>14. CASE Restart
    BY <1>14 DEF Restart, IType, Buffers, Progress, PcValues
  <1>15. CASE UNCHANGED vars
    BY <1>15 DEF vars, IType, Buffers, Progress, PcValues, TargetState
  <1> QED
    BY <1>1, <1>2, <1>3, <1>4, <1>5, <1>6, <1>7, <1>8, <1>9, <1>10, <1>11, <1>12,
       <1>13, <1>14, <1>15, ValuesAssumption DEF Next, SomeValue

-----------------------------------------------------------------------------
(* Every step of the index is a step of the atomic index, or none of its   *)
(* contents and requests changes.                                          *)
LEMMA InitRefines == Init => Atomic!Init
  <1> SUFFICES ASSUME Init PROVE Atomic!Init
    OBVIOUS
  <1>1. ASSUME NEW k \in Keys PROVE DurableMap[k] = Absent
    BY <1>1 DEF Init, DurableMap, Spoiled, Stored, Free
  <1>2. DurableMap = [k \in Keys |-> Absent]
    BY <1>1 DEF DurableMap
  <1> QED BY <1>2 DEF Init, Atomic!Init

LEMMA StepRefines == IInv /\ IInv' /\ [Next]_vars => [Atomic!Next]_(Atomic!vars)
  <1> SUFFICES ASSUME IInv, IInv', [Next]_vars
               PROVE  Atomic!Next \/ UNCHANGED <<DurableMap, req>>
    BY DEF Atomic!vars
  <1> USE DEF IInv
  <1>1. ASSUME NEW kind \in {"insert", "update", "erase"}, NEW k \in Keys, NEW v \in Values,
               Request(kind, k, v)
        PROVE  Atomic!Begin
    <2>1. DurableMap' = DurableMap
      BY <1>1 DEF Request, files_vars, DurableMap, Spoiled
    <2> QED BY <1>1, <2>1 DEF Request, Atomic!Begin, Atomic!Request, Atomic!Kinds, IType
  <1>2. CASE FindRecord
    BY <1>2 DEF FindRecord, files_vars, DurableMap, Spoiled
  <1>3. CASE FindNothing \/ CreateIndexFileFails \/ RegisterFileFails
    <2>1. DurableMap' = DurableMap /\ req # NoRequest /\ req' = NoRequest
      BY <1>3 DEF FindNothing, CreateIndexFileFails, RegisterFileFails, Finish, files_vars,
                  DurableMap, Spoiled, IType
    <2> QED BY <2>1 DEF Atomic!Next, Atomic!Abandon
  <1>4. CASE CreateIndexFile
    <2>1. disk' = disk
      BY <1>4 DEF CreateIndexFile, IType, Buffers
    <2> QED BY <1>4, <2>1 DEF CreateIndexFile, DurableMap, Spoiled
  <1>5. CASE RegisterFile
    <2>1. \A k \in Keys : mem'[k] = mem[k]
      BY <1>5 DEF RegisterFile, Buffers, Progress
    <2> QED BY <1>5, <2>1 DEF RegisterFile, DurableMap, Spoiled
  <1>6. CASE WriteValue
    <2> DEFINE k0 == req.key
               s == TargetState(req)
    <2>1. /\ req # NoRequest /\ k0 \in Keys /\ s \in 0..2 /\ req.val \in Contents
          /\ s # mem[k0].st /\ s # 0
          /\ mem[k0] \in Record /\ disk[k0] \in Record
      BY <1>6, TargetFacts DEF WriteValue, IType, Progress
    <2> HIDE DEF s
    <2>2. /\ mem'[k0] = WithValue(mem[k0], s, req.val)
          /\ disk'[k0] = WithValue(disk[k0], s, req.val)
          /\ \A k \in Keys \ {k0} : mem'[k] = mem[k] /\ disk'[k] = disk[k]
      BY <1>6, <2>1 DEF WriteValue, IType, s
    <2>3. /\ WithValue(mem[k0], s, req.val).st = mem[k0].st
          /\ Stored(WithValue(mem[k0], s, req.val)) = Stored(mem[k0])
      BY <2>1, WithValueFacts
    <2>4. /\ WithValue(disk[k0], s, req.val).st = disk[k0].st
          /\ disk[k0].st # s =>
               Stored(WithValue(disk[k0], s, req.val)) = Stored(disk[k0])
      BY <2>1, WithValueFacts
    <2>5. ASSUME NEW k \in Keys PROVE DurableMap'[k] = DurableMap[k]
      <3>1. CASE k = k0
        BY <2>1, <2>2, <2>3, <2>4, <3>1 DEF DurableMap, Spoiled
      <3>2. CASE k # k0
        BY <2>2, <3>2 DEF DurableMap, Spoiled
      <3> QED BY <3>1, <3>2
    <2>6. DurableMap' = DurableMap
      BY <2>5 DEF DurableMap
    <2> QED BY <1>6, <2>6 DEF WriteValue
  <1>7. CASE WriteValueFails
    <2> DEFINE k0 == req.key
               s == TargetState(req)
    <2>1. /\ req # NoRequest /\ k0 \in Keys /\ s \in 0..2 /\ req.val \in Contents
          /\ s # mem[k0].st /\ s # 0
          /\ mem[k0] \in Record /\ disk[k0] \in Record
      BY <1>7, TargetFacts DEF WriteValueFails, IType, Progress
    <2> HIDE DEF s
    <2>2. /\ mem'[k0] = WithValue(mem[k0], s, req.val)
          /\ disk'[k0] = WithValue(disk[k0], s, Torn) \/ disk'[k0] = disk[k0]
          /\ \A k \in Keys \ {k0} : mem'[k] = mem[k] /\ disk'[k] = disk[k]
      BY <1>7, <2>1 DEF WriteValueFails, IType, s
    <2>3. /\ WithValue(mem[k0], s, req.val).st = mem[k0].st
          /\ Stored(WithValue(mem[k0], s, req.val)) = Stored(mem[k0])
      BY <2>1, WithValueFacts
    <2>4. /\ WithValue(disk[k0], s, Torn).st = disk[k0].st
          /\ disk[k0].st # s => Stored(WithValue(disk[k0], s, Torn)) = Stored(disk[k0])
      <3>1. Torn \in Contents
        BY DEF Contents
      <3> QED
        BY <2>1, <3>1, WithValueFacts
    <2>5. ASSUME NEW k \in Keys PROVE DurableMap'[k] = DurableMap[k]
      <3>1. CASE k = k0
        BY <2>1, <2>2, <2>3, <2>4, <3>1 DEF DurableMap, Spoiled
      <3>2. CASE k # k0
        BY <2>2, <3>2 DEF DurableMap, Spoiled
      <3> QED BY <3>1, <3>2
    <2>6. DurableMap' = DurableMap
      BY <2>5 DEF DurableMap
    <2> QED BY <1>7, <2>1, <2>6 DEF WriteValueFails, Finish, Atomic!Next, Atomic!Abandon
  <1>8. CASE WriteState
    <2> DEFINE k0 == req.key
               s == TargetState(req)
    <2>1. /\ req # NoRequest /\ k0 \in Keys /\ s \in 0..2
          /\ mem[k0] \in Record /\ disk[k0] \in Record
          /\ req.kind = "erase" <=> s = 0
          /\ (req.kind = "insert") <=> (mem[k0].st = 0)
          /\ s # 0 => ValueAt(disk[k0], s) = req.val /\ ValueAt(mem[k0], s) = req.val
      BY <1>8, TargetFacts DEF WriteState, IType, Progress
    <2> HIDE DEF s
    <2>2. /\ mem'[k0] = WithState(mem[k0], s)
          /\ disk'[k0] = WithState(disk[k0], s)
          /\ \A k \in Keys \ {k0} : mem'[k] = mem[k] /\ disk'[k] = disk[k]
      BY <1>8, <2>1 DEF WriteState, IType, s
    <2>3. /\ mem'[k0].st = s /\ disk'[k0].st = s
          /\ Stored(mem'[k0]) = Atomic!Result(req)
          /\ Stored(disk'[k0]) = Atomic!Result(req)
      BY <2>1, <2>2, WithStateFacts DEF Atomic!Result
    <2>4. ASSUME NEW k \in Keys
          PROVE  DurableMap'[k] = [DurableMap EXCEPT ![k0] = Atomic!Result(req)][k]
      <3>1. CASE k = k0
        BY <2>1, <2>3, <3>1 DEF DurableMap, Spoiled
      <3>2. CASE k # k0
        BY <2>2, <3>2 DEF DurableMap, Spoiled
      <3> QED BY <3>1, <3>2
    <2>5. DurableMap' = [DurableMap EXCEPT ![k0] = Atomic!Result(req)]
      BY <2>4 DEF DurableMap
    <2>6. Atomic!Applies(req)
      <3>1. DurableMap[k0] = IF Spoiled(k0) THEN Unknown ELSE Stored(disk[k0])
        BY <2>1 DEF DurableMap
      <3>2. ~Spoiled(k0) => ((mem[k0].st = 0) <=> (Stored(disk[k0]) = Absent))
        BY <2>1, StoredFacts, StoredIsContents DEF Spoiled
      <3> QED BY <2>1, <3>1, <3>2 DEF Atomic!Applies
    <2> QED BY <1>8, <2>1, <2>5, <2>6 DEF WriteState, Finish, Atomic!Next, Atomic!Apply
  <1>9. CASE WriteStateFails
    <2> DEFINE k0 == req.key
               s == TargetState(req)
    <2>1. /\ req # NoRequest /\ k0 \in Keys /\ s \in 0..2
          /\ mem[k0] \in Record /\ disk[k0] \in Record
          /\ req.kind = "erase" <=> s = 0
          /\ s # mem[k0].st
          /\ s # 0 => ValueAt(disk[k0], s) = req.val /\ ValueAt(mem[k0], s) = req.val
      BY <1>9, TargetFacts DEF WriteStateFails, IType, Progress
    <2> HIDE DEF s
    <2>2. /\ mem'[k0] = WithState(mem[k0], s)
          /\ \A k \in Keys \ {k0} : mem'[k] = mem[k]
          /\ disk' = disk /\ req' = NoRequest
      BY <1>9, <2>1 DEF WriteStateFails, Finish, IType, s
    <2>3. ASSUME NEW k \in Keys, k # k0 PROVE DurableMap'[k] = DurableMap[k]
      BY <2>2, <2>3 DEF DurableMap, Spoiled
    <2>4. CASE disk[k0].st # s
      <3>1. mem'[k0].st = s
        BY <2>1, <2>2, WithStateFacts
      <3>2. DurableMap'[k0] = Unknown
        BY <2>1, <2>2, <2>4, <3>1 DEF DurableMap, Spoiled
      <3>3. DurableMap' = [DurableMap EXCEPT ![k0] = Unknown]
        BY <2>1, <2>3, <3>2 DEF DurableMap
      <3> QED BY <2>1, <2>2, <3>3 DEF Atomic!Next, Atomic!Spoil
    <2>5. CASE disk[k0].st = s
      <3>1. /\ mem'[k0].st = s
            /\ Stored(mem'[k0]) = Atomic!Result(req)
        BY <2>1, <2>2, WithStateFacts DEF Atomic!Result
      <3>2. Stored(disk[k0]) = Atomic!Result(req)
        BY <2>1, <2>5, StoredFacts DEF Atomic!Result
      <3>3. DurableMap'[k0] = Atomic!Result(req) /\ DurableMap[k0] = Unknown
        BY <2>1, <2>2, <2>5, <3>1, <3>2 DEF DurableMap, Spoiled
      <3>4. DurableMap' = [DurableMap EXCEPT ![k0] = Atomic!Result(req)]
        BY <2>1, <2>3, <3>3 DEF DurableMap
      <3> QED BY <2>1, <2>2, <3>3, <3>4 DEF Atomic!Next, Atomic!Apply, Atomic!Applies
    <2> QED BY <2>4, <2>5
  <1>10. ASSUME NEW f \in FileIds, Evict(f) PROVE Atomic!Settle
    <2>1. /\ \A k \in Keys : mem'[k] = IF FileOf(k) = f THEN disk[k] ELSE mem[k]
          /\ disk' = disk /\ req' = req
      BY <1>10 DEF Evict
    <2>2. ASSUME NEW k \in Keys
          PROVE  /\ DurableMap'[k] \in Contents \cup {Absent, Unknown}
                 /\ DurableMap[k] # Unknown => DurableMap'[k] = DurableMap[k]
      <3>1. Stored(disk[k]) \in Contents \cup {Absent}
        BY StoredIsContents DEF IType
      <3> QED BY <2>1, <3>1 DEF DurableMap, Spoiled
    <2>3. DurableMap' \in [Keys -> Contents \cup {Absent, Unknown}]
      BY <2>2 DEF DurableMap
    <2> QED BY <2>1, <2>2, <2>3 DEF Atomic!Settle
  <1>11. CASE Crash
    <2>1. ASSUME NEW k \in Keys
          PROVE  /\ DurableMap'[k] = Stored(disk'[k])
                 /\ DurableMap[k] # Unknown => Stored(disk'[k]) = DurableMap[k]
      <3>1. mem' = disk' /\ disk' \in [Keys -> Record]
        BY <1>11 DEF Crash, IType
      <3>2. DurableMap'[k] = Stored(disk'[k])
        BY <3>1 DEF DurableMap, Spoiled
      <3>3. ASSUME DurableMap[k] # Unknown PROVE Stored(disk'[k]) = Stored(disk[k])
        <4>1. CASE disk' = disk
          BY <4>1
        <4>2. CASE pc = "value" /\
                   disk' = [disk EXCEPT ![req.key] = WithValue(disk[req.key], TargetState(req), Torn)]
          <5>1. /\ req # NoRequest /\ req.key \in Keys /\ TargetState(req) \in {1, 2}
                /\ disk[req.key] \in Record /\ TargetState(req) # mem[req.key].st
            BY <4>2, TargetFacts DEF IType, Progress
          <5>2. k = req.key => mem[k].st = disk[k].st
            BY <3>3 DEF DurableMap, Spoiled
          <5>3. disk[req.key].st # TargetState(req) =>
                  Stored(WithValue(disk[req.key], TargetState(req), Torn)) = Stored(disk[req.key])
            BY <5>1, WithValueFacts DEF Contents
          <5> QED BY <4>2, <5>1, <5>2, <5>3 DEF IType
        <4> QED BY <1>11, <4>1, <4>2 DEF Crash
      <3>4. DurableMap[k] # Unknown => DurableMap[k] = Stored(disk[k])
        BY DEF DurableMap
      <3> QED BY <3>2, <3>3, <3>4
    <2>2. \A k \in Keys : Stored(disk'[k]) \in Contents \cup {Absent}
      BY StoredIsContents DEF IType
    <2>3. DurableMap' \in [Keys -> Contents \cup {Absent, Unknown}]
      BY <2>1, <2>2 DEF DurableMap
    <2> QED BY <1>11, <2>1, <2>3 DEF Crash, Finish, Atomic!Next, Atomic!Settle
  <1>12. CASE Restart
    BY <1>12 DEF Restart, DurableMap, Spoiled
  <1>13. CASE UNCHANGED vars
    BY <1>13 DEF vars, DurableMap, Spoiled
  <1> QED
    BY <1>1, <1>2, <1>3, <1>4, <1>5, <1>6, <1>7, <1>8, <1>9, <1>10, <1>11, <1>12, <1>13,
       ValuesAssumption DEF Next, SomeValue, Atomic!Next

-----------------------------------------------------------------------------
(* The files of a UniqueLinearIndex change by whole requests, whatever     *)
(* write the process dies at, for all sizes of files and sets of keys.     *)
THEOREM IndexIsAtomic == Spec => ImplementsAtomicIndex
  <1>1. Spec => []IInv
    BY IInvInit, IInvStep, PTL DEF Spec
  <1>2. Spec => Atomic!Init /\ [][Atomic!Next]_(Atomic!vars)
    BY <1>1, InitRefines, StepRefines, PTL DEF Spec
  <1> QED BY <1>2 DEF ImplementsAtomicIndex, Atomic!Spec
-----------------------------------------------------------------------------
(* The keys at the ends                                                    *)

(* While no write has been refused the state bytes of buffers and files    *)
(* agree, so that reading a file again shows the same live keys.           *)
StatesAgree == ~failed => \A k \in Keys : mem[k].st = disk[k].st

(* A file that was just made is free everywhere, not only at the key it    *)
(* was made for: opening it makes no key live.                             *)
NewFileIsFree ==
  pc = "register" =>
    \A k \in Keys : FileOf(k) = FileOf(req.key) => disk[k].st = 0

EInv == IInv /\ StatesAgree /\ NewFileIsFree /\ EndsAreExact

(* What a least and a greatest key are, without CHOOSE.                    *)
IsLeading(m, L) == (L = {} /\ m = MaxKey) \/ (m \in L /\ \A x \in L : m <= x)
IsTrailing(m, L) == (L = {} /\ m = 0) \/ (m \in L /\ \A x \in L : x <= m)

(* Every non-empty set of keys has a least one and a greatest one.         *)
LEMMA MinExists ==
  ASSUME NEW S \in SUBSET Nat, S # {}
  PROVE  /\ Min(S) \in S
         /\ \A x \in S : Min(S) <= x
  <1> DEFINE R == OpToRel(<, Nat)
  <1>1. IsWellFoundedOn(R, Nat)
    BY NatLessThanWellFounded
  <1>2. PICK m \in S : \A x \in S : ~(<<x, m>> \in R)
    BY <1>1, WFMin, Zenon
  <1>3. \A x \in S : ~(x < m)
    BY <1>2 DEF OpToRel
  <1> HIDE DEF R
  <1>4. \A x \in S : m <= x
    BY <1>3
  <1>5. \E n \in S : \A x \in S : n <= x
    BY <1>4
  <1> QED BY <1>5 DEF Min

LEMMA MaxExists ==
  ASSUME NEW b \in Nat, NEW S \in SUBSET (0..b), S # {}
  PROVE  /\ Max(S) \in S
         /\ \A x \in S : x <= Max(S)
  <1> DEFINE D == {b - x : x \in S}
             d == Min(D)
  <1>1. D \in SUBSET Nat /\ D # {}
    <2>1. \A x \in S : b - x \in Nat
      OBVIOUS
    <2>2. D # {}
      BY Zenon
    <2>3. \A y \in D : y \in Nat
      BY <2>1, Zenon
    <2> QED BY <2>2, <2>3, Zenon
  <1>2. d \in D /\ \A y \in D : d <= y
    <2> HIDE DEF D
    <2> QED BY <1>1, MinExists
  <1> HIDE DEF d
  <1>3. PICK m \in S : d = b - m
    BY <1>2
  <1>4. \A x \in S : b - x \in D
    OBVIOUS
  <1> HIDE DEF D
  <1>5. \A x \in S : x <= m
    BY <1>2, <1>3, <1>4
  <1>6. \E n \in S : \A x \in S : n >= x
    BY <1>5
  <1>7. Max(S) \in S /\ \A x \in S : Max(S) >= x
    BY <1>6 DEF Max
  <1> QED BY <1>7

(* findLeadingKey and findTrailingKey return the ends.                     *)
LEMMA LeadingKeyFacts ==
  ASSUME NEW L \in SUBSET Keys, NEW m
  PROVE  m = LeadingKey(L) <=> IsLeading(m, L)
  <1>1. L \in SUBSET Nat
    BY DEF Keys
  <1>2. CASE L = {}
    BY <1>2 DEF LeadingKey, IsLeading
  <1>3. CASE L # {}
    <2>1. Min(L) \in L /\ \A x \in L : Min(L) <= x
      BY <1>1, <1>3, MinExists
    <2>2. ASSUME m \in L, \A x \in L : m <= x PROVE m = Min(L)
      <3>1. m <= Min(L) /\ Min(L) <= m /\ m \in Nat /\ Min(L) \in Nat
        BY <1>1, <2>1, <2>2
      <3> QED BY <3>1
    <2> QED BY <1>3, <2>1, <2>2 DEF LeadingKey, IsLeading
  <1> QED BY <1>2, <1>3

LEMMA TrailingKeyFacts ==
  ASSUME NEW L \in SUBSET Keys, NEW m
  PROVE  m = TrailingKey(L) <=> IsTrailing(m, L)
  <1>1. L \in SUBSET Nat /\ L \in SUBSET (0..MaxKey) /\ MaxKey \in Nat
    BY MaxKeyAssumption DEF Keys
  <1>2. CASE L = {}
    BY <1>2 DEF TrailingKey, IsTrailing
  <1>3. CASE L # {}
    <2>1. Max(L) \in L /\ \A x \in L : x <= Max(L)
      BY <1>1, <1>3, MaxExists
    <2>2. ASSUME m \in L, \A x \in L : x <= m PROVE m = Max(L)
      <3>1. m <= Max(L) /\ Max(L) <= m /\ m \in Nat /\ Max(L) \in Nat
        BY <1>1, <2>1, <2>2
      <3> QED BY <3>1
    <2> QED BY <1>3, <2>1, <2>2 DEF TrailingKey, IsTrailing
  <1> QED BY <1>2, <1>3

(* The numbers of files and of the records in them.                        *)
LEMMA RecordNumbers ==
  ASSUME NEW k \in Nat
  PROVE  /\ k \div N \in Nat /\ k % N \in Nat /\ k % N < N
         /\ k = (FileOf(k) - 1) * N + (k % N)
         /\ FileOf(k) \in Nat \ {0}
  <1>1. /\ k \div N \in Nat /\ k % N \in Nat /\ k % N < N
        /\ k = (k \div N) * N + (k % N)
    BY NAssumption
  <1> QED BY <1>1 DEF FileOf

LEMMA RecordOfFile ==
  ASSUME NEW f \in Nat \ {0}, NEW j \in Nat, j < N
  PROVE  /\ (f - 1) * N + j \in Nat
         /\ FileOf((f - 1) * N + j) = f
         /\ ((f - 1) * N + j) % N = j
  <1>1. \A q \in Nat : /\ q * N + j \in Nat
                       /\ (q * N + j) \div N = q
                       /\ (q * N + j) % N = j
    BY NAssumption
  <1>2. f - 1 \in Nat
    OBVIOUS
  <1>3. /\ (f - 1) * N + j \in Nat
        /\ ((f - 1) * N + j) \div N = f - 1
        /\ ((f - 1) * N + j) % N = j
    BY <1>1, <1>2
  <1> QED BY <1>3 DEF FileOf

LEMMA FilesAscend ==
  ASSUME NEW a \in Nat, NEW b \in Nat, a <= b
  PROVE  FileOf(a) <= FileOf(b)
  <1>1. a \div N <= b \div N /\ a \div N \in Nat /\ b \div N \in Nat
    BY NAssumption
  <1> QED BY <1>1 DEF FileOf

(* The record after that of a key: the next one of the file, unless the    *)
(* key has the last one.                                                   *)
LEMMA NextRecord ==
  ASSUME NEW k \in Nat
  PROVE  /\ (k + 1) % N # 0 => (k + 1) % N = (k % N) + 1 /\ FileOf(k + 1) = FileOf(k)
         /\ (k + 1) % N = 0 => k % N = N - 1
  <1>1. (k + 1) % N # 0 => (k + 1) % N = (k % N) + 1 /\ FileOf(k + 1) = FileOf(k)
    BY NAssumption DEF FileOf
  <1>2. k % N # N - 1 => (k + 1) % N = (k % N) + 1
    <2>1. /\ k % N \in Nat /\ k % N < N /\ FileOf(k) \in Nat \ {0}
          /\ k = (FileOf(k) - 1) * N + (k % N)
      BY RecordNumbers
    <2> SUFFICES ASSUME k % N # N - 1 PROVE (k + 1) % N = (k % N) + 1
      OBVIOUS
    <2> DEFINE f == FileOf(k)
               j == k % N
    <2>2. j + 1 \in Nat /\ j + 1 < N
      BY <2>1, NAssumption
    <2>3. ((f - 1) * N + (j + 1)) % N = j + 1
      BY <2>1, <2>2, RecordOfFile
    <2>4. k + 1 = (f - 1) * N + (j + 1)
      <3>1. (f - 1) * N \in Nat
        BY <2>1, NAssumption
      <3> HIDE DEF f
      <3> QED BY <2>1, <3>1 DEF f
    <2> QED BY <2>3, <2>4
  <1>3. k % N \in Nat
    BY RecordNumbers
  <1> QED BY <1>1, <1>2, <1>3

(* The scan of the file of a key shows its live keys above this key, and   *)
(* where the key has the last record nothing, unless the file has others.  *)
LEMMA ScanFacts ==
  ASSUME NEW L \in SUBSET Keys, NEW k \in Keys,
         \/ (k + 1) % N # 0
         \/ \A x \in L : FileOf(x) # FileOf(k)
  PROVE  ScanFile(L, FileOf(k), (k + 1) % N, k + 1)
           = {x \in L : FileOf(x) = FileOf(k) /\ x > k}
  <1> DEFINE f == FileOf(k)
             r == (k + 1) % N
             S == ScanFile(L, f, r, k + 1)
             T == {x \in L : FileOf(x) = f /\ x > k}
  <1>1. /\ k \in Nat /\ k + 1 \in Nat /\ L \subseteq Nat
        /\ f \in Nat \ {0} /\ N \in Nat \ {0}
        /\ k % N \in Nat /\ k % N < N
        /\ k = (f - 1) * N + (k % N)
    BY RecordNumbers, NAssumption DEF Keys
  <1>2. r \in Nat /\ r < N
    BY <1>1, RecordNumbers
  <1>3. r # 0 => r = (k % N) + 1
    BY <1>1, NextRecord
  <1>4. (f - 1) * N \in Nat
    BY <1>1
  <1>5. S = {(k + 1) + (i - r) : i \in {j \in r..(N - 1) : (f - 1) * N + j \in L}}
    BY DEF ScanFile
  <1> HIDE DEF f, r, S
  <1>6. ASSUME NEW y \in S PROVE y \in T
    <2>1. PICK i \in r..(N - 1) : (f - 1) * N + i \in L /\ y = (k + 1) + (i - r)
      BY <1>5
    <2>2. i \in Nat /\ i < N /\ r <= i
      BY <1>1, <1>2, <2>1
    <2>3. FileOf((f - 1) * N + i) = f
      BY <1>1, <2>2, RecordOfFile
    <2>4. r # 0
      BY <2>1, <2>3 DEF f, r
    <2>5. y = (f - 1) * N + i /\ y > k
      BY <1>1, <1>2, <1>3, <1>4, <2>1, <2>2, <2>4
    <2> QED BY <2>1, <2>3, <2>5
  <1>7. ASSUME NEW x \in T PROVE x \in S
    <2>1. x \in L /\ FileOf(x) = f /\ x > k /\ x \in Nat
      BY <1>1
    <2>2. x % N \in Nat /\ x % N < N /\ x = (f - 1) * N + (x % N)
      BY <2>1, RecordNumbers
    <2>3. r # 0
      BY <2>1 DEF f, r
    <2> DEFINE i == x % N
    <2> HIDE DEF i
    <2>4. i \in Nat /\ i < N /\ x = (f - 1) * N + i
      BY <2>2 DEF i
    <2>5. i \in r..(N - 1) /\ x = (k + 1) + (i - r)
      BY <1>1, <1>2, <1>3, <1>4, <2>1, <2>3, <2>4
    <2> QED BY <1>5, <2>1, <2>4, <2>5
  <1> QED BY <1>6, <1>7 DEF S, f, r

LEMMA MinIs ==
  ASSUME NEW S \in SUBSET Nat, NEW m \in S, \A x \in S : m <= x
  PROVE  Min(S) = m
  <1>1. Min(S) \in S /\ \A x \in S : Min(S) <= x
    BY MinExists
  <1>2. Min(S) <= m /\ m <= Min(S) /\ m \in Nat /\ Min(S) \in Nat
    BY <1>1
  <1> QED BY <1>2

(* findKeyAfter() finds the next live key, if the greatest key is known    *)
(* and the scan does not wrap around onto live records.                    *)
LEMMA AfterFacts ==
  ASSUME NEW L \in SUBSET Keys, NEW k \in Keys,
         \A x \in L : FileOf(x) \in files,
         k = maxKey => \A x \in L : x <= k,
         \/ (k + 1) % N # 0
         \/ \A x \in L : FileOf(x) # FileOf(k)
  PROVE  FindKeyAfter(L, k) =
           IF {x \in L : x > k} = {} THEN NoKey ELSE Min({x \in L : x > k})
  <1> DEFINE f == FileOf(k)
             here == IF f \in files THEN ScanFile(L, f, (k + 1) % N, k + 1) ELSE {}
             later == {x \in L : FileOf(x) > f}
             after == {x \in L : x > k}
             mine == {x \in L : FileOf(x) = f /\ x > k}
  <1>1. /\ FindKeyAfter(L, k) =
             IF k = maxKey \/ k = MaxKey \/ (\A g \in files : g < f) THEN NoKey
             ELSE IF here # {} THEN Min(here)
             ELSE IF later # {} THEN Min(later) ELSE NoKey
    BY DEF FindKeyAfter
  <1>2. here = mine
    <2>1. f \in files => here = mine
      BY ScanFacts
    <2>2. f \notin files => mine = {}
      OBVIOUS
    <2> QED BY <2>1, <2>2
  <1> HIDE DEF here
  <1>3. /\ L \subseteq Nat /\ k \in Nat /\ f \in Nat
        /\ \A x \in L : x <= MaxKey /\ FileOf(x) \in Nat
    BY RecordNumbers, MaxKeyAssumption DEF Keys
  <1>4. /\ \A x \in L : x > k => FileOf(x) >= f
        /\ \A x \in L : FileOf(x) > f => x > k
        /\ \A x, y \in L : FileOf(x) < FileOf(y) => x < y
    <2>1. ASSUME NEW x \in L, x > k PROVE FileOf(x) >= f
      BY <1>3, <2>1, FilesAscend
    <2>2. ASSUME NEW x \in L, FileOf(x) > f PROVE x > k
      <3>1. x <= k => FileOf(x) <= f
        BY <1>3, FilesAscend
      <3> HIDE DEF f
      <3> QED BY <1>3, <2>2, <3>1
    <2>3. ASSUME NEW x \in L, NEW y \in L, FileOf(x) < FileOf(y) PROVE x < y
      <3>1. y <= x => FileOf(y) <= FileOf(x)
        BY <1>3, FilesAscend
      <3> QED BY <1>3, <2>3, <3>1
    <2> QED BY <2>1, <2>2, <2>3
  <1> HIDE DEF f
  <1>5. CASE after = {}
    <2>1. here = {} /\ later = {}
      BY <1>2, <1>4, <1>5
    <2> QED BY <1>1, <1>5, <2>1
  <1>6. CASE after # {}
    <2>1. PICK z \in L : z > k
      BY <1>6
    <2>2. k # maxKey /\ k # MaxKey
      BY <1>3, <2>1, MaxKeyAssumption
    <2>3. ~(\A g \in files : g < f)
      <3>1. FileOf(z) \in files /\ FileOf(z) >= f /\ FileOf(z) \in Nat
        BY <1>3, <1>4, <2>1
      <3> QED BY <1>3, <3>1
    <2>4. CASE here # {}
      <3>1. mine \in SUBSET Nat /\ mine # {}
        BY <1>2, <1>3, <2>4
      <3>2. Min(mine) \in mine /\ \A x \in mine : Min(mine) <= x
        <4> HIDE DEF mine
        <4> QED BY <3>1, MinExists
      <3> DEFINE m == Min(mine)
      <3>3. m \in L /\ FileOf(m) = f /\ m > k /\ m \in after
        BY <3>2
      <3> HIDE DEF m
      <3>4. ASSUME NEW x \in after PROVE m <= x
        <4>1. CASE FileOf(x) = f
          BY <3>2, <4>1 DEF m
        <4>2. CASE FileOf(x) # f
          BY <1>3, <1>4, <3>3, <4>2
        <4> QED BY <4>1, <4>2
      <3>5. after \in SUBSET Nat
        BY <1>3
      <3>6. Min(after) = m
        <4> HIDE DEF after
        <4> QED BY <3>3, <3>4, <3>5, MinIs
      <3> QED BY <1>1, <1>2, <1>6, <2>2, <2>3, <2>4, <3>6 DEF m
    <2>5. CASE here = {}
      <3>1. later = after
        <4>1. \A x \in L : x > k => FileOf(x) # f
          BY <1>2, <2>5
        <4>2. \A x \in L : (FileOf(x) > f) <=> (x > k)
          BY <1>3, <1>4, <4>1
        <4> QED BY <4>2
      <3> QED BY <1>1, <1>6, <2>2, <2>3, <2>5, <3>1
    <2> QED BY <2>4, <2>5
  <1> QED BY <1>5, <1>6

(* findKeyBefore() finds the previous live key, if the least is known.     *)
LEMMA BeforeFacts ==
  ASSUME NEW L \in SUBSET Keys, NEW k \in Keys,
         k = minKey => \A x \in L : k <= x
  PROVE  FindKeyBefore(L, k) =
           IF {x \in L : x < k} = {} THEN NoKey ELSE Max({x \in L : x < k})
  <1>1. L \subseteq Nat /\ k \in Nat
    BY DEF Keys
  <1>2. k = minKey \/ k = 0 => {x \in L : x < k} = {}
    <2>1. ASSUME \A x \in L : k <= x PROVE {x \in L : x < k} = {}
      <3>1. \A x \in L : ~(x < k)
        BY <1>1, <2>1
      <3> QED BY <3>1, Zenon
    <2>2. k = 0 => \A x \in L : k <= x
      BY <1>1
    <2> QED BY <2>1, <2>2, Zenon
  <1> QED BY <1>2 DEF FindKeyBefore

(* insert() keeps the ends exact.                                          *)
LEMMA InsertEnds ==
  ASSUME NEW L \in SUBSET Keys, NEW k \in Keys,
         IsLeading(minKey, L), IsTrailing(maxKey, L)
  PROVE  /\ IsLeading(MinAfterInsert(k), L \cup {k})
         /\ IsTrailing(MaxAfterInsert(k), L \cup {k})
  <1>1. L \subseteq Nat /\ k \in Nat /\ k <= MaxKey /\ MaxKey \in Nat
    BY MaxKeyAssumption DEF Keys
  <1>2. CASE L = {}
    <2>1. minKey = MaxKey /\ maxKey = 0
      BY <1>2 DEF IsLeading, IsTrailing
    <2>2. MinAfterInsert(k) = k /\ MaxAfterInsert(k) = k
      BY <1>1, <2>1 DEF MinAfterInsert, MaxAfterInsert
    <2> QED BY <1>1, <1>2, <2>2 DEF IsLeading, IsTrailing
  <1>3. CASE L # {}
    <2>1. /\ minKey \in L /\ \A x \in L : minKey <= x
          /\ maxKey \in L /\ \A x \in L : x <= maxKey
      BY <1>3 DEF IsLeading, IsTrailing
    <2>2. ~(maxKey < minKey) /\ minKey \in Nat /\ maxKey \in Nat
      BY <1>1, <2>1
    <2>3. IsLeading(MinAfterInsert(k), L \cup {k})
      <3>1. CASE k < minKey
        BY <1>1, <2>1, <2>2, <3>1 DEF MinAfterInsert, IsLeading
      <3>2. CASE ~(k < minKey)
        BY <1>1, <2>1, <2>2, <3>2 DEF MinAfterInsert, IsLeading
      <3> QED BY <3>1, <3>2
    <2>4. IsTrailing(MaxAfterInsert(k), L \cup {k})
      <3>1. CASE k > maxKey
        BY <1>1, <2>1, <2>2, <3>1 DEF MaxAfterInsert, IsTrailing
      <3>2. CASE ~(k > maxKey)
        BY <1>1, <2>1, <2>2, <3>2 DEF MaxAfterInsert, IsTrailing
      <3> QED BY <3>1, <3>2
    <2> QED BY <2>3, <2>4
  <1> QED BY <1>2, <1>3

(* updateMinAndMaxKeysAfterRemoval() keeps them exact: it always finds the *)
(* other key it looks for, even after the last record of a file, where the *)
(* scan wraps around onto records that are free below the least key.       *)
LEMMA RemovalEnds ==
  ASSUME NEW k \in Live, IsLeading(minKey, Live), IsTrailing(maxKey, Live)
  PROVE  /\ IsLeading(MinAfterRemoval(k), Live \ {k})
         /\ IsTrailing(MaxAfterRemoval(k), Live \ {k})
  <1> DEFINE L == Live \ {k}
             above == {x \in L : x > k}
             below == {x \in L : x < k}
  <1>1. /\ Live \in SUBSET Keys /\ L \in SUBSET Keys /\ Live \subseteq Nat
        /\ k \in Keys /\ k \in Nat
        /\ \A x \in L : FileOf(x) \in files
    BY DEF Live, Keys
  <1>2. /\ minKey \in Live /\ \A x \in Live : minKey <= x
        /\ maxKey \in Live /\ \A x \in Live : x <= maxKey
    BY DEF IsLeading, IsTrailing
  <1>3. /\ MinAfterRemoval(k) =
             IF k # minKey THEN minKey
             ELSE IF k = maxKey THEN MaxKey
             ELSE IF FindKeyAfter(L, k) # NoKey THEN FindKeyAfter(L, k) ELSE minKey
        /\ MaxAfterRemoval(k) =
             IF k # maxKey THEN maxKey
             ELSE IF k = minKey THEN 0
             ELSE IF FindKeyBefore(L, k) # NoKey THEN FindKeyBefore(L, k) ELSE maxKey
    BY DEF MinAfterRemoval, MaxAfterRemoval
  <1> HIDE DEF L
  <1>4. IsLeading(MinAfterRemoval(k), L)
    <2>1. CASE k # minKey
      BY <1>2, <1>3, <2>1 DEF IsLeading, L
    <2>2. CASE k = minKey /\ k = maxKey
      <3>1. ASSUME NEW x \in Live PROVE x = k
        <4>1. k <= x /\ x <= k /\ x \in Nat
          BY <1>1, <1>2, <2>2
        <4> QED BY <1>1, <4>1
      <3>2. L = {}
        BY <3>1 DEF L
      <3> QED BY <1>3, <2>2, <3>2 DEF IsLeading
    <2>3. CASE k = minKey /\ k # maxKey
      <3>1. \A x \in L : x > k
        BY <1>1, <1>2, <2>3 DEF L
      <3>2. above = L /\ L # {}
        BY <1>2, <2>3, <3>1 DEF L
      <3>3. \/ (k + 1) % N # 0
            \/ \A x \in L : FileOf(x) # FileOf(k)
        <4> SUFFICES ASSUME (k + 1) % N = 0, NEW x \in L, FileOf(x) = FileOf(k)
                     PROVE  FALSE
          OBVIOUS
        <4>1. k % N = N - 1
          BY <1>1, NextRecord
        <4>2. /\ k = (FileOf(k) - 1) * N + (k % N)
              /\ FileOf(k) \in Nat \ {0}
          BY <1>1, RecordNumbers
        <4>3. x \in Nat /\ x > k
          BY <1>1, <3>1
        <4>4. x = (FileOf(k) - 1) * N + (x % N) /\ x % N \in Nat /\ x % N < N
          BY <4>3, RecordNumbers
        <4>5. (FileOf(k) - 1) * N \in Nat
          BY <4>2, NAssumption
        <4> QED BY <1>1, <4>1, <4>2, <4>3, <4>4, <4>5, NAssumption
      <3>4. FindKeyAfter(L, k) = IF above = {} THEN NoKey ELSE Min(above)
        BY <1>1, <2>3, <3>3, AfterFacts
      <3>5. FindKeyAfter(L, k) = Min(L)
        BY <3>2, <3>4
      <3>6. Min(L) \in L /\ \A x \in L : Min(L) <= x
        BY <1>1, <3>2, MinExists DEF L
      <3>7. FindKeyAfter(L, k) # NoKey
        BY <1>1, <3>5, <3>6, NoKeyAssumption DEF Keys
      <3> QED BY <1>3, <2>3, <3>5, <3>6, <3>7 DEF IsLeading
    <2> QED BY <2>1, <2>2, <2>3
  <1>5. IsTrailing(MaxAfterRemoval(k), L)
    <2>1. CASE k # maxKey
      BY <1>2, <1>3, <2>1 DEF IsTrailing, L
    <2>2. CASE k = minKey /\ k = maxKey
      <3>1. ASSUME NEW x \in Live PROVE x = k
        <4>1. k <= x /\ x <= k /\ x \in Nat
          BY <1>1, <1>2, <2>2
        <4> QED BY <1>1, <4>1
      <3>2. L = {}
        BY <3>1 DEF L
      <3> QED BY <1>3, <2>2, <3>2 DEF IsTrailing
    <2>3. CASE k = maxKey /\ k # minKey
      <3>1. \A x \in L : x < k
        BY <1>1, <1>2, <2>3 DEF L
      <3>2. below = L /\ L # {}
        BY <1>2, <2>3, <3>1 DEF L
      <3>3. FindKeyBefore(L, k) = IF below = {} THEN NoKey ELSE Max(below)
        BY <1>1, <2>3, BeforeFacts
      <3>4. FindKeyBefore(L, k) = Max(L)
        BY <3>2, <3>3
      <3>5. Max(L) \in L /\ \A x \in L : x <= Max(L)
        <4>1. L \in SUBSET (0..MaxKey) /\ MaxKey \in Nat
          BY <1>1, MaxKeyAssumption DEF Keys
        <4> QED BY <3>2, <4>1, MaxExists
      <3>6. FindKeyBefore(L, k) # NoKey
        BY <1>1, <3>4, <3>5, NoKeyAssumption DEF Keys
      <3> QED BY <1>3, <2>3, <3>4, <3>5, <3>6 DEF IsTrailing
    <2> QED BY <2>1, <2>2, <2>3
  <1> QED BY <1>4, <1>5 DEF L

-----------------------------------------------------------------------------
LEMMA EInvInit == Init => EInv
  <1> SUFFICES ASSUME Init PROVE EInv
    OBVIOUS
  <1>1. IInv
    BY IInvInit
  <1>2. Live = {}
    BY DEF Init, Live
  <1> QED BY <1>1, <1>2 DEF Init, EInv, StatesAgree, NewFileIsFree, EndsAreExact,
                            LeadingKey, TrailingKey

(* A step that leaves the live keys and the ends as they are.              *)
LEMMA EndsUntouched ==
  ASSUME EndsAreExact, Live' = Live, minKey' = minKey, maxKey' = maxKey,
         up' /\ ~failed' => up /\ ~failed
  PROVE  EndsAreExact'
  <1>1. LeadingKey(Live)' = LeadingKey(Live) /\ TrailingKey(Live)' = TrailingKey(Live)
    BY DEF LeadingKey, TrailingKey
  <1> QED BY <1>1 DEF EndsAreExact

LEMMA EInvStep == EInv /\ [Next]_vars => EInv'
  <1> SUFFICES ASSUME EInv, [Next]_vars PROVE EInv'
    OBVIOUS
  <1>1. IInv /\ IInv' /\ StatesAgree /\ NewFileIsFree /\ EndsAreExact
    BY IInvStep DEF EInv
  <1>2. IType /\ Buffers /\ Progress /\ IType'
    BY <1>1 DEF IInv
  <1> SUFFICES StatesAgree' /\ NewFileIsFree' /\ EndsAreExact'
    BY <1>1 DEF EInv
  <1>3. ASSUME UNCHANGED <<up, files, disk, mem, minKey, maxKey, failed>>,
               pc' = "register" => pc = "register" /\ req' = req
        PROVE  StatesAgree' /\ NewFileIsFree' /\ EndsAreExact'
    <2>1. Live' = Live
      BY <1>3 DEF Live
    <2>2. EndsAreExact'
      BY <1>1, <1>3, <2>1, EndsUntouched
    <2> QED BY <1>1, <1>3, <2>2 DEF StatesAgree, NewFileIsFree
  <1>4. ASSUME NEW kind \in {"insert", "update", "erase"}, NEW k \in Keys, NEW v \in Values,
               Request(kind, k, v)
        PROVE  StatesAgree' /\ NewFileIsFree' /\ EndsAreExact'
    BY <1>3, <1>4 DEF Request, files_vars
  <1>5. CASE FindRecord
    BY <1>3, <1>5 DEF FindRecord, files_vars
  <1>6. CASE FindNothing \/ CreateIndexFileFails \/ RegisterFileFails
    BY <1>3, <1>6 DEF FindNothing, CreateIndexFileFails, RegisterFileFails, Finish, files_vars
  <1>7. CASE CreateIndexFile
    <2>1. /\ disk' = disk
          /\ \A k \in Keys : FileOf(k) = FileOf(req.key) => disk[k] = Free
      BY <1>2, <1>7 DEF CreateIndexFile, IType, Buffers
    <2>2. Live' = Live
      BY <1>7 DEF CreateIndexFile, Live
    <2>3. EndsAreExact'
      BY <1>1, <1>7, <2>2, EndsUntouched DEF CreateIndexFile
    <2>4. NewFileIsFree'
      BY <1>7, <2>1 DEF CreateIndexFile, NewFileIsFree, Free
    <2>5. StatesAgree'
      BY <1>1, <1>7, <2>1 DEF CreateIndexFile, StatesAgree
    <2> QED BY <2>3, <2>4, <2>5
  <1>8. CASE RegisterFile
    <2>1. \A k \in Keys : mem'[k] = mem[k]
      BY <1>2, <1>8 DEF RegisterFile, Buffers, Progress
    <2>2. \A k \in Keys : FileOf(k) = FileOf(req.key) => mem[k].st = 0
      BY <1>1, <1>2, <1>8 DEF RegisterFile, Buffers, Progress, NewFileIsFree
    <2>3. Live' = Live
      BY <1>8, <2>1, <2>2 DEF RegisterFile, Live
    <2>4. EndsAreExact'
      BY <1>1, <1>8, <2>3, EndsUntouched DEF RegisterFile
    <2> QED BY <1>1, <1>8, <2>1, <2>4 DEF RegisterFile, StatesAgree, NewFileIsFree
  <1>9. CASE WriteValue \/ WriteValueFails
    <2> DEFINE k0 == req.key
               s == TargetState(req)
    <2>1. /\ req # NoRequest /\ k0 \in Keys /\ s \in 0..2 /\ req.val \in Contents
          /\ mem[k0] \in Record /\ disk[k0] \in Record
      BY <1>2, <1>9, TargetFacts DEF WriteValue, WriteValueFails, IType
    <2>2. /\ WithValue(mem[k0], s, req.val).st = mem[k0].st
          /\ WithValue(disk[k0], s, req.val).st = disk[k0].st
      BY <2>1, WithValueFacts
    <2> HIDE DEF s
    <2>3. /\ mem' = [mem EXCEPT ![k0] = WithValue(mem[k0], s, req.val)]
          /\ WriteValue => disk' = [disk EXCEPT ![k0] = WithValue(disk[k0], s, req.val)]
          /\ WriteValue => failed' = failed
          /\ WriteValueFails => failed' = TRUE
          /\ pc' # "register" /\ UNCHANGED <<up, files, minKey, maxKey>>
      BY <1>9 DEF WriteValue, WriteValueFails, Finish, s
    <2>4. \A k \in Keys : mem'[k].st = mem[k].st
      BY <1>2, <2>1, <2>2, <2>3 DEF IType
    <2>5. WriteValue => \A k \in Keys : disk'[k].st = disk[k].st
      BY <1>2, <2>1, <2>2, <2>3 DEF IType
    <2>6. Live' = Live
      BY <2>3, <2>4 DEF Live
    <2>7. EndsAreExact'
      BY <1>1, <1>9, <2>3, <2>6, EndsUntouched
    <2>8. StatesAgree'
      BY <1>1, <1>9, <2>3, <2>4, <2>5 DEF StatesAgree
    <2> QED BY <2>3, <2>7, <2>8 DEF NewFileIsFree
  <1>10. CASE WriteState
    <2> DEFINE k0 == req.key
               s == TargetState(req)
    <2>1. /\ req # NoRequest /\ k0 \in Keys /\ s \in 0..2
          /\ mem[k0] \in Record /\ disk[k0] \in Record
          /\ FileOf(k0) \in files
          /\ req.kind \in {"insert", "update", "erase"}
          /\ (req.kind = "insert") <=> (mem[k0].st = 0)
          /\ (req.kind = "erase") <=> (s = 0)
      BY <1>2, <1>10, TargetFacts DEF WriteState, IType, Progress, Requests
    <2>2. /\ WithState(mem[k0], s).st = s
          /\ WithState(disk[k0], s).st = s
      BY <2>1, WithStateFacts
    <2> HIDE DEF s
    <2>3. /\ mem' = [mem EXCEPT ![k0] = WithState(mem[k0], s)]
          /\ disk' = [disk EXCEPT ![k0] = WithState(disk[k0], s)]
          /\ pc' # "register" /\ UNCHANGED <<up, files, failed>>
          /\ req.kind = "insert" => /\ minKey' = MinAfterInsert(k0)
                                    /\ maxKey' = MaxAfterInsert(k0)
          /\ req.kind = "erase" => /\ minKey' = MinAfterRemoval(k0)
                                   /\ maxKey' = MaxAfterRemoval(k0)
          /\ req.kind = "update" => minKey' = minKey /\ maxKey' = maxKey
      BY <1>10 DEF WriteState, Finish, s
    <2>4. /\ mem'[k0].st = s /\ disk'[k0].st = s
          /\ \A k \in Keys \ {k0} : mem'[k] = mem[k] /\ disk'[k] = disk[k]
      BY <1>2, <2>1, <2>2, <2>3 DEF IType
    <2>5. StatesAgree'
      BY <1>1, <2>3, <2>4 DEF StatesAgree
    <2>6. EndsAreExact'
      <3> SUFFICES ASSUME up, ~failed
                   PROVE  minKey' = LeadingKey(Live)' /\ maxKey' = TrailingKey(Live)'
        BY <2>3 DEF EndsAreExact
      <3>1. Live \in SUBSET Keys /\ Live' \in SUBSET Keys
        BY DEF Live
      <3>2. IsLeading(minKey, Live) /\ IsTrailing(maxKey, Live)
        BY <1>1, <3>1, LeadingKeyFacts, TrailingKeyFacts DEF EndsAreExact
      <3>3. IsLeading(minKey', Live') /\ IsTrailing(maxKey', Live')
        <4>1. CASE req.kind = "insert"
          <5>1. Live' = Live \cup {k0}
            BY <2>1, <2>3, <2>4, <4>1 DEF Live
          <5> QED BY <2>1, <2>3, <3>1, <3>2, <4>1, <5>1, InsertEnds
        <4>2. CASE req.kind = "erase"
          <5>1. Live' = Live \ {k0} /\ k0 \in Live
            BY <2>1, <2>3, <2>4, <4>2 DEF Live
          <5> QED BY <2>3, <3>2, <4>2, <5>1, RemovalEnds
        <4>3. CASE req.kind = "update"
          <5>1. Live' = Live
            BY <2>1, <2>3, <2>4, <4>3 DEF Live
          <5> QED BY <2>3, <3>2, <4>3, <5>1
        <4> QED BY <2>1, <4>1, <4>2, <4>3
      <3>4. minKey' = LeadingKey(Live') /\ maxKey' = TrailingKey(Live')
        BY <3>1, <3>3, LeadingKeyFacts, TrailingKeyFacts
      <3> QED BY <3>4 DEF LeadingKey, TrailingKey
    <2> QED BY <2>3, <2>5, <2>6 DEF NewFileIsFree
  <1>11. CASE WriteStateFails
    BY <1>11 DEF WriteStateFails, Finish, StatesAgree, NewFileIsFree, EndsAreExact
  <1>12. ASSUME NEW f \in FileIds, Evict(f)
         PROVE  StatesAgree' /\ NewFileIsFree' /\ EndsAreExact'
    <2>1. /\ \A k \in Keys : mem'[k] = IF FileOf(k) = f THEN disk[k] ELSE mem[k]
          /\ UNCHANGED <<up, disk, files, minKey, maxKey, req, pc, failed>>
      BY <1>12 DEF Evict
    <2>2. StatesAgree' /\ NewFileIsFree'
      BY <1>1, <2>1 DEF StatesAgree, NewFileIsFree
    <2>3. CASE failed
      BY <2>1, <2>2, <2>3 DEF EndsAreExact
    <2>4. CASE ~failed
      <3>1. \A k \in Keys : mem'[k].st = mem[k].st
        BY <1>1, <2>1, <2>4 DEF StatesAgree
      <3>2. Live' = Live
        BY <2>1, <3>1 DEF Live
      <3> QED BY <1>1, <2>1, <2>2, <3>2, EndsUntouched
    <2> QED BY <2>3, <2>4
  <1>13. CASE Crash
    BY <1>13 DEF Crash, Finish, StatesAgree, NewFileIsFree, EndsAreExact
  <1>14. CASE Restart
    <2> DEFINE live == {k \in Keys : FileOf(k) \in onDisk /\ disk[k].st # 0}
    <2>1. /\ minKey' = LeadingKey(live) /\ maxKey' = TrailingKey(live) /\ files' = onDisk
          /\ UNCHANGED <<disk, mem, req, pc, failed>> /\ ~up
      BY <1>14 DEF Restart
    <2>2. \A k \in Keys : mem[k] = disk[k]
      BY <1>2, <2>1 DEF IType, Buffers
    <2>3. Live' = live
      BY <2>1, <2>2 DEF Live
    <2> HIDE DEF live
    <2>4. minKey' = LeadingKey(Live') /\ maxKey' = TrailingKey(Live')
      BY <2>1, <2>3
    <2>5. EndsAreExact'
      BY <2>4 DEF EndsAreExact, LeadingKey, TrailingKey
    <2> QED BY <1>1, <2>1, <2>5 DEF StatesAgree, NewFileIsFree
  <1>15. CASE UNCHANGED vars
    BY <1>3, <1>15 DEF vars
  <1> QED
    BY <1>4, <1>5, <1>6, <1>7, <1>8, <1>9, <1>10, <1>11, <1>12, <1>13, <1>14, <1>15,
       ValuesAssumption DEF Next, SomeValue

(* For all numbers of records per file and all sets of keys: as long as no *)
(* write is refused, m_minKey and m_maxKey are the ends of what the index  *)
(* holds, whatever is inserted, erased and evicted, and after a restart.   *)
THEOREM EndsStayExact == Spec => []EndsAreExact
  <1>1. EInv => EndsAreExact
    BY DEF EInv
  <1> QED BY <1>1, EInvInit, EInvStep, PTL DEF Spec

(* From exact ends follows that findNextKey() and findPreviousKey() find   *)
(* the neighbours of every key, unless it has the last record of its file. *)
THEOREM NeighboursAreFound == Spec => []NeighboursFoundInFile
  <1>1. EInv => NeighboursFoundInFile
    <2> SUFFICES ASSUME EInv, up, ~failed, NEW k \in Keys
                 PROVE  LET after == {j \in Live : j > k}
                            before == {j \in Live : j < k}
                        IN /\ (k + 1) % N # 0 =>
                                FindKeyAfter(Live, k) = IF after = {} THEN NoKey ELSE Min(after)
                           /\ Live # {} =>
                                FindKeyBefore(Live, k) = IF before = {} THEN NoKey ELSE Max(before)
      BY DEF NeighboursFoundInFile
    <2>1. Live \in SUBSET Keys /\ \A x \in Live : FileOf(x) \in files
      BY DEF Live
    <2>2. IsLeading(minKey, Live) /\ IsTrailing(maxKey, Live)
      BY <2>1, LeadingKeyFacts, TrailingKeyFacts DEF EInv, EndsAreExact
    <2>3. /\ k = maxKey => \A x \in Live : x <= k
          /\ k = minKey => \A x \in Live : k <= x
      BY <2>2 DEF IsLeading, IsTrailing
    <2>4. (k + 1) % N # 0 => FindKeyAfter(Live, k) =
            IF {x \in Live : x > k} = {} THEN NoKey ELSE Min({x \in Live : x > k})
      BY <2>1, <2>3, AfterFacts
    <2>5. FindKeyBefore(Live, k) =
            IF {x \in Live : x < k} = {} THEN NoKey ELSE Max({x \in Live : x < k})
      BY <2>1, <2>3, BeforeFacts
    <2> QED BY <2>4, <2>5
  <1> QED BY <1>1, EInvInit, EInvStep, PTL DEF Spec
=============================================================================
