-------------------------- MODULE ConfigWatchProofs --------------------------
(***************************************************************************)
(* Proofs about ConfigWatch for every set of keys and values, any builds   *)
(* and any number of writes, faults and restarts.                          *)
(***************************************************************************)
EXTENDS ConfigWatch, SequenceTheorems, TLAPS

-----------------------------------------------------------------------------
(* Type correctness. *)

\* The row etcd has for a key, as the range read and the watch deliver it
\* (RawEntry), is a row or nothing.
LEMMA RowAtType ==
    ASSUME TypeOK, NEW k \in Keys, NEW r \in 0..head
    PROVE  RowAt(k, r) \in Row \cup {None}
<1> DEFINE last == {i \in 1..r : /\ history[i].key = k
                                 /\ \A j \in (i + 1)..r : history[j].key # k}
           i == CHOOSE i \in last : TRUE
<1>1. CASE last = {}
  BY <1>1 DEF RowAt
<1>2. CASE last # {}
  <2>1. i \in last
    BY <1>2
  <2> HIDE DEF i
  <2>2. i \in 1..Len(history) /\ i \in Nat
    <3>1. Len(history) \in Nat /\ r \in 0..Len(history)
      BY DEF head, TypeOK
    <3>2. i \in 1..r
      BY <2>1
    <3> QED
      BY <3>1, <3>2
  <2>3. history[i].val \in Values \cup {None}
    <3>1. history \in Seq([key : Keys, val : Values \cup {None}])
      BY DEF TypeOK
    <3>2. history[i] \in [key : Keys, val : Values \cup {None}]
      BY <2>2, <3>1, ElementOfSeq
    <3> QED
      BY <3>2
  <2>4. CASE history[i].val = None
    BY <2>4, <1>2 DEF RowAt, i
  <2>5. CASE history[i].val # None
    <3>1. RowAt(k, r) = [val |-> history[i].val, rev |-> i]
      BY <2>5, <1>2 DEF RowAt, i
    <3> QED
      BY <3>1, <2>2, <2>3, <2>5 DEF Row
  <2> QED
    BY <2>4, <2>5
<1> QED
  BY <1>1, <1>2

\* apply_resync pins rows of the rows it is given, the pins and the observed
\* rows of before.
LEMMA PinsType ==
    ASSUME NEW rows \in Rows, NEW old \in Rows, NEW seen \in Rows, NEW snap \in Rows,
           NEW b \in Builds
    PROVE  /\ Pins(rows, old, seen, snap, b) \in Rows
           /\ Built(rows, Pins(rows, old, seen, snap, b), b) \in Rows
           /\ Rejections(rows, b) \subseteq Keys
<1>1. Pins(rows, old, seen, snap, b) \in Rows
  BY DEF Pins, Rows
<1>2. \A pins \in Rows : Built(rows, pins, b) \in Rows
  BY DEF Built, Rows
<1> QED
  BY <1>1, <1>2 DEF Rejections

\* What publish_served records is typed.
LEMMA PublishType ==
    ASSUME NEW rows \in Rows, NEW pins \in Rows, NEW bad \in SUBSET Keys,
           NEW changed \in SUBSET Keys,
           shown \in [Keys -> Values \cup {None}], version \in {0, 1},
           publish_served(rows, pins, bad, changed)
    PROVE  /\ shown' \in [Keys -> Values \cup {None}] /\ version' \in {0, 1}
           /\ filtered' \subseteq Keys /\ pending' = {}
<1>1. \A k \in Keys : Served(k, rows, pins, bad) \in Values \cup {None}
  BY DEF Served, Rows, Row
<1>2. shown' \in [Keys -> Values \cup {None}]
  BY <1>1 DEF publish_served
<1>3. version' \in {0, 1}
  BY DEF publish_served
<1>4. filtered' \subseteq Keys /\ pending' = {}
  BY DEF publish_served
<1> QED
  BY <1>2, <1>3, <1>4

CacheType ==
    /\ next_ticket \in Nat /\ committed \in Nat /\ failed \in Nat
    /\ \A w \in writes : w.ticket \in 1..next_ticket /\ w.image \in Images
    /\ writing = None \/ writing \in writes
    /\ disk = None \/ disk \in Images

\* flush_cache hands out a ticket that no earlier capture has.
LEMMA CaptureType ==
    ASSUME CacheType, NEW image \in Images, Capture(image)
    PROVE  CacheType'
<1>1. CASE ~CacheEnabled
  BY <1>1 DEF Capture, cvars, CacheType
<1>2. CASE CacheEnabled
  <2>1. /\ next_ticket' = next_ticket + 1
        /\ writes' = writes \cup {[ticket |-> next_ticket + 1, image |-> image]}
        /\ UNCHANGED <<committed, failed, writing, disk>>
    BY <1>2 DEF Capture
  <2>2. \A w \in writes' : w.ticket \in 1..next_ticket' /\ w.image \in Images
    BY <2>1 DEF CacheType
  <2> QED
    BY <2>1, <2>2 DEF CacheType
<1> QED
  BY <1>1, <1>2

LEMMA CacheStepType ==
    ASSUME CacheType, CacheStep
    PROVE  CacheType'
<1>1. ASSUME NEW w \in writes, StandDown(w) PROVE CacheType'
  BY <1>1 DEF StandDown, CacheType
<1>2. ASSUME NEW w \in writes, WriteBegin(w) PROVE CacheType'
  BY <1>2 DEF WriteBegin, CacheType
<1>3. CASE WriteCommit
  BY <1>3 DEF WriteCommit, CacheType
<1>4. CASE WriteFails
  BY <1>4 DEF WriteFails, CacheType
<1> QED
  BY <1>1, <1>2, <1>3, <1>4 DEF CacheStep

\* The part of TypeOK that an apply changes.
StateType ==
    /\ observed \in Rows /\ snapshot \in Rows /\ staged \in Rows /\ stale \in Rows
    /\ rejected \subseteq Keys /\ pending \subseteq Keys /\ filtered \subseteq Keys
    /\ shown \in [Keys -> Values \cup {None}]
    /\ version \in {0, 1} /\ dirty \in BOOLEAN
    /\ revision \in Nat /\ applied \in Nat
    /\ batch \in 0..MaxBatch

FlowType ==
    /\ history \in Seq([key : Keys, val : Values \cup {None}])
    /\ phase \in Phases /\ build \in Builds
    /\ read \in [Prefixes -> Nat \cup {None}]
    /\ cursor \in [Prefixes -> Nat \cup {None}]
    /\ fetched \in Rows
    /\ faults \in 0..MaxFaults /\ restarts \in Nat

LEMMA TypeParts == TypeOK <=> FlowType /\ StateType /\ CacheType
BY DEF TypeOK, FlowType, StateType, CacheType

LEMMA NothingType == Nothing \in Rows /\ Nothing \in [Keys -> Values \cup {None}]
BY DEF Nothing, Rows

\* apply_resync_at leaves the books and the cache typed.
LEMMA ResyncType ==
    ASSUME StateType, CacheType, NEW rows \in Rows, NEW old \in Rows, NEW seen \in Rows,
           NEW snap \in Rows, NEW rev \in Nat, NEW b \in Builds,
           Resync(rows, old, seen, snap, rev, b)
    PROVE  /\ observed' \in Rows /\ snapshot' \in Rows /\ staged' \in Rows /\ stale' \in Rows
           /\ rejected' \subseteq Keys /\ pending' \subseteq Keys /\ filtered' \subseteq Keys
           /\ shown' \in [Keys -> Values \cup {None}] /\ version' \in {0, 1}
           /\ CacheType'
<1> DEFINE pins == Pins(rows, old, seen, snap, b)
<1>1. pins \in Rows /\ Built(rows, pins, b) \in Rows /\ Rejections(rows, b) \in SUBSET Keys
  BY PinsType
<1>2. /\ observed' = rows /\ stale' = pins /\ rejected' = Rejections(rows, b)
      /\ snapshot' = Built(rows, pins, b) /\ staged' = snapshot'
      /\ publish_served(rows, pins, Rejections(rows, b), {k \in Keys : Changed(k, rows[k])})
      /\ Capture(Image(rows, pins, rev, snapshot', b))
  BY DEF Resync
<1>3. Image(rows, pins, rev, snapshot', b) \in Images
  BY <1>1, <1>2 DEF Image, Images
<1> HIDE DEF pins
<1>4. CacheType'
  BY <1>2, <1>3, CaptureType
<1>5. /\ shown' \in [Keys -> Values \cup {None}] /\ version' \in {0, 1}
      /\ filtered' \subseteq Keys /\ pending' = {}
  <2> DEFINE moved == {k \in Keys : Changed(k, rows[k])}
  <2>1. /\ moved \in SUBSET Keys
        /\ shown \in [Keys -> Values \cup {None}] /\ version \in {0, 1}
    BY DEF StateType
  <2>2. publish_served(rows, pins, Rejections(rows, b), moved)
    BY <1>2
  <2> HIDE DEF moved
  <2> QED
    BY <1>1, <2>1, <2>2, PublishType
<1> QED
  BY <1>1, <1>2, <1>4, <1>5

\* The steps that touch neither the books nor the cache.
Quiet == \/ \E k \in Keys, v \in Values \cup {None} : EtcdWrite(k, v)
         \/ ReadEnv \/ ReadFails \/ OpenEnv \/ OpenGlobal \/ RefuseWatch \/ OpenFails
         \/ \E p \in Prefixes : StreamEnds(p)
         \/ Stop

LEMMA NextCases ==
    Next <=> \/ Quiet \/ ReadGlobal \/ RefuseGlobal \/ Boot
             \/ \E p \in Prefixes : Receive(p)
             \/ PublishBatch \/ Drained \/ Crash \/ CacheTask
BY DEF Next, Cycle, Quiet

\* A quiet step stays outside a batch if it begins outside one.
LEMMA QuietFrame ==
    ASSUME Quiet
    PROVE  /\ UNCHANGED <<state, cvars, build>>
           /\ phase' = phase \/ (phase # "stage" /\ phase' # "stage" /\ phase # "down")
<1>1. ASSUME NEW k \in Keys, NEW v \in Values \cup {None}, EtcdWrite(k, v)
      PROVE  UNCHANGED <<state, cvars, build>> /\ phase' = phase
  BY <1>1 DEF EtcdWrite
<1>2. CASE ReadEnv
  BY <1>2 DEF ReadEnv
<1>3. CASE ReadFails
  BY <1>3 DEF ReadFails, EndCycle
<1>4. CASE OpenEnv
  BY <1>4 DEF OpenEnv
<1>5. CASE OpenGlobal
  BY <1>5 DEF OpenGlobal
<1>6. CASE RefuseWatch
  BY <1>6 DEF RefuseWatch
<1>7. CASE OpenFails
  BY <1>7 DEF OpenFails, EndCycle
<1>8. ASSUME NEW p \in Prefixes, StreamEnds(p)
      PROVE  UNCHANGED <<state, cvars, build>> /\ phase # "stage" /\ phase' # "stage"
             /\ phase # "down"
  BY <1>8 DEF StreamEnds, EndCycle
<1>9. CASE Stop
  BY <1>9 DEF Stop
<1> QED
  BY <1>1, <1>2, <1>3, <1>4, <1>5, <1>6, <1>7, <1>8, <1>9 DEF Quiet

LEMMA QuietType ==
    ASSUME TypeOK, Quiet
    PROVE  FlowType'
<1> USE WatchAssumption DEF FlowType, Phases, Prefixes
<1>0. FlowType /\ head \in Nat
  BY TypeParts DEF head
<1>1. ASSUME NEW k \in Keys, NEW v \in Values \cup {None}, EtcdWrite(k, v)
      PROVE  FlowType'
  <2>1. [key |-> k, val |-> v] \in [key : Keys, val : Values \cup {None}]
    OBVIOUS
  <2>2. history' \in Seq([key : Keys, val : Values \cup {None}])
    BY <1>0, <1>1, <2>1 DEF EtcdWrite
  <2> QED
    BY <1>0, <1>1, <2>2 DEF EtcdWrite
<1>2. CASE ReadEnv
  <2>1. \A k \in Keys : RowAt(k, head) \in Row \cup {None}
    BY <1>0, RowAtType
  <2>2. fetched' \in Rows
    BY <1>2, <2>1 DEF ReadEnv, Rows
  <2>3. read' \in [Prefixes -> Nat \cup {None}]
    BY <1>0, <1>2 DEF ReadEnv
  <2> QED
    BY <1>0, <1>2, <2>2, <2>3 DEF ReadEnv
<1>3. ASSUME EndCycle, Fault, UNCHANGED <<history, build, restarts>>
      PROVE  FlowType'
  BY <1>0, <1>3, NothingType DEF EndCycle, Fault
<1>4. CASE ReadFails \/ OpenFails
  BY <1>3, <1>4 DEF ReadFails, OpenFails
<1>5. ASSUME NEW p \in Prefixes, StreamEnds(p)
      PROVE  FlowType'
  BY <1>3, <1>5 DEF StreamEnds
<1>6. \A p \in Prefixes : WatchFrom(p) \in Nat \cup {None}
  BY <1>0 DEF WatchFrom
<1>7. CASE OpenEnv
  BY <1>0, <1>6, <1>7 DEF OpenEnv
<1>8. CASE OpenGlobal
  BY <1>0, <1>6, <1>8 DEF OpenGlobal
<1>9. CASE RefuseWatch
  BY <1>0, <1>9 DEF RefuseWatch, Fault
<1>10. CASE Stop
  BY <1>0, <1>10 DEF Stop
<1> QED
  BY <1>1, <1>2, <1>4, <1>5, <1>7, <1>8, <1>9, <1>10 DEF Quiet

\* The reads are at revisions of etcd's history, and a stream starts behind one.
FlowInv ==
    /\ phase = "read_global" => read["env"] \in Nat
    /\ \A p \in Prefixes : cursor[p] # None => cursor[p] > 0

LEMMA QuietFlow ==
    ASSUME TypeOK, FlowInv, Quiet
    PROVE  FlowInv'
<1> USE WatchAssumption DEF FlowInv, Prefixes
<1>0. /\ FlowType /\ head \in Nat
      /\ read \in [Prefixes -> Nat \cup {None}] /\ cursor \in [Prefixes -> Nat \cup {None}]
  BY TypeParts DEF head, FlowType
<1>1. ASSUME NEW k \in Keys, NEW v \in Values \cup {None}, EtcdWrite(k, v)
      PROVE  FlowInv'
  BY <1>1 DEF EtcdWrite
<1>2. CASE ReadEnv
  BY <1>0, <1>2 DEF ReadEnv
<1>3. ASSUME EndCycle PROVE FlowInv'
  BY <1>3 DEF EndCycle
<1>4. CASE ReadFails \/ OpenFails
  BY <1>3, <1>4 DEF ReadFails, OpenFails
<1>5. ASSUME NEW p \in Prefixes, StreamEnds(p) PROVE FlowInv'
  BY <1>3, <1>5 DEF StreamEnds
<1>6. \A p \in Prefixes : WatchFrom(p) # None => WatchFrom(p) > 0
  BY <1>0 DEF WatchFrom
<1>7. CASE OpenEnv
  BY <1>0, <1>6, <1>7 DEF OpenEnv
<1>8. CASE OpenGlobal
  BY <1>0, <1>6, <1>8 DEF OpenGlobal
<1>9. CASE RefuseWatch
  BY <1>9 DEF RefuseWatch
<1>10. CASE Stop
  BY <1>10 DEF Stop
<1> QED
  BY <1>1, <1>2, <1>4, <1>5, <1>7, <1>8, <1>9, <1>10 DEF Quiet

\* load_all_prefixes' union and its applied_revision are typed.
LEMMA ReadType ==
    ASSUME TypeOK, FlowInv, ReadGlobal \/ RefuseGlobal
    PROVE  /\ TypeOK' /\ FlowInv'
           /\ \E rows \in Rows, rev \in Nat :
                Resync(rows, stale, observed, snapshot, rev, build)
           /\ phase' = "open_env"
           /\ UNCHANGED <<build, dirty, batch>>
<1> USE WatchAssumption
<1>0. FlowType /\ StateType /\ CacheType /\ head \in Nat
  BY TypeParts DEF head, FlowType
<1>1. \A k \in Keys : RowAt(k, head) \in Row \cup {None}
  BY <1>0, RowAtType
<1>2. phase = "read_global" /\ read["env"] \in Nat
  BY DEF ReadGlobal, RefuseGlobal, FlowInv
<1>3. ASSUME NEW rows \in Rows, NEW rev \in Nat, ApplyRead(rows, rev),
             read' \in [Prefixes -> Nat \cup {None}], faults' \in 0..MaxFaults,
             UNCHANGED <<history, build, cursor, dirty, batch, restarts>>
      PROVE  /\ TypeOK' /\ FlowInv'
             /\ Resync(rows, stale, observed, snapshot, rev, build)
             /\ phase' = "open_env"
  <2>1. /\ Resync(rows, stale, observed, snapshot, rev, build)
        /\ phase' = "open_env" /\ revision' = rev /\ applied' = rev /\ fetched' = Nothing
    BY <1>3 DEF ApplyRead
  <2>2. /\ stale \in Rows /\ observed \in Rows /\ snapshot \in Rows /\ build \in Builds
    BY <1>0 DEF StateType, FlowType
  <2>3. /\ observed' \in Rows /\ snapshot' \in Rows /\ staged' \in Rows /\ stale' \in Rows
        /\ rejected' \subseteq Keys /\ pending' \subseteq Keys /\ filtered' \subseteq Keys
        /\ shown' \in [Keys -> Values \cup {None}] /\ version' \in {0, 1}
        /\ CacheType'
    BY <1>0, <1>3, <2>1, <2>2, ResyncType
  <2>4. StateType'
    BY <1>0, <1>3, <2>1, <2>3 DEF StateType
  <2>5. FlowType'
    BY <1>0, <1>3, <2>1, NothingType DEF FlowType, Phases
  <2>6. TypeOK'
    BY <2>3, <2>4, <2>5 DEF TypeOK, FlowType, StateType, CacheType
  <2>7. FlowInv'
    BY <1>3, <2>1 DEF FlowInv, Prefixes
  <2> QED
    BY <2>1, <2>6, <2>7
<1>4. CASE ReadGlobal
  <2> DEFINE rows == [k \in Keys |-> IF k \in GlobalKeys
                                     THEN Later(fetched[k], RowAt(k, head)) ELSE fetched[k]]
             rev == applied_revision(read["env"], head)
  <2>1. rows \in Rows
    BY <1>0, <1>1 DEF Rows, Later, FlowType
  <2>2. rev \in Nat
    BY <1>0, <1>2 DEF applied_revision
  <2>3. /\ ApplyRead(rows, rev) /\ read' = [read EXCEPT !["global"] = head]
        /\ UNCHANGED <<history, build, cursor, dirty, batch, faults, restarts>>
    BY <1>4 DEF ReadGlobal
  <2>4. read' \in [Prefixes -> Nat \cup {None}] /\ faults' \in 0..MaxFaults
    BY <1>0, <2>3 DEF FlowType
  <2> HIDE DEF rows, rev
  <2> QED
    BY <1>3, <2>1, <2>2, <2>3, <2>4
<1>5. CASE RefuseGlobal
  <2> DEFINE rows == [k \in Keys |-> IF k \in GlobalKeys \ EnvKeys
                                     THEN observed[k] ELSE fetched[k]]
             rev == applied_revision(read["env"], None)
  <2>1. rows \in Rows
    BY <1>0 DEF Rows, FlowType, StateType
  <2>2. rev \in Nat
    BY <1>2 DEF applied_revision
  <2>3. /\ ApplyRead(rows, rev) /\ Fault
        /\ UNCHANGED <<history, build, read, cursor, dirty, batch, restarts>>
    BY <1>5 DEF RefuseGlobal
  <2>4. read' \in [Prefixes -> Nat \cup {None}] /\ faults' \in 0..MaxFaults
    BY <1>0, <2>3 DEF FlowType, Fault
  <2> HIDE DEF rows, rev
  <2> QED
    BY <1>3, <2>1, <2>2, <2>3, <2>4
<1> QED
  BY <1>4, <1>5

\* An event of a stream is an event of etcd's history.
LEMMA EventType ==
    ASSUME TypeOK, FlowInv, NEW p \in Prefixes, cursor[p] # None,
           NEW i \in cursor[p]..head
    PROVE  /\ i \in Nat /\ i \in 1..Len(history)
           /\ history[i] \in [key : Keys, val : Values \cup {None}]
<1>1. /\ history \in Seq([key : Keys, val : Values \cup {None}]) /\ Len(history) \in Nat
      /\ cursor[p] \in Nat /\ cursor[p] > 0
  BY DEF TypeOK, FlowInv
<1>2. i \in 1..Len(history) /\ i \in Nat
  BY <1>1 DEF head
<1> QED
  BY <1>1, <1>2, ElementOfSeq

\* One staged event: the row of key k becomes row (None: it was deleted).
Stage(k, row) ==
    /\ \/ row # None /\ StagePut(k, row)
       \/ row = None /\ StageDelete(k)
    /\ observed' = [observed EXCEPT ![k] = row]
    /\ pending' = (IF Changed(k, row) THEN pending \cup {k} ELSE pending)
    /\ UNCHANGED <<build, snapshot, filtered, shown, version, cvars>>

\* The watch loop's arm stages one event of its stream, and the batch stays open.
LEMMA ReceiveStages ==
    ASSUME TypeOK, FlowInv, NEW p \in Prefixes, Receive(p)
    PROVE  /\ \E k \in Keys, row \in Row \cup {None} : Stage(k, row)
           /\ phase' = "stage" /\ FlowType' /\ FlowInv'
           /\ revision' \in Nat /\ UNCHANGED applied /\ batch' \in 0..MaxBatch
<1> USE WatchAssumption
<1>1. /\ phase' = "stage" /\ cursor[p] # None /\ batch < MaxBatch /\ batch' = batch + 1
      /\ UNCHANGED <<history, build, fetched, read, snapshot, applied, filtered, shown,
                     version, faults, restarts, cvars>>
  BY DEF Receive
<1>2. PICK i \in cursor[p]..head :
         LET k == history[i].key
             row == IF history[i].val = None THEN None
                    ELSE [val |-> history[i].val, rev |-> i]
         IN  /\ cursor' = [cursor EXCEPT ![p] = i + 1]
             /\ \/ row # None /\ StagePut(k, row)
                \/ row = None /\ StageDelete(k)
             /\ observed' = [observed EXCEPT ![k] = row]
             /\ pending' = (IF Changed(k, row) THEN pending \cup {k} ELSE pending)
             /\ revision' = MaxOf(revision, i)
  BY DEF Receive
<1>3. i \in Nat /\ history[i] \in [key : Keys, val : Values \cup {None}]
  BY <1>1, EventType
<1> DEFINE k == history[i].key
           row == IF history[i].val = None THEN None ELSE [val |-> history[i].val, rev |-> i]
<1>4. k \in Keys /\ row \in Row \cup {None}
  BY <1>3 DEF Row
<1>5. Stage(k, row)
  BY <1>1, <1>2 DEF Stage
<1>6. revision' \in Nat
  BY <1>2, <1>3 DEF MaxOf, TypeOK
<1>7. FlowType'
  BY <1>1, <1>2, <1>3 DEF TypeOK, FlowType, Phases
<1>8. FlowInv'
  <2>1. ASSUME NEW q \in Prefixes, cursor'[q] # None PROVE cursor'[q] > 0
    BY <1>2, <1>3, <2>1 DEF FlowInv, TypeOK
  <2> QED
    BY <1>1, <2>1 DEF FlowInv
<1>9. batch' \in 0..MaxBatch
  BY <1>1 DEF TypeOK
<1> HIDE DEF k, row
<1> QED
  BY <1>1, <1>4, <1>5, <1>6, <1>7, <1>8, <1>9

LEMMA ReceiveType ==
    ASSUME TypeOK, FlowInv, NEW p \in Prefixes, Receive(p)
    PROVE  TypeOK' /\ FlowInv'
<1>1. /\ phase' = "stage" /\ FlowType' /\ FlowInv'
      /\ revision' \in Nat /\ UNCHANGED applied /\ batch' \in 0..MaxBatch
  BY ReceiveStages
<1>2. PICK k \in Keys, row \in Row \cup {None} : Stage(k, row)
  BY ReceiveStages
<1>3. StateType /\ CacheType
  BY TypeParts
<1>4. /\ staged' \in Rows /\ stale' \in Rows /\ rejected' \subseteq Keys
      /\ dirty' \in BOOLEAN
  <2>1. CASE row # None /\ StagePut(k, row)
    BY <1>2, <1>3, <2>1 DEF StagePut, StateType, Rows
  <2>2. CASE row = None /\ StageDelete(k)
    <3>1. /\ staged' \in Rows /\ stale' \in Rows /\ rejected' \subseteq Keys
      BY <1>2, <1>3, <2>2 DEF StageDelete, StateType, Rows
    <3>2. dirty' \in BOOLEAN
      BY <1>3, <2>2 DEF StageDelete, StateType
    <3> QED
      BY <3>1, <3>2
  <2> QED
    BY <1>2, <2>1, <2>2 DEF Stage
<1>5. observed' \in Rows /\ pending' \subseteq Keys
  BY <1>2, <1>3 DEF Stage, StateType, Rows
<1>6. StateType'
  BY <1>1, <1>2, <1>3, <1>4, <1>5 DEF StateType, Stage
<1>7. CacheType'
  BY <1>2, <1>3 DEF CacheType, Stage, cvars
<1> QED
  BY <1>1, <1>6, <1>7 DEF TypeOK, FlowType, StateType, CacheType

LEMMA PublishBatchType ==
    ASSUME TypeOK, FlowInv, PublishBatch
    PROVE  TypeOK' /\ FlowInv'
<1> USE WatchAssumption
<1>1. FlowType /\ StateType /\ CacheType
  BY TypeParts
<1>2. /\ observed \in Rows /\ stale \in Rows /\ rejected \in SUBSET Keys
      /\ pending \in SUBSET Keys
      /\ shown \in [Keys -> Values \cup {None}] /\ version \in {0, 1}
      /\ publish_served(observed, stale, rejected, pending)
  BY <1>1 DEF StateType, PublishBatch
<1>3. /\ shown' \in [Keys -> Values \cup {None}] /\ version' \in {0, 1}
      /\ filtered' \subseteq Keys /\ pending' = {}
  BY <1>2, PublishType
<1>4. StateType'
  <2>1. applied' \in Nat
    BY <1>1 DEF PublishBatch, StateType, MaxOf
  <2>2. batch' \in 0..MaxBatch
    BY DEF PublishBatch
  <2>3. dirty' \in BOOLEAN
    BY DEF PublishBatch
  <2> QED
    BY <1>1, <1>3, <2>1, <2>2, <2>3 DEF PublishBatch, StateType
<1>5. CacheType'
  <2>1. Image(observed, stale, revision, staged, build) \in Images
    BY <1>1 DEF Image, Images, StateType, FlowType
  <2>2. CASE dirty /\ Capture(Image(observed, stale, revision, staged, build))
    BY <1>1, <2>1, <2>2, CaptureType
  <2>3. CASE UNCHANGED cvars
    BY <1>1, <2>3 DEF CacheType, cvars
  <2> QED
    BY <2>2, <2>3 DEF PublishBatch
<1>6. FlowType' /\ FlowInv'
  BY <1>1 DEF PublishBatch, FlowType, FlowInv, Phases
<1> QED
  BY <1>4, <1>5, <1>6 DEF TypeOK, FlowType, StateType, CacheType

LEMMA GoneType ==
    ASSUME TypeOK, Gone
    PROVE  TypeOK' /\ FlowInv'
<1> USE WatchAssumption, NothingType
<1>1. StateType'
  <2>1. dirty' \in BOOLEAN
    BY DEF Gone
  <2>2. version' \in {0, 1} /\ batch' \in 0..MaxBatch
    BY DEF Gone
  <2> QED
    BY <2>1, <2>2 DEF Gone, StateType
<1>2. FlowType' /\ FlowInv'
  BY DEF Gone, FlowType, FlowInv, Phases, Prefixes, TypeOK
<1>3. CacheType'
  BY DEF Gone, Forget, CacheType, TypeOK
<1> QED
  BY <1>1, <1>2, <1>3 DEF TypeOK, FlowType, StateType, CacheType

LEMMA BootType ==
    ASSUME TypeOK, FlowInv, Boot
    PROVE  TypeOK' /\ FlowInv'
<1> USE WatchAssumption
<1>1. FlowType /\ StateType /\ CacheType
  BY TypeParts
<1>2. FlowType' /\ FlowInv' /\ build' \in Builds
  BY <1>1 DEF Boot, FlowType, FlowInv, Phases
<1>3. CASE disk = None
  <2>1. UNCHANGED <<state, cvars>>
    BY <1>3 DEF Boot
  <2>2. StateType' /\ CacheType'
    BY <1>1, <2>1 DEF StateType, CacheType, state, cvars
  <2> QED
    BY <1>2, <2>2 DEF TypeOK, FlowType, StateType, CacheType
<1>4. CASE disk # None
  <2>1. /\ Resync(disk.rows, disk.pins, Nothing, Nothing, HighestRev(disk.rows), build')
        /\ applied' = HighestRev(disk.rows) /\ revision' = disk.revision
        /\ UNCHANGED <<batch, dirty>>
    BY <1>4 DEF Boot
  <2>2. /\ disk.rows \in Rows /\ disk.pins \in Rows /\ disk.revision \in Nat
    BY <1>1, <1>4 DEF CacheType, Images
  <2>3. HighestRev(disk.rows) \in Nat
    <3> DEFINE top == {n \in 0..MaxWrites :
                         /\ \E k \in Keys : disk.rows[k] # None /\ disk.rows[k].rev = n
                         /\ \A k \in Keys : disk.rows[k] = None \/ disk.rows[k].rev <= n}
    <3>1. HighestRev(disk.rows) = IF top = {} THEN 0 ELSE CHOOSE n \in top : TRUE
      BY DEF HighestRev
    <3>2. top \subseteq Nat
      OBVIOUS
    <3> HIDE DEF top
    <3>3. top # {} => (CHOOSE n \in top : TRUE) \in top
      OBVIOUS
    <3>4. CASE top = {}
      BY <3>1, <3>4
    <3>5. CASE top # {}
      BY <3>1, <3>2, <3>3, <3>5
    <3> QED
      BY <3>4, <3>5
  <2>4. /\ observed' \in Rows /\ snapshot' \in Rows /\ staged' \in Rows /\ stale' \in Rows
        /\ rejected' \subseteq Keys /\ pending' \subseteq Keys /\ filtered' \subseteq Keys
        /\ shown' \in [Keys -> Values \cup {None}] /\ version' \in {0, 1}
        /\ CacheType'
    BY <1>1, <1>2, <2>1, <2>2, <2>3, NothingType, ResyncType
  <2>5. StateType'
    BY <1>1, <2>1, <2>2, <2>3, <2>4 DEF StateType
  <2> QED
    BY <1>2, <2>4, <2>5 DEF TypeOK, FlowType, StateType, CacheType
<1> QED
  BY <1>3, <1>4

LEMMA InitType == Init => TypeOK /\ FlowInv
<1> SUFFICES ASSUME Init PROVE TypeOK /\ FlowInv
  OBVIOUS
<1> USE WatchAssumption, NothingType DEF Init
<1>1. build \in Builds
  OBVIOUS
<1>2. StateType
  <2>1. dirty \in BOOLEAN
    OBVIOUS
  <2>2. version \in {0, 1} /\ batch \in 0..MaxBatch
    OBVIOUS
  <2> QED
    BY <2>1, <2>2 DEF StateType
<1>3. FlowType /\ FlowInv
  BY <1>1 DEF FlowType, FlowInv, Phases, Prefixes
<1>4. CacheType
  BY DEF CacheType, CacheInit
<1> QED
  BY <1>2, <1>3, <1>4, TypeParts

LEMMA NextType ==
    ASSUME TypeOK, FlowInv, [Next]_vars
    PROVE  TypeOK' /\ FlowInv'
<1>1. CASE UNCHANGED vars
  BY <1>1 DEF vars, state, cvars, TypeOK, FlowInv
<1>2. CASE Quiet
  <2>1. FlowType' /\ FlowInv'
    BY <1>2, QuietType, QuietFlow
  <2>2. StateType' /\ CacheType'
    BY <1>2, QuietFrame, TypeParts DEF StateType, CacheType, state, cvars
  <2> QED
    BY <2>1, <2>2 DEF TypeOK, FlowType, StateType, CacheType
<1>3. CASE ReadGlobal \/ RefuseGlobal
  BY <1>3, ReadType
<1>4. CASE Boot
  BY <1>4, BootType
<1>5. ASSUME NEW p \in Prefixes, Receive(p) PROVE TypeOK' /\ FlowInv'
  BY <1>5, ReceiveType
<1>6. CASE PublishBatch
  BY <1>6, PublishBatchType
<1>7. CASE Drained \/ Crash
  BY <1>7, GoneType DEF Drained, Crash
<1>8. CASE CacheTask
  <2>1. CacheType'
    BY <1>8, TypeParts, CacheStepType DEF CacheTask
  <2>2. StateType' /\ FlowType' /\ FlowInv'
    BY <1>8, TypeParts DEF CacheTask, StateType, FlowType, FlowInv, state
  <2> QED
    BY <2>1, <2>2 DEF TypeOK, FlowType, StateType, CacheType
<1> QED
  BY <1>1, <1>2, <1>3, <1>4, <1>5, <1>6, <1>7, <1>8, NextCases

\* Every state of the watch and its cache is typed.
THEOREM TypeCorrect == Spec => []TypeOK
<1>1. Init => TypeOK /\ FlowInv
  BY InitType
<1>2. TypeOK /\ FlowInv /\ [Next]_vars => (TypeOK /\ FlowInv)'
  BY NextType
<1> QED
  BY <1>1, <1>2, PTL DEF Spec

-----------------------------------------------------------------------------
(* The books: rejected_keys, stale_serving and the snapshot agree. *)

\* Pins that a build accepts for rows it rejects.
GoodPins(rows, pins, b) ==
    \A k \in Keys : pins[k] # None => k \in Rejections(rows, b) /\ pins[k].val \in Loads[b]

BooksInv ==
    /\ rejected = Rejections(observed, build)
    /\ GoodPins(observed, stale, build)
    /\ staged = Built(observed, stale, build)
    /\ phase # "stage" => snapshot = staged /\ pending = {} /\ dirty = FALSE
    /\ phase = "down" => /\ observed = Nothing /\ stale = Nothing /\ snapshot = Nothing
                         /\ shown = Nothing /\ filtered = {} /\ next_ticket = 0

\* apply_resync only keeps a pin for a key it rejects and a value it loads.
LEMMA PinsAreGood ==
    ASSUME NEW rows \in Rows, NEW old \in Rows, NEW seen \in Rows, NEW snap \in Rows,
           NEW b \in Builds
    PROVE  GoodPins(rows, Pins(rows, old, seen, snap, b), b)
BY DEF GoodPins, Pins

\* Loading an image again keeps its pins: restore_from_cache finds what
\* flush_cache stored.
LEMMA PinsFixpoint ==
    ASSUME NEW rows \in Rows, NEW pins \in Rows, NEW b \in Builds,
           GoodPins(rows, pins, b)
    PROVE  Pins(rows, pins, Nothing, Nothing, b) = pins
<1>1. \A k \in Keys : Pins(rows, pins, Nothing, Nothing, b)[k] = pins[k]
  BY DEF Pins, GoodPins, Nothing
<1>2. Pins(rows, pins, Nothing, Nothing, b) = [k \in Keys |-> Pins(rows, pins, Nothing, Nothing, b)[k]]
  BY DEF Pins
<1>3. pins = [k \in Keys |-> pins[k]]
  BY DEF Rows
<1> QED
  BY <1>1, <1>2, <1>3

\* A full apply settles the books, whatever was in them before.
LEMMA ResyncBooks ==
    ASSUME NEW rows \in Rows, NEW old \in Rows, NEW seen \in Rows, NEW snap \in Rows,
           NEW rev, NEW b \in Builds, Resync(rows, old, seen, snap, rev, b), build' = b,
           phase' \notin {"down", "stage"}, dirty' = FALSE
    PROVE  BooksInv'
<1>1. GoodPins(rows, Pins(rows, old, seen, snap, b), b)
  BY PinsAreGood
<1>2. /\ observed' = rows /\ stale' = Pins(rows, old, seen, snap, b)
      /\ rejected' = Rejections(rows, b) /\ pending' = {}
      /\ snapshot' = Built(rows, Pins(rows, old, seen, snap, b), b) /\ staged' = snapshot'
  BY DEF Resync, publish_served
<1>3. rejected' = Rejections(observed', build') /\ staged' = Built(observed', stale', build')
  BY <1>2
<1>4. GoodPins(observed', stale', build')
  BY <1>1, <1>2
<1> QED
  BY <1>2, <1>3, <1>4 DEF BooksInv, GoodPins, Built, Rejections

\* Staging one event keeps them: a loadable value clears the pin, an unloadable
\* one pins what the batch serves so far, a delete clears both.
LEMMA StageBooks ==
    ASSUME TypeOK, BooksInv, NEW k \in Keys, NEW row \in Row \cup {None}, Stage(k, row)
    PROVE  /\ rejected' = Rejections(observed', build')
           /\ GoodPins(observed', stale', build')
           /\ staged' = Built(observed', stale', build')
<1> USE DEF Rows
<1>0. /\ observed \in Rows /\ stale \in Rows /\ staged \in Rows /\ rejected \subseteq Keys
      /\ build \in Builds
      /\ rejected = Rejections(observed, build) /\ GoodPins(observed, stale, build)
      /\ staged = Built(observed, stale, build)
  BY DEF TypeOK, BooksInv
<1>1. observed' = [observed EXCEPT ![k] = row] /\ build' = build
  BY DEF Stage
<1>2. \A j \in Keys \ {k} : observed'[j] = observed[j]
  BY <1>0, <1>1
<1>3. observed'[k] = row
  BY <1>0, <1>1
<1>a. \A j \in Keys : staged[j] = IF stale[j] # None THEN stale[j]
                                  ELSE IF j \in rejected THEN None ELSE observed[j]
  BY <1>0 DEF Built
<1> DEFINE Settled ==
             /\ \A j \in Keys : j \in rejected' <=> observed'[j] # None
                                                    /\ observed'[j].val \notin Loads[build]
             /\ \A j \in Keys : stale'[j] # None =>
                                   j \in rejected' /\ stale'[j].val \in Loads[build]
             /\ \A j \in Keys : staged'[j] = IF stale'[j] # None THEN stale'[j]
                                   ELSE IF j \in rejected' THEN None ELSE observed'[j]
             /\ rejected' \subseteq Keys /\ staged' \in Rows
<1>b. \A j \in Keys : /\ j \in rejected <=> observed[j] # None
                                            /\ observed[j].val \notin Loads[build]
                      /\ stale[j] # None => j \in rejected /\ stale[j].val \in Loads[build]
  BY <1>0 DEF GoodPins, Rejections
<1>4. ASSUME row # None /\ StagePut(k, row) /\ Loadable(row)
      PROVE  Settled
  <2>1. /\ staged' = [staged EXCEPT ![k] = row] /\ rejected' = rejected \ {k}
        /\ stale' = [stale EXCEPT ![k] = None] /\ row.val \in Loads[build]
    BY <1>4 DEF StagePut, Loadable
  <2> QED
    BY <1>0, <1>2, <1>3, <1>4, <1>a, <1>b, <2>1
<1>5. ASSUME row # None /\ StagePut(k, row) /\ ~Loadable(row)
      PROVE  Settled
  <2>1. /\ stale' = (IF PinNow(k) THEN [stale EXCEPT ![k] = observed[k]] ELSE stale)
        /\ rejected' = rejected \cup {k} /\ staged' = staged /\ row.val \notin Loads[build]
    BY <1>5 DEF StagePut, Loadable
  <2>2. CASE PinNow(k)
    <3>1. stale[k] = None /\ staged[k] # None /\ stale' = [stale EXCEPT ![k] = observed[k]]
      BY <2>1, <2>2 DEF PinNow
    <3>2. staged[k] = observed[k] /\ observed[k].val \in Loads[build]
      BY <1>a, <1>b, <3>1
    <3> QED
      BY <1>0, <1>2, <1>3, <1>5, <1>a, <1>b, <2>1, <3>1, <3>2
  <2>3. CASE ~PinNow(k)
    <3>1. stale' = stale /\ (stale[k] # None \/ staged[k] = None)
      BY <2>1, <2>3 DEF PinNow
    <3> QED
      BY <1>0, <1>2, <1>3, <1>5, <1>a, <1>b, <2>1, <3>1
  <2> QED
    BY <2>2, <2>3
<1>6. ASSUME row = None /\ StageDelete(k)
      PROVE  Settled
  <2>1. /\ staged' = [staged EXCEPT ![k] = None] /\ rejected' = rejected \ {k}
        /\ stale' = [stale EXCEPT ![k] = None]
    BY <1>6 DEF StageDelete
  <2> QED
    BY <1>0, <1>2, <1>3, <1>6, <1>a, <1>b, <2>1
<1>7. Settled
  BY <1>4, <1>5, <1>6 DEF Stage
<1> HIDE DEF Settled
<1>8. rejected' = Rejections(observed', build')
  BY <1>1, <1>7 DEF Settled, Rejections
<1>9. GoodPins(observed', stale', build')
  BY <1>1, <1>7, <1>8 DEF Settled, GoodPins
<1>10. staged' = Built(observed', stale', build')
  <2>1. \A j \in Keys : staged'[j] = Built(observed', stale', build')[j]
    BY <1>7, <1>8 DEF Settled, Built
  <2>2. staged' = [j \in Keys |-> staged'[j]]
    BY <1>7 DEF Settled
  <2>3. Built(observed', stale', build') = [j \in Keys |-> Built(observed', stale', build')[j]]
    BY DEF Built
  <2> QED
    BY <2>1, <2>2, <2>3
<1> QED
  BY <1>8, <1>9, <1>10

LEMMA GoneBooks ==
    ASSUME Gone
    PROVE  BooksInv'
<1>1. Rejections(Nothing, build') = {} /\ GoodPins(Nothing, Nothing, build')
  BY DEF Rejections, GoodPins, Nothing
<1>2. Built(Nothing, Nothing, build') = Nothing
  BY <1>1 DEF Built, Nothing
<1> QED
  BY <1>1, <1>2 DEF Gone, Forget, BooksInv

LEMMA NextBooks ==
    ASSUME TypeOK, FlowInv, BooksInv, [Next]_vars
    PROVE  BooksInv'
<1> USE DEF BooksInv
<1>1. CASE UNCHANGED vars
  BY <1>1 DEF vars, state, cvars
<1>2. CASE Quiet
  <2>1. /\ UNCHANGED <<state, cvars, build>>
        /\ phase' = phase \/ (phase # "stage" /\ phase' # "stage" /\ phase # "down")
    BY <1>2, QuietFrame
  <2>2. phase' # "down" \/ phase' = phase
    BY <1>2 DEF Quiet, EtcdWrite, ReadEnv, ReadFails, EndCycle, OpenEnv, OpenGlobal,
                RefuseWatch, OpenFails, StreamEnds, Stop
  <2> QED
    BY <2>1, <2>2 DEF state, cvars
<1>3. CASE ReadGlobal \/ RefuseGlobal
  <2>1. PICK rows \in Rows, rev \in Nat : Resync(rows, stale, observed, snapshot, rev, build)
    BY <1>3, ReadType
  <2>2. phase' = "open_env" /\ UNCHANGED <<build, dirty, batch>>
    BY <1>3, ReadType
  <2>3. phase = "read_global"
    BY <1>3 DEF ReadGlobal, RefuseGlobal
  <2>4. dirty' = FALSE /\ phase' \notin {"down", "stage"}
    BY <2>2, <2>3
  <2>5. stale \in Rows /\ observed \in Rows /\ snapshot \in Rows /\ build \in Builds
    BY DEF TypeOK
  <2> QED
    BY <2>1, <2>2, <2>4, <2>5, ResyncBooks
<1>4. CASE Boot
  <2>1. phase = "down" /\ phase' = "read_env" /\ build' \in Builds /\ UNCHANGED dirty
    BY <1>4 DEF Boot, state
  <2>2. CASE disk = None
    <3>1. UNCHANGED <<state, cvars>>
      BY <1>4, <2>2 DEF Boot
    <3>2. /\ observed' = Nothing /\ stale' = Nothing /\ snapshot' = Nothing
          /\ pending' = {} /\ staged' = Nothing /\ rejected' = rejected /\ dirty' = FALSE
      BY <2>1, <3>1 DEF state
    <3>3. Rejections(Nothing, build') = {} /\ Rejections(Nothing, build) = {}
          /\ GoodPins(Nothing, Nothing, build')
      BY DEF Rejections, GoodPins, Nothing
    <3>4. Built(Nothing, Nothing, build') = Nothing
      BY <3>3 DEF Built, Nothing
    <3>5. rejected = {}
      BY <2>1, <3>3
    <3> QED
      BY <2>1, <3>2, <3>3, <3>4, <3>5
  <2>3. CASE disk # None
    <3>1. Resync(disk.rows, disk.pins, Nothing, Nothing, HighestRev(disk.rows), build')
      BY <1>4, <2>3 DEF Boot
    <3>2. disk.rows \in Rows /\ disk.pins \in Rows
      BY <2>3 DEF TypeOK, Images
    <3>3. dirty' = FALSE /\ phase' \notin {"down", "stage"}
      BY <2>1
    <3> HIDE DEF BooksInv
    <3> QED
      BY <2>1, <3>1, <3>2, <3>3, NothingType, ResyncBooks
  <2> QED
    BY <2>2, <2>3
<1>5. ASSUME NEW p \in Prefixes, Receive(p) PROVE BooksInv'
  <2>1. PICK k \in Keys, row \in Row \cup {None} : Stage(k, row)
    BY <1>5, ReceiveStages
  <2>2. phase' = "stage"
    BY <1>5, ReceiveStages
  <2> QED
    BY <2>1, <2>2, StageBooks
<1>6. CASE PublishBatch
  <2>1. /\ phase' = "watch" /\ snapshot' = staged /\ dirty' = FALSE /\ pending' = {}
        /\ UNCHANGED <<build, observed, staged, stale, rejected>>
    BY <1>6 DEF PublishBatch, publish_served
  <2> QED
    BY <2>1
<1>7. CASE Drained \/ Crash
  BY <1>7, GoneBooks DEF Drained, Crash
<1>8. CASE CacheTask
  <2>1. UNCHANGED <<phase, build, state, next_ticket>>
    BY <1>8 DEF CacheTask, CacheStep, StandDown, WriteBegin, WriteCommit, WriteFails
  <2> QED
    BY <2>1 DEF state
<1> QED
  BY <1>1, <1>2, <1>3, <1>4, <1>5, <1>6, <1>7, <1>8, NextCases

LEMMA InitBooks == Init => BooksInv
<1> SUFFICES ASSUME Init PROVE BooksInv
  OBVIOUS
<1>1. Rejections(Nothing, build) = {} /\ GoodPins(Nothing, Nothing, build)
  BY DEF Rejections, GoodPins, Nothing
<1>2. Built(Nothing, Nothing, build) = Nothing
  BY <1>1 DEF Built, Nothing
<1> QED
  BY <1>1, <1>2 DEF Init, CacheInit, BooksInv

LEMMA BooksAccount == TypeOK /\ BooksInv => ServedIsAccounted
<1> SUFFICES ASSUME TypeOK, BooksInv, phase \notin {"down", "stage"}, NEW k \in Keys
             PROVE  /\ snapshot[k] = (IF stale[k] # None THEN stale[k]
                                      ELSE IF k \in rejected THEN None ELSE observed[k])
                    /\ stale[k] # None => /\ k \in rejected /\ observed[k] # None
                                          /\ Loadable(stale[k])
  BY DEF ServedIsAccounted
<1>1. snapshot = Built(observed, stale, build) /\ rejected = Rejections(observed, build)
  BY DEF BooksInv
<1>2. snapshot[k] = (IF stale[k] # None THEN stale[k]
                     ELSE IF k \in rejected THEN None ELSE observed[k])
  BY <1>1 DEF Built
<1>3. stale[k] # None => k \in rejected /\ observed[k] # None /\ Loadable(stale[k])
  BY <1>1 DEF BooksInv, GoodPins, Rejections, Loadable
<1> QED
  BY <1>2, <1>3

\* What the supervisor publishes is what its books account for, for any keys,
\* values, builds and number of events, reads, restarts and upgrades.
THEOREM SnapshotAccounted == Spec => []ServedIsAccounted
<1>1. Init => TypeOK /\ FlowInv /\ BooksInv
  BY InitType, InitBooks
<1>2. TypeOK /\ FlowInv /\ BooksInv /\ [Next]_vars => (TypeOK /\ FlowInv /\ BooksInv)'
  BY NextType, NextBooks
<1>3. TypeOK /\ BooksInv => ServedIsAccounted
  BY BooksAccount
<1> QED
  BY <1>1, <1>2, <1>3, PTL DEF Spec

-----------------------------------------------------------------------------
(* Images: a restart from any of them serves what was served. *)

GoodImage(c) ==
    Built(c.rows, Pins(c.rows, c.pins, Nothing, Nothing, c.build), c.build) = c.served

ImagesInv == /\ \A w \in writes : GoodImage(w.image)
             /\ disk # None => GoodImage(disk)

LEMMA CapturedIsGood ==
    ASSUME NEW rows \in Rows, NEW pins \in Rows, NEW rev, NEW b \in Builds,
           GoodPins(rows, pins, b)
    PROVE  GoodImage(Image(rows, pins, rev, Built(rows, pins, b), b))
<1>1. Pins(rows, pins, Nothing, Nothing, b) = pins
  BY PinsFixpoint
<1> DEFINE c == Image(rows, pins, rev, Built(rows, pins, b), b)
<1>2. c.rows = rows /\ c.pins = pins /\ c.served = Built(rows, pins, b) /\ c.build = b
  BY DEF Image
<1> HIDE DEF c
<1>3. GoodImage(c)
  BY <1>1, <1>2 DEF GoodImage
<1> QED
  BY <1>3 DEF c

LEMMA CaptureImages ==
    ASSUME ImagesInv, NEW c, GoodImage(c), Capture(c)
    PROVE  ImagesInv'
<1>1. CASE ~CacheEnabled
  BY <1>1 DEF Capture, cvars, ImagesInv, GoodImage
<1>2. CASE CacheEnabled
  <2>1. writes' = writes \cup {[ticket |-> next_ticket + 1, image |-> c]} /\ disk' = disk
    BY <1>2 DEF Capture
  <2>2. \A w \in writes' : GoodImage(w.image)
    BY <2>1 DEF ImagesInv
  <2> QED
    BY <2>1, <2>2 DEF ImagesInv, GoodImage
<1> QED
  BY <1>1, <1>2

LEMMA ResyncImages ==
    ASSUME ImagesInv, NEW rows \in Rows, NEW old \in Rows, NEW seen \in Rows,
           NEW snap \in Rows, NEW rev, NEW b \in Builds,
           Resync(rows, old, seen, snap, rev, b)
    PROVE  ImagesInv'
<1> DEFINE pins == Pins(rows, old, seen, snap, b)
<1>1. pins \in Rows /\ GoodPins(rows, pins, b)
  BY PinsType, PinsAreGood
<1>2. Capture(Image(rows, pins, rev, Built(rows, pins, b), b))
  BY DEF Resync
<1> HIDE DEF pins
<1> QED
  BY <1>1, <1>2, CapturedIsGood, CaptureImages

LEMMA NextImages ==
    ASSUME TypeOK, FlowInv, BooksInv, ImagesInv, [Next]_vars
    PROVE  ImagesInv'
<1>0. ASSUME UNCHANGED <<writes, disk>> PROVE ImagesInv'
  BY <1>0 DEF ImagesInv, GoodImage
<1>1. CASE UNCHANGED vars
  BY <1>0, <1>1 DEF vars, cvars
<1>2. CASE Quiet
  BY <1>0, <1>2, QuietFrame DEF cvars
<1>3. CASE ReadGlobal \/ RefuseGlobal
  <2>1. PICK rows \in Rows, rev \in Nat : Resync(rows, stale, observed, snapshot, rev, build)
    BY <1>3, ReadType
  <2>2. stale \in Rows /\ observed \in Rows /\ snapshot \in Rows /\ build \in Builds
    BY DEF TypeOK
  <2> QED
    BY <2>1, <2>2, ResyncImages
<1>4. CASE Boot
  <2>1. CASE disk = None
    BY <1>0, <1>4, <2>1 DEF Boot, cvars
  <2>2. CASE disk # None
    <3>1. /\ Resync(disk.rows, disk.pins, Nothing, Nothing, HighestRev(disk.rows), build')
          /\ build' \in Builds
      BY <1>4, <2>2 DEF Boot
    <3>2. disk.rows \in Rows /\ disk.pins \in Rows
      BY <2>2 DEF TypeOK, Images
    <3> QED
      BY <3>1, <3>2, NothingType, ResyncImages
  <2> QED
    BY <2>1, <2>2
<1>5. ASSUME NEW p \in Prefixes, Receive(p) PROVE ImagesInv'
  BY <1>0, <1>5 DEF Receive, cvars
<1>6. CASE PublishBatch
  <2>1. \/ Capture(Image(observed, stale, revision, staged, build))
        \/ UNCHANGED cvars
    BY <1>6 DEF PublishBatch
  <2>2. /\ staged = Built(observed, stale, build) /\ GoodPins(observed, stale, build)
        /\ observed \in Rows /\ stale \in Rows /\ build \in Builds
    BY DEF BooksInv, TypeOK
  <2>3. GoodImage(Image(observed, stale, revision, staged, build))
    BY <2>2, CapturedIsGood
  <2> QED
    BY <1>0, <2>1, <2>3, CaptureImages DEF cvars
<1>7. CASE Drained \/ Crash
  BY <1>7 DEF Drained, Crash, Gone, Forget, ImagesInv, GoodImage
<1>8. CASE CacheTask
  <2>1. /\ writes' \subseteq writes
        /\ disk' = disk \/ \E w \in writes : disk' = w.image
    BY <1>8 DEF CacheTask, CacheStep, StandDown, WriteBegin, WriteCommit, WriteFails, TypeOK
  <2> QED
    BY <2>1 DEF ImagesInv, GoodImage
<1> QED
  BY <1>1, <1>2, <1>3, <1>4, <1>5, <1>6, <1>7, <1>8, NextCases

\* Whatever image reaches the disk, and whenever the gateway ends, a gateway of
\* the same build that starts from it serves what was served when it was captured.
THEOREM RestartKeepsServing == Spec => []RestartServesSame
<1> DEFINE Inv == TypeOK /\ FlowInv /\ BooksInv /\ ImagesInv
<1>1. Init => Inv
  BY InitType, InitBooks DEF Init, CacheInit, ImagesInv
<1>2. Inv /\ [Next]_vars => Inv'
  BY NextType, NextBooks, NextImages
<1>3. Inv => RestartServesSame
  BY DEF ImagesInv, GoodImage, RestartServesSame
<1> QED
  BY <1>1, <1>2, <1>3, PTL DEF Spec

-----------------------------------------------------------------------------
(* The file: the write of the last apply wins. *)

\* One task per ticket; a ticket that ended has no task; the writer that holds
\* write_lock is newer than what reached the file; the newest ticket is written,
\* failed or still has its task.
TicketsInv ==
    /\ committed <= next_ticket /\ failed <= next_ticket
    /\ \A w \in writes : w.ticket # committed /\ w.ticket # failed
    /\ \A v, w \in writes : v.ticket = w.ticket => v = w
    /\ writing # None => committed < writing.ticket /\ failed < writing.ticket
    /\ \/ next_ticket = 0 \/ committed = next_ticket \/ failed = next_ticket
       \/ \E w \in writes : w.ticket = next_ticket

\* The image of the newest ticket is what the gateway observes and pins.
NewestInv ==
    (dirty = FALSE /\ next_ticket > 0) =>
        /\ \A w \in writes : w.ticket = next_ticket =>
              w.image.rows = observed /\ w.image.pins = stale
        /\ committed = next_ticket =>
              disk # None /\ disk.rows = observed /\ disk.pins = stale

LEMMA CaptureTickets ==
    ASSUME CacheType, TicketsInv, NEW c, Capture(c)
    PROVE  TicketsInv'
<1>1. CASE ~CacheEnabled
  BY <1>1 DEF Capture, cvars, TicketsInv
<1>2. CASE CacheEnabled
  <2> DEFINE new == [ticket |-> next_ticket + 1, image |-> c]
  <2>1. /\ next_ticket' = next_ticket + 1 /\ writes' = writes \cup {new}
        /\ UNCHANGED <<committed, failed, writing>> /\ new.ticket = next_ticket + 1
    BY <1>2 DEF Capture
  <2>2. /\ next_ticket \in Nat /\ committed \in Nat /\ failed \in Nat
        /\ \A w \in writes : w.ticket \in 1..next_ticket
    BY DEF CacheType
  <2> HIDE DEF new
  <2>3. committed' <= next_ticket' /\ failed' <= next_ticket'
    BY <2>1, <2>2 DEF TicketsInv
  <2>4. \A w \in writes' : w.ticket # committed' /\ w.ticket # failed'
    BY <2>1, <2>2 DEF TicketsInv
  <2>5. \A v, w \in writes' : v.ticket = w.ticket => v = w
    BY <2>1, <2>2 DEF TicketsInv
  <2>6. writing' # None => committed' < writing'.ticket /\ failed' < writing'.ticket
    BY <2>1 DEF TicketsInv
  <2>7. \E w \in writes' : w.ticket = next_ticket'
    BY <2>1
  <2> QED
    BY <2>3, <2>4, <2>5, <2>6, <2>7 DEF TicketsInv
<1> QED
  BY <1>1, <1>2

LEMMA StepTickets ==
    ASSUME CacheType, TicketsInv, CacheStep
    PROVE  TicketsInv'
<1>0. /\ next_ticket \in Nat /\ committed \in Nat /\ failed \in Nat
      /\ \A w \in writes : w.ticket \in 1..next_ticket
      /\ writing = None \/ writing \in writes
  BY DEF CacheType
<1>1. ASSUME NEW w \in writes, StandDown(w) PROVE TicketsInv'
  <2>1. /\ w.ticket <= committed \/ next_ticket > w.ticket
        /\ writes' = writes \ {w} /\ writing = None
        /\ UNCHANGED <<next_ticket, committed, failed, writing>>
    BY <1>1 DEF StandDown, Superseded
  <2>2. \/ next_ticket = 0 \/ committed = next_ticket \/ failed = next_ticket
        \/ \E v \in writes' : v.ticket = next_ticket
    <3>1. CASE \E v \in writes : v.ticket = next_ticket
      <4>1. PICK v \in writes : v.ticket = next_ticket
        BY <3>1
      <4>2. CASE v = w
        BY <1>0, <2>1, <4>1, <4>2 DEF TicketsInv
      <4>3. CASE v # w
        BY <2>1, <4>1, <4>3
      <4> QED
        BY <4>2, <4>3
    <3> QED
      BY <3>1 DEF TicketsInv
  <2> QED
    BY <2>1, <2>2 DEF TicketsInv
<1>2. ASSUME NEW w \in writes, WriteBegin(w) PROVE TicketsInv'
  <2>1. /\ ~(w.ticket <= committed) /\ ~(next_ticket > w.ticket) /\ writing' = w
        /\ UNCHANGED <<next_ticket, committed, failed, writes>>
    BY <1>2 DEF WriteBegin, Superseded
  <2>2. committed < w.ticket /\ failed < w.ticket
    BY <1>0, <2>1 DEF TicketsInv
  <2> QED
    BY <2>1, <2>2 DEF TicketsInv
<1>3. CASE WriteCommit
  <2>1. /\ writing # None /\ committed' = writing.ticket /\ writes' = writes \ {writing}
        /\ writing' = None /\ UNCHANGED <<next_ticket, failed>>
    BY <1>3 DEF WriteCommit
  <2>2. writing \in writes /\ writing.ticket \in 1..next_ticket
        /\ committed < writing.ticket /\ failed < writing.ticket
    BY <1>0, <2>1 DEF TicketsInv
  <2>3. \A w \in writes' : w.ticket # committed'
    BY <2>1, <2>2 DEF TicketsInv
  <2>4. \/ next_ticket' = 0 \/ committed' = next_ticket' \/ failed' = next_ticket'
        \/ \E w \in writes' : w.ticket = next_ticket'
    BY <1>0, <2>1, <2>2 DEF TicketsInv
  <2> QED
    BY <1>0, <2>1, <2>2, <2>3, <2>4 DEF TicketsInv
<1>4. CASE WriteFails
  <2>1. /\ writing # None /\ failed' = writing.ticket /\ writes' = writes \ {writing}
        /\ writing' = None /\ UNCHANGED <<next_ticket, committed>>
    BY <1>4 DEF WriteFails
  <2>2. writing \in writes /\ writing.ticket \in 1..next_ticket
        /\ committed < writing.ticket /\ failed < writing.ticket
    BY <1>0, <2>1 DEF TicketsInv
  <2>3. \A w \in writes' : w.ticket # failed'
    BY <2>1, <2>2 DEF TicketsInv
  <2>4. \/ next_ticket' = 0 \/ committed' = next_ticket' \/ failed' = next_ticket'
        \/ \E w \in writes' : w.ticket = next_ticket'
    BY <1>0, <2>1, <2>2 DEF TicketsInv
  <2> QED
    BY <1>0, <2>1, <2>2, <2>3, <2>4 DEF TicketsInv
<1> QED
  BY <1>1, <1>2, <1>3, <1>4 DEF CacheStep

\* With no cache no ticket is ever taken.
EnabledInv == CacheEnabled \/ next_ticket = 0

\* A capture of what is now observed and pinned.
LEMMA CaptureNewest ==
    ASSUME CacheType, TicketsInv, EnabledInv, NEW c, Capture(c),
           c.rows = observed', c.pins = stale'
    PROVE  NewestInv' /\ EnabledInv'
<1>1. CASE ~CacheEnabled
  <2>1. next_ticket' = 0
    BY <1>1 DEF Capture, cvars, EnabledInv
  <2> QED
    BY <2>1 DEF NewestInv, EnabledInv
<1>2. CASE CacheEnabled
  <2> DEFINE new == [ticket |-> next_ticket + 1, image |-> c]
  <2>1. /\ next_ticket' = next_ticket + 1 /\ writes' = writes \cup {new}
        /\ committed' = committed /\ new.ticket = next_ticket + 1 /\ new.image = c
    BY <1>2 DEF Capture
  <2>2. /\ next_ticket \in Nat /\ committed \in Nat /\ committed <= next_ticket
        /\ \A w \in writes : w.ticket \in 1..next_ticket
    BY DEF CacheType, TicketsInv
  <2> HIDE DEF new
  <2>3. \A w \in writes' : w.ticket = next_ticket' => w = new
    BY <2>1, <2>2
  <2>4. committed' # next_ticket'
    BY <2>1, <2>2
  <2> QED
    BY <1>2, <2>1, <2>3, <2>4 DEF NewestInv, EnabledInv
<1> QED
  BY <1>1, <1>2

LEMMA ResyncNewest ==
    ASSUME CacheType, TicketsInv, EnabledInv, NEW rows, NEW old, NEW seen, NEW snap,
           NEW rev, NEW b, Resync(rows, old, seen, snap, rev, b)
    PROVE  TicketsInv' /\ NewestInv' /\ EnabledInv'
<1> DEFINE c == Image(rows, Pins(rows, old, seen, snap, b), rev, snapshot', b)
<1>1. Capture(c) /\ observed' = rows /\ stale' = Pins(rows, old, seen, snap, b)
  BY DEF Resync
<1>2. c.rows = rows /\ c.pins = Pins(rows, old, seen, snap, b)
  BY DEF Image
<1> HIDE DEF c
<1>3. c.rows = observed' /\ c.pins = stale'
  BY <1>1, <1>2
<1> QED
  BY <1>1, <1>3, CaptureTickets, CaptureNewest

CacheInv == TicketsInv /\ NewestInv /\ EnabledInv

\* The tasks change neither the books nor the newest image.
LEMMA StepNewest ==
    ASSUME CacheType, CacheInv, CacheStep, UNCHANGED <<observed, stale, dirty>>
    PROVE  CacheInv'
<1>1. TicketsInv'
  BY StepTickets DEF CacheInv
<1>2. next_ticket' = next_ticket
  BY DEF CacheStep, StandDown, WriteBegin, WriteCommit, WriteFails
<1>3. NewestInv'
  <2>1. writes' \subseteq writes
    BY DEF CacheStep, StandDown, WriteBegin, WriteCommit, WriteFails
  <2>2. CASE WriteCommit
    <3>1. writing \in writes /\ committed' = writing.ticket /\ disk' = writing.image
      BY <2>2 DEF WriteCommit, CacheType
    <3>2. writing.image \in Images
      BY <3>1 DEF CacheType
    <3>3. disk' # None
      BY <3>1, <3>2, NoneAssumption
    <3> QED
      BY <1>2, <2>1, <3>1, <3>3 DEF NewestInv, CacheInv
  <2>3. CASE UNCHANGED <<committed, disk>>
    BY <1>2, <2>1, <2>3 DEF NewestInv, CacheInv
  <2> QED
    BY <2>2, <2>3 DEF CacheStep, StandDown, WriteBegin, WriteFails
<1>4. EnabledInv'
  BY <1>2 DEF EnabledInv, CacheInv
<1> QED
  BY <1>1, <1>3, <1>4 DEF CacheInv

\* An event either marks the batch, or it deleted what was not there.
LEMMA StageNewest ==
    ASSUME TypeOK, BooksInv, CacheInv, NEW k \in Keys, NEW row \in Row \cup {None},
           Stage(k, row)
    PROVE  CacheInv'
<1>1. UNCHANGED cvars
  BY DEF Stage
<1>2. TicketsInv' /\ EnabledInv'
  BY <1>1 DEF cvars, TicketsInv, EnabledInv, CacheInv
<1>3. CASE row # None /\ StagePut(k, row)
  <2>1. dirty' = TRUE
    BY <1>3 DEF StagePut
  <2> QED
    BY <1>2, <2>1 DEF NewestInv, CacheInv
<1>4. CASE row = None /\ StageDelete(k)
  <2>1. /\ dirty' = (dirty \/ staged[k] # None \/ k \in rejected \/ observed[k] # None)
        /\ stale' = [stale EXCEPT ![k] = None]
        /\ observed' = [observed EXCEPT ![k] = None]
    BY <1>4 DEF StageDelete, Stage
  <2>2. CASE dirty' = FALSE
    <3>1. dirty = FALSE /\ k \notin rejected /\ observed[k] = None
      BY <2>1, <2>2 DEF TypeOK
    <3>2. stale[k] = None
      BY <3>1 DEF BooksInv, GoodPins
    <3>3. observed' = observed /\ stale' = stale
      BY <2>1, <3>1, <3>2 DEF TypeOK, Rows
    <3>4. NewestInv'
      BY <1>1, <3>1, <3>3 DEF NewestInv, CacheInv, cvars
    <3> QED
      BY <1>2, <3>4 DEF CacheInv
  <2>3. CASE dirty' # FALSE
    BY <1>2, <2>3 DEF NewestInv, CacheInv
  <2> QED
    BY <2>2, <2>3
<1> QED
  BY <1>3, <1>4 DEF Stage

LEMMA NextNewest ==
    ASSUME TypeOK, FlowInv, BooksInv, CacheInv, [Next]_vars
    PROVE  CacheInv'
<1>0. CacheType /\ TicketsInv /\ NewestInv /\ EnabledInv
  BY TypeParts DEF CacheInv
<1>1. ASSUME UNCHANGED <<cvars, observed, stale, dirty>> PROVE CacheInv'
  BY <1>1 DEF cvars, CacheInv, TicketsInv, NewestInv, EnabledInv
<1>2. CASE UNCHANGED vars
  BY <1>1, <1>2 DEF vars, state
<1>3. CASE Quiet
  BY <1>1, <1>3, QuietFrame DEF state
<1>4. CASE ReadGlobal \/ RefuseGlobal
  <2>1. PICK rows \in Rows, rev \in Nat : Resync(rows, stale, observed, snapshot, rev, build)
    BY <1>4, ReadType
  <2> QED
    BY <1>0, <2>1, ResyncNewest DEF CacheInv
<1>5. CASE Boot
  <2>1. CASE disk = None
    BY <1>1, <1>5, <2>1 DEF Boot, state
  <2>2. CASE disk # None
    <3>1. Resync(disk.rows, disk.pins, Nothing, Nothing, HighestRev(disk.rows), build')
      BY <1>5, <2>2 DEF Boot
    <3> QED
      BY <1>0, <3>1, ResyncNewest DEF CacheInv
  <2> QED
    BY <2>1, <2>2
<1>6. ASSUME NEW p \in Prefixes, Receive(p) PROVE CacheInv'
  <2>1. PICK k \in Keys, row \in Row \cup {None} : Stage(k, row)
    BY <1>6, ReceiveStages
  <2> QED
    BY <2>1, StageNewest
<1>7. CASE PublishBatch
  <2>1. UNCHANGED <<observed, stale>>
    BY <1>7 DEF PublishBatch
  <2>2. CASE dirty /\ Capture(Image(observed, stale, revision, staged, build))
    <3> DEFINE c == Image(observed, stale, revision, staged, build)
    <3>1. c.rows = observed' /\ c.pins = stale'
      BY <2>1 DEF Image
    <3>2. Capture(c)
      BY <2>2
    <3> HIDE DEF c
    <3> QED
      BY <1>0, <3>1, <3>2, CaptureTickets, CaptureNewest DEF CacheInv
  <2>3. CASE ~dirty /\ UNCHANGED cvars
    <3>1. dirty' = dirty
      BY <1>7, <2>3 DEF PublishBatch, TypeOK
    <3>2. UNCHANGED <<cvars, observed, stale, dirty>>
      BY <2>1, <2>3, <3>1, Zenon
    <3> QED
      BY <1>1, <3>2, Zenon
  <2> QED
    BY <1>7, <2>2, <2>3 DEF PublishBatch
<1>8. CASE Drained \/ Crash
  <2>1. /\ next_ticket' = 0 /\ committed' = 0 /\ failed' = 0
        /\ writes' = {} /\ writing' = None
    BY <1>8 DEF Drained, Crash, Gone, Forget
  <2> QED
    BY <2>1 DEF CacheInv, TicketsInv, NewestInv, EnabledInv
<1>9. CASE CacheTask
  <2>1. CacheStep /\ UNCHANGED <<observed, stale, dirty>>
    BY <1>9 DEF CacheTask, state
  <2> QED
    BY <1>0, <2>1, StepNewest
<1> QED
  BY <1>2, <1>3, <1>4, <1>5, <1>6, <1>7, <1>8, <1>9, NextCases

\* Once the tasks have ended, the file holds the last apply unless its write
\* failed, in whatever order the tasks ran.
THEOREM CacheKeepsUp == Spec => []CacheIsCurrent
<1> DEFINE Inv == TypeOK /\ FlowInv /\ BooksInv /\ CacheInv
<1>1. Init => Inv
  <2>1. Init => CacheInv
    BY DEF Init, CacheInit, CacheInv, TicketsInv, NewestInv, EnabledInv
  <2> QED
    BY <2>1, InitType, InitBooks
<1>2. Inv /\ [Next]_vars => Inv'
  BY NextType, NextBooks, NextNewest
<1>3. Inv => CacheIsCurrent
  <2> SUFFICES ASSUME Inv, phase \notin {"down", "stage"}, writes = {}, next_ticket > 0,
                      failed # next_ticket
               PROVE  disk # None /\ disk.rows = observed /\ disk.pins = stale
    BY DEF CacheIsCurrent
  <2>1. dirty = FALSE
    BY DEF BooksInv
  <2>2. committed = next_ticket
    BY DEF CacheInv, TicketsInv, TypeOK
  <2> QED
    BY <2>1, <2>2 DEF CacheInv, NewestInv
<1> QED
  BY <1>1, <1>2, <1>3, PTL DEF Spec

-----------------------------------------------------------------------------
(* served_version. *)

\* A key that did not change since the last publication serves what it served
\* then; between batches the books' filter is the published one.
ShownInv ==
    /\ \A k \in Keys \ pending : shown[k] = Served(k, observed, stale, rejected)
    /\ shown = ValuesOf(snapshot)
    /\ phase # "stage" => filtered = rejected

\* The filter of publish_served is the set of rejected keys: a pin is a rejected
\* key's.
LEMMA PinnedAreRejected ==
    ASSUME NEW rows, NEW pins, NEW b, GoodPins(rows, pins, b)
    PROVE  Rejections(rows, b) \cup {k \in Keys : pins[k] # None} = Rejections(rows, b)
BY DEF GoodPins

\* publish_served looks at the candidates only, and still records every key and
\* moves the version exactly with the served values, if no other key moved.
LEMMA PublishShows ==
    ASSUME NEW rows \in Rows, NEW pins \in Rows, NEW bad \in SUBSET Keys,
           NEW changed \in SUBSET Keys,
           shown \in [Keys -> Values \cup {None}], version \in {0, 1},
           publish_served(rows, pins, bad, changed),
           \A k \in Keys \ changed :
              (k \in filtered <=> k \in bad \/ pins[k] # None) =>
                 shown[k] = Served(k, rows, pins, bad)
    PROVE  /\ shown' = [k \in Keys |-> Served(k, rows, pins, bad)]
           /\ version' # version <=> shown' # shown
<1> DEFINE now == [k \in Keys |-> Served(k, rows, pins, bad)]
           off == bad \cup {k \in Keys : pins[k] # None}
           candidates == changed \cup (off \ filtered) \cup (filtered \ off)
<1>1. /\ shown' = [k \in Keys |-> IF k \in candidates THEN now[k] ELSE shown[k]]
      /\ version' = (IF \E k \in candidates : now[k] # shown[k]
                     THEN 1 - version ELSE version)
  BY DEF publish_served
<1>2. \A k \in Keys : k \notin candidates => now[k] = shown[k]
  OBVIOUS
<1> HIDE DEF candidates
<1>3. shown' = now
  BY <1>1, <1>2
<1> HIDE DEF now
<1>4. 1 - version # version
  OBVIOUS
<1>5. CASE \E k \in candidates : now[k] # shown[k]
  <2>1. version' # version
    BY <1>1, <1>4, <1>5
  <2>2. shown' # shown
    BY <1>3, <1>5
  <2> QED
    BY <1>3, <2>1, <2>2 DEF now
<1>6. CASE ~ \E k \in candidates : now[k] # shown[k]
  <2>1. version' = version
    BY <1>1, <1>6
  <2>2. shown' = shown
    <3>1. \A k \in Keys : now[k] = shown[k]
      BY <1>2, <1>6
    <3> QED
      BY <1>3, <3>1 DEF now
  <2> QED
    BY <1>3, <2>1, <2>2 DEF now
<1> QED
  BY <1>5, <1>6

\* The values of the built snapshot are what the books say is served.
LEMMA BuiltValues ==
    ASSUME NEW rows \in Rows, NEW pins \in Rows, NEW b \in Builds
    PROVE  ValuesOf(Built(rows, pins, b))
             = [k \in Keys |-> Served(k, rows, pins, Rejections(rows, b))]
BY DEF ValuesOf, Built, Served

\* A full apply compares with the last publication.
LEMMA ResyncShows ==
    ASSUME TypeOK, NEW rows \in Rows, NEW old \in Rows, NEW seen \in Rows,
           NEW snap \in Rows, NEW rev, NEW b \in Builds,
           Resync(rows, old, seen, snap, rev, b),
           \A k \in Keys :
              (/\ ~Changed(k, rows[k])
               /\ k \in filtered <=> k \in Rejections(rows, b)) =>
                 shown[k] = Served(k, rows, Pins(rows, old, seen, snap, b),
                                   Rejections(rows, b))
    PROVE  /\ shown' = ValuesOf(snapshot') /\ filtered' = rejected' /\ pending' = {}
           /\ \A k \in Keys : shown'[k] = Served(k, observed', stale', rejected')
           /\ version' # version <=> shown' # shown
<1> DEFINE pins == Pins(rows, old, seen, snap, b)
           bad == Rejections(rows, b)
           moved == {k \in Keys : Changed(k, rows[k])}
<1>1. /\ observed' = rows /\ stale' = pins /\ rejected' = bad
      /\ snapshot' = Built(rows, pins, b)
      /\ publish_served(rows, pins, bad, moved)
  BY DEF Resync
<1>2. /\ pins \in Rows /\ bad \in SUBSET Keys /\ GoodPins(rows, pins, b)
      /\ moved \in SUBSET Keys
  BY PinsType, PinsAreGood
<1>3. /\ shown \in [Keys -> Values \cup {None}] /\ version \in {0, 1}
  BY DEF TypeOK
<1>4. \A k \in Keys : k \in bad \/ pins[k] # None <=> k \in bad
  BY <1>2 DEF GoodPins
<1>5. ASSUME NEW k \in Keys \ moved, k \in filtered <=> k \in bad \/ pins[k] # None
      PROVE  shown[k] = Served(k, rows, pins, bad)
  BY <1>4, <1>5
<1>6. ValuesOf(Built(rows, pins, b)) = [k \in Keys |-> Served(k, rows, pins, bad)]
  BY <1>2, BuiltValues
<1>7. bad \cup {k \in Keys : pins[k] # None} = bad
  BY <1>4
<1> HIDE DEF pins, bad, moved
<1>8. /\ shown' = [k \in Keys |-> Served(k, rows, pins, bad)]
      /\ version' # version <=> shown' # shown
  BY <1>1, <1>2, <1>3, <1>5, PublishShows
<1>9. filtered' = rejected' /\ pending' = {}
  BY <1>1, <1>7 DEF publish_served
<1> QED
  BY <1>1, <1>6, <1>8, <1>9

LEMMA ReadShows ==
    ASSUME TypeOK, FlowInv, BooksInv, ShownInv, ReadGlobal \/ RefuseGlobal
    PROVE  ShownInv' /\ (version' # version <=> shown' # shown)
<1>1. PICK rows \in Rows, rev \in Nat : Resync(rows, stale, observed, snapshot, rev, build)
  BY ReadType
<1>2. phase = "read_global" /\ phase' = "open_env"
  BY ReadType DEF ReadGlobal, RefuseGlobal
<1>3. /\ stale \in Rows /\ observed \in Rows /\ snapshot \in Rows /\ build \in Builds
  BY DEF TypeOK
<1>4. /\ snapshot = Built(observed, stale, build) /\ rejected = Rejections(observed, build)
      /\ GoodPins(observed, stale, build) /\ pending = {} /\ filtered = rejected
  BY <1>2 DEF BooksInv, ShownInv
<1> DEFINE pins == Pins(rows, stale, observed, snapshot, build)
           bad == Rejections(rows, build)
<1>5. ASSUME NEW k \in Keys, ~Changed(k, rows[k]), k \in filtered <=> k \in bad
      PROVE  shown[k] = Served(k, rows, pins, bad)
  <2>1. shown[k] = Served(k, observed, stale, rejected)
    BY <1>4 DEF ShownInv
  <2>2. \/ observed[k] = None /\ rows[k] = None
        \/ observed[k] # None /\ rows[k] # None /\ observed[k].val = rows[k].val
    BY <1>5 DEF Changed
  <2>3. CASE k \in bad
    <3>1. k \in rejected
      BY <1>4, <1>5, <2>3
    <3>2. CASE stale[k] # None
      <4>1. stale[k].val \in Loads[build]
        BY <1>4, <3>2 DEF GoodPins
      <4>2. pins[k] = stale[k]
        BY <2>3, <3>2, <4>1 DEF Pins
      <4> QED
        BY <2>1, <3>2, <4>2 DEF Served
    <3>3. CASE stale[k] = None
      <4>1. snapshot[k] = None
        BY <1>4, <3>1, <3>3 DEF Built
      <4>2. pins[k] = None
        BY <3>3, <4>1 DEF Pins
      <4> QED
        BY <2>1, <2>3, <3>1, <3>3, <4>2 DEF Served
    <3> QED
      BY <3>2, <3>3
  <2>4. CASE k \notin bad
    <3>1. k \notin rejected /\ stale[k] = None
      BY <1>4, <1>5, <2>4 DEF GoodPins
    <3>2. pins[k] = None
      BY <2>4 DEF Pins
    <3> QED
      BY <2>1, <2>2, <2>4, <3>1, <3>2 DEF Served
  <2> QED
    BY <2>3, <2>4
<1>6. /\ shown' = ValuesOf(snapshot') /\ filtered' = rejected' /\ pending' = {}
      /\ \A k \in Keys : shown'[k] = Served(k, observed', stale', rejected')
      /\ version' # version <=> shown' # shown
  BY <1>1, <1>3, <1>5, ResyncShows
<1> QED
  BY <1>6 DEF ShownInv, ValuesOf, Served

LEMMA BootShows ==
    ASSUME TypeOK, BooksInv, ShownInv, Boot
    PROVE  ShownInv'
<1>1. /\ phase = "down" /\ observed = Nothing /\ shown = Nothing /\ filtered = {}
      /\ build' \in Builds
  BY DEF Boot, BooksInv
<1>2. CASE disk = None
  BY <1>1, <1>2 DEF Boot, state, ShownInv, ValuesOf, Served
<1>3. CASE disk # None
  <2>1. Resync(disk.rows, disk.pins, Nothing, Nothing, HighestRev(disk.rows), build')
    BY <1>3 DEF Boot
  <2>2. disk.rows \in Rows /\ disk.pins \in Rows
    BY <1>3 DEF TypeOK, Images
  <2> DEFINE pins == Pins(disk.rows, disk.pins, Nothing, Nothing, build')
             bad == Rejections(disk.rows, build')
  <2>3. ASSUME NEW k \in Keys, ~Changed(k, disk.rows[k]), k \in filtered <=> k \in bad
        PROVE  shown[k] = Served(k, disk.rows, pins, bad)
    <3>1. observed[k] = None /\ shown[k] = None /\ k \notin bad
      BY <1>1, <2>3 DEF Nothing
    <3>2. disk.rows[k] = None /\ pins[k] = None
      BY <2>3, <3>1 DEF Changed, Pins
    <3> QED
      BY <3>1, <3>2 DEF Served
  <2>4. /\ shown' = ValuesOf(snapshot') /\ filtered' = rejected' /\ pending' = {}
        /\ \A k \in Keys : shown'[k] = Served(k, observed', stale', rejected')
    BY <1>1, <2>1, <2>2, <2>3, NothingType, ResyncShows
  <2> QED
    BY <2>4 DEF ShownInv, ValuesOf, Served
<1> QED
  BY <1>2, <1>3

\* A staged event that does not change the bytes of its key changes nothing that
\* the key serves.
LEMMA StageShows ==
    ASSUME TypeOK, BooksInv, ShownInv, NEW k \in Keys, NEW row \in Row \cup {None},
           Stage(k, row), phase' = "stage"
    PROVE  ShownInv'
<1> USE DEF Rows
<1>0. /\ observed \in Rows /\ stale \in Rows /\ staged \in Rows /\ rejected \subseteq Keys
      /\ rejected = Rejections(observed, build) /\ GoodPins(observed, stale, build)
      /\ staged = Built(observed, stale, build)
  BY DEF TypeOK, BooksInv
<1>1. /\ observed' = [observed EXCEPT ![k] = row]
      /\ pending' = (IF Changed(k, row) THEN pending \cup {k} ELSE pending)
      /\ UNCHANGED <<snapshot, filtered, shown, version, build>>
  BY DEF Stage
<1>2. \A j \in Keys \ {k} : observed'[j] = observed[j] /\ stale'[j] = stale[j]
                            /\ (j \in rejected' <=> j \in rejected)
  <2>1. CASE row # None /\ StagePut(k, row)
    BY <1>0, <1>1, <2>1 DEF StagePut
  <2>2. CASE row = None /\ StageDelete(k)
    BY <1>0, <1>1, <2>2 DEF StageDelete
  <2> QED
    BY <2>1, <2>2 DEF Stage
<1>3. ASSUME ~Changed(k, row)
      PROVE  Served(k, observed', stale', rejected') = Served(k, observed, stale, rejected)
  <2>0. observed'[k] = row
    BY <1>0, <1>1
  <2>1. \/ observed[k] = None /\ row = None
        \/ observed[k] # None /\ row # None /\ observed[k].val = row.val
    BY <1>3 DEF Changed
  <2>2. k \in rejected <=> observed[k] # None /\ observed[k].val \notin Loads[build]
    BY <1>0 DEF Rejections
  <2>3. stale[k] # None => k \in rejected
    BY <1>0 DEF GoodPins
  <2>4. CASE row # None /\ StagePut(k, row) /\ Loadable(row)
    <3>1. k \notin rejected /\ stale[k] = None
      BY <2>1, <2>2, <2>3, <2>4 DEF Loadable
    <3>2. k \notin rejected' /\ stale'[k] = None
      BY <1>0, <2>4 DEF StagePut
    <3> QED
      BY <2>0, <2>1, <2>4, <3>1, <3>2 DEF Served
  <2>5. CASE row # None /\ StagePut(k, row) /\ ~Loadable(row)
    <3>1. k \in rejected
      BY <2>1, <2>2, <2>5 DEF Loadable
    <3>2. ~PinNow(k)
      BY <1>0, <3>1 DEF PinNow, Built
    <3>3. k \in rejected' /\ stale' = stale
      BY <2>5, <3>2 DEF StagePut
    <3> QED
      BY <3>1, <3>3 DEF Served
  <2>6. CASE row = None /\ StageDelete(k)
    <3>1. observed[k] = None /\ k \notin rejected /\ stale[k] = None
      BY <2>1, <2>2, <2>3, <2>6
    <3>2. k \notin rejected' /\ stale'[k] = None
      BY <1>0, <2>6 DEF StageDelete
    <3> QED
      BY <2>0, <2>6, <3>1, <3>2 DEF Served
  <2> QED
    BY <2>4, <2>5, <2>6 DEF Stage
<1>4. ASSUME NEW j \in Keys \ pending'
      PROVE  shown'[j] = Served(j, observed', stale', rejected')
  <2>1. j \notin pending /\ shown'[j] = Served(j, observed, stale, rejected)
    BY <1>1 DEF ShownInv
  <2>2. CASE j = k
    BY <1>1, <1>3, <2>1, <2>2
  <2>3. CASE j # k
    BY <1>2, <2>1, <2>3 DEF Served
  <2> QED
    BY <2>2, <2>3
<1>5. shown' = ValuesOf(snapshot')
  BY <1>1 DEF ShownInv, ValuesOf
<1> QED
  BY <1>4, <1>5 DEF ShownInv, Served

LEMMA PublishBatchShows ==
    ASSUME TypeOK, BooksInv, ShownInv, PublishBatch
    PROVE  ShownInv' /\ (version' # version <=> shown' # shown)
<1>1. /\ snapshot' = staged /\ publish_served(observed, stale, rejected, pending)
      /\ UNCHANGED <<observed, stale, rejected, build>>
  BY DEF PublishBatch
<1>2. /\ observed \in Rows /\ stale \in Rows /\ rejected \in SUBSET Keys /\ build \in Builds
      /\ pending \in SUBSET Keys
      /\ shown \in [Keys -> Values \cup {None}] /\ version \in {0, 1}
  BY DEF TypeOK
<1>3. /\ shown' = [k \in Keys |-> Served(k, observed, stale, rejected)]
      /\ version' # version <=> shown' # shown
  BY <1>1, <1>2, PublishShows DEF ShownInv
<1>4. /\ staged = Built(observed, stale, build) /\ rejected = Rejections(observed, build)
      /\ GoodPins(observed, stale, build)
  BY DEF BooksInv
<1>5. shown' = ValuesOf(snapshot')
  <2>1. ValuesOf(staged) = [k \in Keys |-> Served(k, observed, stale, rejected)]
    BY <1>2, <1>4, BuiltValues
  <2> QED
    BY <1>1, <1>3, <2>1 DEF ValuesOf
<1>6. filtered' = rejected'
  BY <1>1, <1>4, PinnedAreRejected DEF publish_served
<1>7. \A k \in Keys : shown'[k] = Served(k, observed', stale', rejected')
  BY <1>1, <1>3
<1> QED
  BY <1>3, <1>5, <1>6, <1>7 DEF ShownInv, Served

LEMMA NextShows ==
    ASSUME TypeOK, FlowInv, BooksInv, ShownInv, [Next]_vars
    PROVE  /\ ShownInv'
           /\ phase # "down" /\ phase' # "down" => (version' # version <=> shown' # shown)
<1>0. ASSUME UNCHANGED state, phase' = phase \/ phase # "stage"
      PROVE  ShownInv' /\ (version' # version <=> shown' # shown)
  BY <1>0 DEF state, ShownInv, ValuesOf, Served
<1>1. CASE UNCHANGED vars
  BY <1>0, <1>1 DEF vars
<1>2. CASE Quiet
  BY <1>0, <1>2, QuietFrame
<1>3. CASE ReadGlobal \/ RefuseGlobal
  BY <1>3, ReadShows
<1>4. CASE Boot
  BY <1>4, BootShows DEF Boot
<1>5. ASSUME NEW p \in Prefixes, Receive(p)
      PROVE  ShownInv' /\ (version' # version <=> shown' # shown)
  <2>1. PICK k \in Keys, row \in Row \cup {None} : Stage(k, row)
    BY <1>5, ReceiveStages
  <2>2. phase' = "stage"
    BY <1>5, ReceiveStages
  <2>3. ShownInv'
    BY <2>1, <2>2, StageShows
  <2>4. version' = version /\ shown' = shown
    BY <2>1 DEF Stage
  <2> QED
    BY <2>3, <2>4
<1>6. CASE PublishBatch
  BY <1>6, PublishBatchShows
<1>7. CASE Drained \/ Crash
  <2>1. /\ phase' = "down" /\ shown' = Nothing /\ snapshot' = Nothing /\ observed' = Nothing
        /\ stale' = Nothing /\ rejected' = {} /\ filtered' = {}
    BY <1>7 DEF Drained, Crash, Gone
  <2>2. \A k \in Keys : Nothing[k] = None
    BY DEF Nothing
  <2>3. ShownInv'
    BY <2>1, <2>2 DEF ShownInv, ValuesOf, Served, Nothing
  <2> QED
    BY <2>1, <2>3
<1>8. CASE CacheTask
  BY <1>0, <1>8 DEF CacheTask
<1> QED
  BY <1>1, <1>2, <1>3, <1>4, <1>5, <1>6, <1>7, <1>8, NextCases

\* While the gateway runs, served_version moves exactly when the bytes in force do.
THEOREM VersionMovesWithServed == Spec => VersionTellsServed
<1> DEFINE Inv == TypeOK /\ FlowInv /\ BooksInv /\ ShownInv
<1>1. Init => Inv
  <2>1. Init => ShownInv
    BY DEF Init, ShownInv, ValuesOf, Served, Nothing
  <2> QED
    BY <2>1, InitType, InitBooks
<1>2. Inv /\ [Next]_vars => Inv'
  BY NextType, NextBooks, NextShows
<1>3. Inv /\ Inv' /\ [Next]_vars =>
        [(phase # "down" /\ phase' # "down") =>
           (version' # version <=> ValuesOf(snapshot') # ValuesOf(snapshot))]_vars
  <2> SUFFICES ASSUME Inv, Inv', [Next]_vars, phase # "down", phase' # "down"
               PROVE  version' # version <=> ValuesOf(snapshot') # ValuesOf(snapshot)
    OBVIOUS
  <2>1. version' # version <=> shown' # shown
    BY NextShows
  <2>2. shown = ValuesOf(snapshot) /\ shown' = ValuesOf(snapshot')
    BY DEF ShownInv, ValuesOf
  <2> QED
    BY <2>1, <2>2
<1> QED
  BY <1>1, <1>2, <1>3, PTL DEF Spec, VersionTellsServed
=============================================================================
