---------------------------- MODULE ConfigWatch -----------------------------
(***************************************************************************)
(* The gateway's configuration watch (aisix-etcd, Supervisor): it reads    *)
(* the environment prefix and the shared catalog from etcd, publishes one  *)
(* snapshot, follows one watch stream per prefix, keeps serving the last   *)
(* value of a key whose new bytes it cannot load, and writes every apply   *)
(* to the snapshot cache, from which a restarted gateway serves before it  *)
(* reaches etcd.                                                           *)
(***************************************************************************)
EXTENDS SnapshotCache, Sequences

CONSTANTS
    EnvKeys, GlobalKeys, \* the keys under the environment and catalog prefix
    Values,
    Builds,     \* gateway builds: an upgrade changes what loads
    Loads,      \* Loads[b]: the values build b accepts
    MaxWrites,  \* bound: writes to etcd
    MaxBatch,   \* events of one coalesced apply
    MaxFaults,  \* bound: failed reads, refusals and ended watches
    MaxRestarts \* bound: ends of the gateway process

Keys == EnvKeys \cup GlobalKeys
Prefixes == {"env", "global"}
Under(p) == IF p = "env" THEN EnvKeys ELSE GlobalKeys

ASSUME WatchAssumption ==
    /\ GlobalKeys \cap EnvKeys = {} \/ GlobalKeys \subseteq EnvKeys
    /\ Builds # {} /\ Loads \in [Builds -> SUBSET Values]
    /\ MaxWrites \in Nat /\ MaxBatch \in Nat \ {0}
    /\ MaxFaults \in Nat /\ MaxRestarts \in Nat
    /\ None \notin Values /\ None \notin Nat

VARIABLES
    history,    \* etcd: history[r] is the write of revision r (val None: a delete)
    phase,      \* where the process is, "down" when there is none
    build,      \* the running build
    fetched,    \* the rows read so far in this cycle
    read,       \* read[p]: the revision p was read at in this cycle, or None
    cursor,     \* cursor[p]: the next revision p's stream may deliver, or None
    observed,   \* ObservedState.entries
    snapshot,   \* the published snapshot
    staged,     \* the snapshot with the batch's mutations so far (the snapshot
                \* between batches)
    stale,      \* stale_serving: the pinned last good row of a rejected key
    rejected,   \* rejected_keys
    revision, applied, \* self.revision; WatchStatus.revision (the heartbeat's)
    batch, dirty, \* events staged; the batch has to write the cache
    pending, filtered, shown, \* ObservedState: keys changed since the last
                \* publication; rejected or pinned at it; what each served at it
    version,    \* served_version (modulo 2: one apply moves it at most once)
    faults, restarts

state == <<observed, snapshot, staged, stale, rejected, revision, applied,
           pending, filtered, shown, version, dirty, batch>>
vars == <<history, phase, build, fetched, read, cursor, state, faults, restarts, cvars>>

Nothing == [k \in Keys |-> None]
Loadable(row) == row.val \in Loads[build]
head == Len(history)
MaxOf(a, b) == IF a > b THEN a ELSE b

\* The row etcd has for k as of revision r.
RowAt(k, r) ==
    LET last == {i \in 1..r : /\ history[i].key = k
                              /\ \A j \in (i + 1)..r : history[j].key # k}
        i == CHOOSE i \in last : TRUE
    IN  IF last = {} \/ history[i].val = None THEN None
        ELSE [val |-> history[i].val, rev |-> i]

-----------------------------------------------------------------------------
(* Publishing. *)

\* served_record: what k contributes to the served set.
Served(k, rows, pins, bad) ==
    IF pins[k] # None THEN pins[k].val
    ELSE IF k \in bad \/ rows[k] = None THEN None ELSE rows[k].val

\* Mutant: every observed change moves the version.
publish_observed(rows, pins, bad, changed) ==
    /\ shown' = [k \in Keys |-> Served(k, rows, pins, bad)]
    /\ filtered' = bad \cup {k \in Keys : pins[k] # None}
    /\ version' = (IF changed # {} THEN 1 - version ELSE version)
    /\ pending' = {}

\* publish_served: compare the keys that were written or whose status moved with
\* what they served at the last publication.
publish_served(rows, pins, bad, changed) ==
    LET now == [k \in Keys |-> Served(k, rows, pins, bad)]
        off == bad \cup {k \in Keys : pins[k] # None}
        candidates == changed \cup (off \ filtered) \cup (filtered \ off)
    IN  /\ shown' = [k \in Keys |-> IF k \in candidates THEN now[k] ELSE shown[k]]
        /\ filtered' = off
        /\ version' = (IF \E k \in candidates : now[k] # shown[k]
                       THEN 1 - version ELSE version)
        /\ pending' = {}

\* ObservedState::insert and remove note a key whose bytes change.
Changed(k, row) ==
    IF observed[k] = None \/ row = None THEN observed[k] # row
    ELSE observed[k].val # row.val

\* Mutant: the pins are left out.
ImageOfRows(rows, pins, rev, snap, b) ==
    [rows |-> rows, pins |-> Nothing, revision |-> rev, served |-> snap, build |-> b]

\* What flush_cache captures; served and build are history.
Image(rows, pins, rev, snap, b) ==
    [rows |-> rows, pins |-> pins, revision |-> rev, served |-> snap, build |-> b]

-----------------------------------------------------------------------------
(* apply_resync: replace everything by the rows of a full read. *)

Rejections(rows, b) == {k \in Keys : rows[k] # None /\ rows[k].val \notin Loads[b]}

\* A rejected key keeps its pin, or is pinned to the bytes it serves; a pin that
\* this build cannot load is dropped.
Pins(rows, old, seen, snap, b) ==
    LET pin(k) == IF old[k] # None THEN old[k]
                  ELSE IF snap[k] # None THEN seen[k] ELSE None
    IN  [k \in Keys |->
            IF k \in Rejections(rows, b) /\ pin(k) # None /\ pin(k).val \in Loads[b]
            THEN pin(k) ELSE None]

\* The fresh build with the pinned rows merged into it.
Built(rows, pins, b) ==
    [k \in Keys |-> IF pins[k] # None THEN pins[k]
                    ELSE IF k \in Rejections(rows, b) THEN None ELSE rows[k]]

\* old, seen, snap: the pins, observed rows and snapshot before; rev: the
\* revision the cache records.
Resync(rows, old, seen, snap, rev, b) ==
    LET pins == Pins(rows, old, seen, snap, b)
    IN  /\ observed' = rows
        /\ stale' = pins
        /\ rejected' = Rejections(rows, b)
        /\ snapshot' = Built(rows, pins, b)
        /\ staged' = snapshot'
        /\ publish_served(rows, pins, Rejections(rows, b),
                          {k \in Keys : Changed(k, rows[k])})
        /\ Capture(Image(rows, pins, rev, snapshot', b))

-----------------------------------------------------------------------------
(* etcd. *)

EtcdWrite(k, v) ==
    /\ head < MaxWrites
    /\ v = None => RowAt(k, head) # None
    /\ history' = Append(history, [key |-> k, val |-> v])
    /\ UNCHANGED <<phase, build, fetched, read, cursor, state, faults, restarts, cvars>>

-----------------------------------------------------------------------------
(* One cycle: read every prefix, apply the union, open the watches. *)

Fault == faults < MaxFaults /\ faults' = faults + 1

\* A cycle that ends: run waits and starts the next.
EndCycle ==
    /\ phase' = "read_env"
    /\ cursor' = [p \in Prefixes |-> None]
    /\ read' = [p \in Prefixes |-> None]
    /\ fetched' = Nothing

ReadEnv ==
    /\ phase = "read_env" /\ phase' = "read_global"
    /\ fetched' = [k \in Keys |-> IF k \in EnvKeys THEN RowAt(k, head) ELSE None]
    /\ read' = [read EXCEPT !["env"] = head]
    /\ UNCHANGED <<history, build, cursor, state, faults, restarts, cvars>>

\* load_all_prefixes is done: apply_resync_at and record_read_revision.
ApplyRead(rows, rev) ==
    /\ phase' = "open_env"
    /\ Resync(rows, stale, observed, snapshot, rev, build)
    /\ revision' = rev /\ applied' = rev
    /\ fetched' = Nothing

\* Two reads of one key: the later write is kept.
Later(a, b) == IF a = None THEN b
               ELSE IF b = None THEN a ELSE IF b.rev > a.rev THEN b ELSE a

\* The lowest revision any prefix was read at: the reads run in sequence, and the
\* union is consistent only as of the first.
applied_revision(env, global) == IF global = None \/ env <= global THEN env ELSE global

ReadGlobal ==
    /\ phase = "read_global"
    /\ read' = [read EXCEPT !["global"] = head]
    /\ ApplyRead([k \in Keys |-> IF k \in GlobalKeys THEN Later(fetched[k], RowAt(k, head))
                                 ELSE fetched[k]],
                 applied_revision(read["env"], head))
    /\ UNCHANGED <<history, build, cursor, dirty, batch, faults, restarts>>

\* A refused catalog keeps the rows last read from it, where the environment's
\* read does not answer for them.
RefuseGlobal ==
    /\ phase = "read_global" /\ Fault
    /\ ApplyRead([k \in Keys |-> IF k \in GlobalKeys \ EnvKeys THEN observed[k]
                                 ELSE fetched[k]],
                 applied_revision(read["env"], None))
    /\ UNCHANGED <<history, build, read, cursor, dirty, batch, restarts>>

ReadFails ==
    /\ phase \in {"read_env", "read_global"} /\ Fault
    /\ EndCycle
    /\ UNCHANGED <<history, build, state, restarts, cvars>>

\* Mutant: every stream starts at the revision of the whole read.
WatchFromApplied(p) == IF read[p] = None THEN None ELSE revision + 1

\* Each prefix is watched from its own read; one that was refused is not.
WatchFrom(p) == IF read[p] = None THEN None ELSE read[p] + 1

OpenEnv ==
    /\ phase = "open_env" /\ phase' = "open_global"
    /\ cursor' = [cursor EXCEPT !["env"] = WatchFrom("env")]
    /\ UNCHANGED <<history, build, fetched, read, state, faults, restarts, cvars>>

OpenGlobal ==
    /\ phase = "open_global" /\ phase' = "watch"
    /\ cursor' = [cursor EXCEPT !["global"] = WatchFrom("global")]
    /\ UNCHANGED <<history, build, fetched, read, state, faults, restarts, cvars>>

\* The catalog's watch is refused: no stream for it in this cycle.
RefuseWatch ==
    /\ phase = "open_global" /\ phase' = "watch"
    /\ read["global"] # None /\ Fault
    /\ UNCHANGED <<history, build, fetched, read, cursor, state, restarts, cvars>>

OpenFails ==
    /\ phase \in {"open_env", "open_global"} /\ Fault
    /\ EndCycle
    /\ UNCHANGED <<history, build, state, restarts, cvars>>

\* Mutant: the stream that ended is dropped and the others are followed.
StreamEndsUnnoticed(p) ==
    /\ phase = "watch" /\ cursor[p] # None /\ Fault
    /\ cursor' = [cursor EXCEPT ![p] = None]
    /\ UNCHANGED <<history, phase, build, fetched, read, state, restarts, cvars>>

\* A stream ends, is compacted past or fails: the whole cycle is over.
StreamEnds(p) ==
    /\ phase = "watch" /\ cursor[p] # None /\ Fault
    /\ EndCycle
    /\ UNCHANGED <<history, build, state, restarts, cvars>>

-----------------------------------------------------------------------------
(* Watch events, staged one by one and published as one apply. *)

\* Mutant: the probe reads the snapshot the batch started from.
PinPublished(k) == stale[k] = None /\ snapshot[k] # None

\* capture_last_good: the row serves (or an earlier event of the batch makes it
\* serve) and is not pinned yet.
PinNow(k) == stale[k] = None /\ staged[k] # None

StagePut(k, row) ==
    /\ \/ /\ Loadable(row)
          /\ staged' = [staged EXCEPT ![k] = row]
          /\ rejected' = rejected \ {k}
          /\ stale' = [stale EXCEPT ![k] = None]
       \/ /\ ~Loadable(row)
          /\ stale' = (IF PinNow(k) THEN [stale EXCEPT ![k] = observed[k]] ELSE stale)
          /\ rejected' = rejected \cup {k}
          /\ UNCHANGED staged
    /\ dirty' = TRUE

StageDelete(k) ==
    /\ staged' = [staged EXCEPT ![k] = None]
    /\ rejected' = rejected \ {k}
    /\ stale' = [stale EXCEPT ![k] = None]
    /\ dirty' = (dirty \/ staged[k] # None \/ k \in rejected \/ observed[k] # None)

\* The next event of p's stream.
Receive(p) ==
    /\ phase \in {"watch", "stage"} /\ phase' = "stage"
    /\ cursor[p] # None
    /\ batch < MaxBatch /\ batch' = batch + 1
    /\ \E i \in cursor[p]..head :
         LET k == history[i].key
             row == IF history[i].val = None THEN None
                    ELSE [val |-> history[i].val, rev |-> i]
         IN  /\ k \in Under(p)
             /\ \A j \in cursor[p]..(i - 1) : history[j].key \notin Under(p)
             /\ cursor' = [cursor EXCEPT ![p] = i + 1]
             /\ \/ row # None /\ StagePut(k, row)
                \/ row = None /\ StageDelete(k)
             /\ observed' = [observed EXCEPT ![k] = row]
             /\ pending' = (IF Changed(k, row) THEN pending \cup {k} ELSE pending)
             /\ revision' = MaxOf(revision, i)
    /\ UNCHANGED <<history, build, fetched, read, snapshot, applied, filtered, shown,
                   version, faults, restarts, cvars>>

\* The window closes: one publication, one status, one cache image.
PublishBatch ==
    /\ phase = "stage" /\ phase' = "watch"
    /\ snapshot' = staged
    /\ applied' = MaxOf(applied, revision)
    /\ publish_served(observed, stale, rejected, pending)
    /\ \/ dirty /\ Capture(Image(observed, stale, revision, staged, build))
       \/ ~dirty /\ UNCHANGED cvars
    /\ dirty' = FALSE /\ batch' = 0
    /\ UNCHANGED <<history, build, fetched, read, cursor, observed, staged, stale,
                   rejected, revision, faults, restarts>>

-----------------------------------------------------------------------------
(* The process. *)

\* Cancelled at an await: the loop returns and run drains the cache writes.
Stop ==
    /\ phase \in {"read_env", "read_global", "open_env", "open_global", "watch"}
    /\ restarts < MaxRestarts
    /\ phase' = "drain"
    /\ UNCHANGED <<history, build, fetched, read, cursor, state, faults, restarts, cvars>>

Gone ==
    /\ phase' = "down" /\ restarts' = restarts + 1
    /\ fetched' = Nothing /\ read' = [p \in Prefixes |-> None]
    /\ cursor' = [p \in Prefixes |-> None]
    /\ observed' = Nothing /\ snapshot' = Nothing /\ staged' = Nothing
    /\ stale' = Nothing /\ rejected' = {}
    /\ revision' = 0 /\ applied' = 0 /\ batch' = 0 /\ dirty' = FALSE
    /\ pending' = {} /\ filtered' = {} /\ shown' = Nothing /\ version' = 0
    /\ Forget
    /\ UNCHANGED <<history, build, faults>>

Drained == phase = "drain" /\ writes = {} /\ Gone

\* A kill, or a drain that times out.
Crash == phase # "down" /\ restarts < MaxRestarts /\ Gone

\* The highest revision of an entry, 0 without entries.
HighestRev(rows) ==
    LET top == {n \in 0..MaxWrites : /\ \E k \in Keys : rows[k] # None /\ rows[k].rev = n
                                     /\ \A k \in Keys : rows[k] = None \/ rows[k].rev <= n}
    IN  IF top = {} THEN 0 ELSE CHOOSE n \in top : TRUE

\* restore_from_cache, then the first cycle.
Boot ==
    /\ phase = "down" /\ phase' = "read_env"
    /\ build' \in Builds
    /\ \/ /\ disk = None
          /\ UNCHANGED <<state, cvars>>
       \/ /\ disk # None
          /\ Resync(disk.rows, disk.pins, Nothing, Nothing, HighestRev(disk.rows), build')
          /\ applied' = HighestRev(disk.rows)
          /\ revision' = disk.revision
          /\ UNCHANGED <<batch, dirty>>
    /\ UNCHANGED <<history, fetched, read, cursor, faults, restarts>>

-----------------------------------------------------------------------------
Init ==
    /\ history = <<>>
    /\ phase = "down" /\ build = (CHOOSE b \in Builds : TRUE)
    /\ fetched = Nothing
    /\ read = [p \in Prefixes |-> None] /\ cursor = [p \in Prefixes |-> None]
    /\ observed = Nothing /\ snapshot = Nothing /\ staged = Nothing
    /\ stale = Nothing /\ rejected = {}
    /\ revision = 0 /\ applied = 0 /\ batch = 0 /\ dirty = FALSE
    /\ pending = {} /\ filtered = {} /\ shown = Nothing /\ version = 0
    /\ faults = 0 /\ restarts = 0
    /\ CacheInit

Cycle == \/ ReadEnv \/ ReadGlobal \/ RefuseGlobal \/ ReadFails
         \/ OpenEnv \/ OpenGlobal \/ RefuseWatch \/ OpenFails

CacheTask == CacheStep /\ UNCHANGED <<history, phase, build, fetched, read, cursor,
                                      state, faults, restarts>>

Next ==
    \/ \E k \in Keys, v \in Values \cup {None} : EtcdWrite(k, v)
    \/ Cycle
    \/ \E p \in Prefixes : StreamEnds(p) \/ Receive(p)
    \/ PublishBatch
    \/ Stop \/ Drained \/ Crash \/ Boot
    \/ CacheTask

Spec == Init /\ [][Next]_vars

\* The watch task runs (its calls are bounded by timeouts), and so do the tasks
\* it spawned; a process that ended is started again.
FairSpec == /\ Spec
            /\ WF_vars(Cycle) /\ WF_vars(Boot) /\ WF_vars(Drained)
            /\ WF_vars(PublishBatch) /\ WF_vars(CacheTask)
            /\ \A p \in Prefixes : WF_vars(Receive(p))

-----------------------------------------------------------------------------
(* Correctness. *)

Row == [val : Values, rev : Nat]
Rows == [Keys -> Row \cup {None}]
Images == [rows : Rows, pins : Rows, revision : Nat, served : Rows, build : Builds]

ASSUME NoneAssumption == None \notin Images

Phases == {"down", "read_env", "read_global", "open_env", "open_global", "watch",
           "stage", "drain"}

\* Type correctness of the watch and its cache.
TypeOK ==
    /\ history \in Seq([key : Keys, val : Values \cup {None}])
    /\ phase \in Phases /\ build \in Builds
    /\ read \in [Prefixes -> Nat \cup {None}]
    /\ cursor \in [Prefixes -> Nat \cup {None}]
    /\ fetched \in Rows /\ observed \in Rows /\ snapshot \in Rows
    /\ staged \in Rows /\ stale \in Rows
    /\ rejected \subseteq Keys /\ pending \subseteq Keys /\ filtered \subseteq Keys
    /\ shown \in [Keys -> Values \cup {None}]
    /\ version \in {0, 1} /\ dirty \in BOOLEAN
    /\ revision \in Nat /\ applied \in Nat
    /\ batch \in 0..MaxBatch
    /\ faults \in 0..MaxFaults /\ restarts \in Nat
    /\ next_ticket \in Nat /\ committed \in Nat /\ failed \in Nat
    /\ \A w \in writes : w.ticket \in 1..next_ticket /\ w.image \in Images
    /\ writing = None \/ writing \in writes
    /\ disk = None \/ disk \in Images

\* What is published is what the books say is served: the pinned row of a
\* rejected key, nothing for a rejected key without a pin, the observed row of
\* every other; so config_hash describes the snapshot.  A pin always loads.
ServedIsAccounted ==
    phase \notin {"down", "stage"} =>
        \A k \in Keys :
            /\ snapshot[k] = (IF stale[k] # None THEN stale[k]
                              ELSE IF k \in rejected THEN None ELSE observed[k])
            /\ stale[k] # None => k \in rejected /\ observed[k] # None /\ Loadable(stale[k])

\* A gateway of the same build that starts from any image that is or may get on
\* disk serves exactly what the gateway that captured it served, last good
\* values of rejected keys included.
RestartServesSame ==
    \A c \in {w.image : w \in writes} \cup ({disk} \ {None}) :
        Built(c.rows, Pins(c.rows, c.pins, Nothing, Nothing, c.build), c.build) = c.served

\* When no write is outstanding the file holds what the gateway observes and
\* pins, unless the write of the last apply failed: no late write of an earlier
\* apply stays on disk, and a drained stop persists the last apply.
CacheIsCurrent ==
    (phase \notin {"down", "stage"} /\ writes = {} /\ next_ticket > 0
       /\ failed # next_ticket) =>
        disk # None /\ disk.rows = observed /\ disk.pins = stale

ValuesOf(snap) == [k \in Keys |-> IF snap[k] = None THEN None ELSE snap[k].val]

\* served_version (apply_seq is built on it) moves with the bytes in force and
\* with nothing else, although only changed keys are compared.
VersionTellsServed ==
    [][(phase # "down" /\ phase' # "down") =>
          (version' # version <=> ValuesOf(snapshot') # ValuesOf(snapshot))]_vars

\* A running gateway never goes back to an earlier write of a key.
NeverOlder ==
    [][\A k \in Keys : (phase' # "down" /\ observed[k] # None /\ observed'[k] # None) =>
          observed'[k].rev >= observed[k].rev]_vars

\* A gateway that reports applied_revision >= r has seen write r (of a prefix it
\* is allowed to read).  It holds of one prefix; with two streams the code does
\* not keep it (README, section 6).
AppliedIsSeen ==
    phase # "down" =>
        \A k \in Keys : (k \in EnvKeys \/ read["global"] # None) =>
            \E r \in applied..head : observed[k] = RowAt(k, r)

\* The gateway keeps catching up with etcd: it observes every key as etcd has
\* it, a catalog that is refused excepted.
Converges ==
    \A k \in Keys : []<>(\/ observed[k] = RowAt(k, head)
                         \/ k \notin EnvKeys /\ phase = "watch" /\ cursor["global"] = None)
=============================================================================
