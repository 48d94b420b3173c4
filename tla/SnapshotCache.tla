--------------------------- MODULE SnapshotCache ----------------------------
(***************************************************************************)
(* The gateway's on-disk snapshot cache.  Every apply captures an image of *)
(* the configuration under a ticket and spawns a task that writes it; the  *)
(* tasks reach the file in any order.                                      *)
(***************************************************************************)
EXTENDS Naturals

CONSTANTS CacheEnabled, None

ASSUME CacheAssumption == CacheEnabled \in BOOLEAN

VARIABLES
    next_ticket,    \* the last ticket handed out, 0 before the first
    committed,      \* the ticket of the last write that reached the file
    failed,         \* history: the ticket of the last write that failed
    writes,         \* the write tasks that have not ended: [ticket, image]
    writing,        \* the task that holds write_lock and writes, or None
    disk            \* the image in the file, None before the first write

cvars == <<next_ticket, committed, failed, writes, writing, disk>>

CacheInit ==
    /\ next_ticket = 0 /\ committed = 0 /\ failed = 0
    /\ writes = {} /\ writing = None
    /\ disk = None

\* flush_cache: take a ticket while the image is captured and spawn its write.
Capture(image) ==
    \/ /\ CacheEnabled
       /\ next_ticket' = next_ticket + 1
       /\ writes' = writes \cup {[ticket |-> next_ticket + 1, image |-> image]}
       /\ UNCHANGED <<committed, failed, writing, disk>>
    \/ ~CacheEnabled /\ UNCHANGED cvars

\* Mutant: only what is already on disk stops a write.
SupersededByNone(w) == FALSE

\* store_encoded: a later image is on disk, or on its way.
Superseded(w) == w.ticket <= committed \/ next_ticket > w.ticket

StandDown(w) ==
    /\ writing = None
    /\ Superseded(w)
    /\ writes' = writes \ {w}
    /\ UNCHANGED <<next_ticket, committed, failed, writing, disk>>

WriteBegin(w) ==
    /\ writing = None
    /\ ~Superseded(w)
    /\ writing' = w
    /\ UNCHANGED <<next_ticket, committed, failed, writes, disk>>

\* The rename of atomic_write: the whole image, or nothing.
WriteCommit ==
    /\ writing # None
    /\ disk' = writing.image
    /\ committed' = writing.ticket
    /\ writes' = writes \ {writing}
    /\ writing' = None
    /\ UNCHANGED <<next_ticket, failed>>

\* An error is logged, and nothing is tried again until the next apply.
WriteFails ==
    /\ writing # None
    /\ failed' = writing.ticket
    /\ writes' = writes \ {writing}
    /\ writing' = None
    /\ UNCHANGED <<next_ticket, committed, disk>>

CacheStep == \/ \E w \in writes : StandDown(w) \/ WriteBegin(w)
             \/ WriteCommit
             \/ WriteFails

\* The process ends: its tasks with it.
Forget ==
    /\ next_ticket' = 0 /\ committed' = 0 /\ failed' = 0
    /\ writes' = {} /\ writing' = None
    /\ UNCHANGED disk
=============================================================================
