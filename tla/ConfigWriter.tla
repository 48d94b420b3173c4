---------------------------- MODULE ConfigWriter ----------------------------
(***************************************************************************)
(* The processes that write the gateway's resources.yaml, and the gateway  *)
(* that reads it:                                                          *)
(*   - the portal: Writer::edit (mint, revoke, key switch), read-modify-   *)
(*     write with a re-read under the file lock and up to MaxTries tries;  *)
(*   - the console: save_resources, a whole document with the version it   *)
(*     was edited from, validated, written, signalled, confirmed and put   *)
(*     back when the gateway refuses it;                                   *)
(*   - the gateway: file_reload_loop, one reload per (coalesced) SIGHUP.   *)
(* A document is the set of its marks, one per change; a mark's kind says  *)
(* which loader takes a document that has it.                              *)
(***************************************************************************)
EXTENDS Naturals

CONSTANTS
    Hosts,      \* writer processes (each has one in-process mutex)
    Edits,      \* calls of Writer::edit
    Saves,      \* calls of save_resources
    Blind,      \* the saves that send no base_version
    Host,       \* Host[o]: the process call o runs in
    Marks,
    Kind,       \* Kind[m]: who loads a document with mark m, see Kinds
    Changes,    \* Changes[o]: the changes call o may ask for
    InitDocs,   \* documents the file may hold at first
    MaxTries,   \* attempts of one edit
    MaxRestarts,\* bound: gateway deaths
    MaxCrashes, \* bound: writer process deaths
    None

Ops == Edits \cup Saves
Docs == SUBSET Marks

\* "good": every loader takes it; "bad": none does.  The others need an
\* environment variable that is set nowhere ("missing"), only for the gateway
\* ("gateway") or only for the console ("console").
Kinds == {"good", "bad", "missing", "gateway", "console"}

ASSUME ConfigAssumption ==
    /\ Edits \cap Saves = {}
    /\ Blind \subseteq Saves
    /\ Host \in [Ops -> Hosts]
    /\ Kind \in [Marks -> Kinds]
    /\ Changes \in [Ops -> SUBSET [removes : Docs, adds : Docs]]
    /\ InitDocs \subseteq Docs
    /\ MaxTries \in Nat \ {0}
    /\ MaxRestarts \in Nat /\ MaxCrashes \in Nat
    /\ None \notin Ops /\ \A d \in Docs : None # d
    /\ \A d \in Docs, e \in Docs : None \notin {[from |-> d, to |-> e], [from |-> None, to |-> e]}

VARIABLES
    file,       \* the document in resources.yaml
    flock,      \* the call that holds resources.yaml.lock, or None
    mutex,      \* mutex[h]: the call that holds process h's write mutex, or None
    pc,         \* pc[o]: where call o is
    result,     \* result[o]: how call o ended, "none" before
    before,     \* before[o]: the document o changes from (edit: `before`,
                \* save: the version sent, then `previous`, None if unread)
    after,      \* after[o]: the document o writes
    tries,      \* tries[o]: attempts of an edit
    trust,      \* trust[o]: trust_baseline of a save
    written,    \* written[o]: o's document was renamed into place and not put back
    up, pending,\* the gateway runs; a SIGHUP it has not consumed yet
    reload,     \* where its reload is: "none", "begun", "read", "store"
    loading,    \* the document the reload read, {} outside it
    source, config, served, \* source_hash, config_hash, the snapshot in force
    unsignalled,\* history: the last rename was not followed by a signal that arrived
    failed,     \* history: the last reload ended without recording the file
    restarts, crashes

wvars == <<flock, mutex, pc, result, before, after, tries, trust, written>>
gvars == <<up, pending, reload, loading, source, config, served, failed, restarts>>
vars == <<file, wvars, gvars, unsignalled, crashes>>

\* The documents call o may make of document d.
Edited(o, d) == {(d \ c.removes) \cup c.adds : c \in Changes[o]}

\* filesource::load_from_str with the gateway's own environment.
GatewayLoads(d) == \A m \in d : Kind[m] \in {"good", "gateway"}

\* The same loader in the portal: the variables the old file names are taken as
\* set, new ones as unset.
PortalLoads(d, known) ==
    \A m \in d : Kind[m] = "good" \/ (Kind[m] # "bad" /\ m \in known)

\* Only a change that turns a file that loads into one that does not is refused.
breaks_gateway(old, new) == PortalLoads(old, old) /\ ~PortalLoads(new, old)

\* `aisix validate`, in the console's environment; with --baseline, variables of
\* the current file are taken as set.
Validates(d, trusted) ==
    \A m \in d : \/ Kind[m] \in {"good", "console"}
                 \/ Kind[m] # "bad" /\ trusted /\ m \in file

\* gateway_rejected: the gateway answers, has read d and is not using it.
gateway_rejected(d) == up /\ source = d /\ config # d

Init ==
    /\ file \in InitDocs
    /\ flock = None
    /\ mutex = [h \in Hosts |-> None]
    /\ pc = [o \in Ops |-> "idle"]
    /\ result = [o \in Ops |-> "none"]
    /\ before = [o \in Ops |-> {}]
    /\ after = [o \in Ops |-> {}]
    /\ tries = [o \in Ops |-> 0]
    /\ trust = [o \in Ops |-> TRUE]
    /\ written = [o \in Ops |-> FALSE]
    \* A gateway in service has read the file; a file it refuses left it with an
    \* older document (here the empty one).
    /\ up = TRUE /\ pending = FALSE /\ reload = "none" /\ loading = {}
    /\ source = file
    /\ config = (IF GatewayLoads(file) THEN file ELSE {})
    /\ served = config
    /\ unsignalled = FALSE /\ failed = FALSE
    /\ restarts = 0 /\ crashes = 0

Goto(o, from, to) == pc[o] = from /\ pc' = [pc EXCEPT ![o] = to]

\* The call returns r: its guards drop, freeing the file lock and the mutex.
Return(o, r) ==
    /\ pc' = [pc EXCEPT ![o] = "end"]
    /\ result' = [result EXCEPT ![o] = r]
    /\ flock' = (IF flock = o THEN None ELSE flock)
    /\ mutex' = [h \in Hosts |-> IF mutex[h] = o THEN None ELSE mutex[h]]

-----------------------------------------------------------------------------
(* Steps common to both writers. *)

\* lock_for_write: try_lock every 50 ms.
LockFile(o, to) ==
    /\ Goto(o, "lock", to)
    /\ flock = None /\ flock' = o
    /\ UNCHANGED <<file, mutex, result, before, after, tries, trust, written,
                   gvars, unsignalled, crashes>>

\* rename(tmp, resources.yaml): readers see the whole old or new document.
Rename(o, d) ==
    /\ file' = d
    /\ unsignalled' = TRUE

\* pkill -HUP -x aisix: a running gateway gets the signal (signals that are not
\* consumed yet coalesce); it fails when no gateway runs, or by itself.
SignalArrives == up /\ pending' = TRUE /\ unsignalled' = FALSE
SignalFails == UNCHANGED <<pending, unsignalled>>

-----------------------------------------------------------------------------
(* Portal: Writer::edit. *)

EditCall(o) ==
    /\ Goto(o, "idle", "read")
    /\ mutex[Host[o]] = None /\ mutex' = [mutex EXCEPT ![Host[o]] = o]
    /\ UNCHANGED <<file, flock, result, before, after, tries, trust, written,
                   gvars, unsignalled, crashes>>

\* Read the file and run the closure on it; no lock is held.
EditRead(o) ==
    /\ pc[o] = "read"
    /\ before' = [before EXCEPT ![o] = file]
    /\ \E d \in Edited(o, file) :
         /\ after' = [after EXCEPT ![o] = d]
         /\ \/ /\ d = file
               /\ Return(o, "unchanged")
            \/ /\ d # file
               /\ pc' = [pc EXCEPT ![o] = "lock"]
               /\ UNCHANGED <<result, flock, mutex>>
    /\ UNCHANGED <<file, tries, trust, written, gvars, unsignalled, crashes>>

EditLock(o) == LockFile(o, "check")

\* Mutant: the file is not read again under the lock.
EditCheckOnce(o) ==
    /\ pc[o] = "check"
    /\ \/ /\ breaks_gateway(before[o], after[o])
          /\ Return(o, "failed")
       \/ /\ ~breaks_gateway(before[o], after[o])
          /\ pc' = [pc EXCEPT ![o] = "write"]
          /\ UNCHANGED <<flock, result, mutex>>
    /\ UNCHANGED <<file, before, after, tries, trust, written, gvars, unsignalled, crashes>>

\* Under the lock: changed since the read, so drop the lock and start over, at
\* most MaxTries times in all; refuse to break the gateway; else write.
EditCheck(o) ==
    /\ pc[o] = "check"
    /\ \/ /\ file # before[o] /\ tries[o] + 1 < MaxTries
          /\ tries' = [tries EXCEPT ![o] = @ + 1]
          /\ pc' = [pc EXCEPT ![o] = "read"]
          /\ flock' = None
          /\ UNCHANGED <<result, mutex>>
       \/ /\ file # before[o] /\ tries[o] + 1 = MaxTries
          /\ Return(o, "failed")
          /\ UNCHANGED tries
       \/ /\ file = before[o] /\ breaks_gateway(before[o], after[o])
          /\ Return(o, "failed")
          /\ UNCHANGED tries
       \/ /\ file = before[o] /\ ~breaks_gateway(before[o], after[o])
          /\ pc' = [pc EXCEPT ![o] = "write"]
          /\ UNCHANGED <<tries, flock, result, mutex>>
    /\ UNCHANGED <<file, before, after, trust, written, gvars, unsignalled, crashes>>

\* write_atomic
EditWrite(o) ==
    /\ Goto(o, "write", "signal")
    /\ Rename(o, after[o])
    /\ written' = [written EXCEPT ![o] = TRUE]
    /\ UNCHANGED <<flock, mutex, result, before, after, tries, trust, gvars, crashes>>

\* A signal that is not delivered is only logged.
EditSignal(o) ==
    /\ pc[o] = "signal"
    /\ SignalArrives \/ SignalFails
    /\ Return(o, "done")
    /\ UNCHANGED <<file, before, after, tries, trust, written,
                   up, reload, loading, source, config, served, failed, restarts, crashes>>

\* Io and Parse errors, and the lock not had for FILE_LOCK_WAIT.
EditGivesUp(o) ==
    /\ pc[o] \in {"read", "lock", "check", "write"}
    /\ Return(o, "failed")
    /\ UNCHANGED <<file, before, after, tries, trust, written, gvars, unsignalled, crashes>>

EditStep(o) == EditRead(o) \/ EditLock(o) \/ EditCheck(o) \/ EditWrite(o)
               \/ EditSignal(o) \/ EditGivesUp(o)

-----------------------------------------------------------------------------
(* Console: save_resources. *)

\* The interface reads the document (and its version) and edits it.
SaveOpen(o) ==
    /\ Goto(o, "idle", "opened")
    /\ before' = [before EXCEPT ![o] = file]
    /\ \E d \in Edited(o, file) : after' = [after EXCEPT ![o] = d]
    /\ UNCHANGED <<file, flock, mutex, result, tries, trust, written,
                   gvars, unsignalled, crashes>>

SaveCall(o) ==
    /\ Goto(o, "opened", "lock")
    /\ mutex[Host[o]] = None /\ mutex' = [mutex EXCEPT ![Host[o]] = o]
    /\ UNCHANGED <<file, flock, result, before, after, tries, trust, written,
                   gvars, unsignalled, crashes>>

SaveLock(o) == LockFile(o, "stale")

\* stale_write: a base_version must be the current file's; the file is kept as
\* `previous`.  A file that cannot be read is not compared: there is no
\* `previous`, and the baseline counts as trusted.
SaveCompare(o) ==
    /\ pc[o] = "stale"
    /\ \/ /\ o \notin Blind /\ before[o] # file
          /\ Return(o, "failed")
          /\ UNCHANGED before
       \/ /\ o \in Blind \/ before[o] = file
          /\ before' = [before EXCEPT ![o] = file]
          /\ pc' = [pc EXCEPT ![o] = "trust"]
          /\ UNCHANGED <<flock, mutex, result>>
       \/ /\ before' = [before EXCEPT ![o] = None]
          /\ pc' = [pc EXCEPT ![o] = "validate"]
          /\ UNCHANGED <<flock, mutex, result>>
    /\ UNCHANGED <<file, after, tries, trust, written, gvars, unsignalled, crashes>>

\* An unanswered status query counts as "not rejected".
SaveTrust(o) ==
    /\ Goto(o, "trust", "validate")
    /\ \E t \in {~gateway_rejected(before[o]), TRUE} : trust' = [trust EXCEPT ![o] = t]
    /\ UNCHANGED <<file, flock, mutex, result, before, after, tries, written,
                   gvars, unsignalled, crashes>>

SaveValidate(o) ==
    /\ pc[o] = "validate"
    /\ \/ /\ Validates(after[o], trust[o])
          /\ pc' = [pc EXCEPT ![o] = "write"]
          /\ UNCHANGED <<flock, mutex, result>>
       \/ /\ ~Validates(after[o], trust[o])
          /\ Return(o, "failed")
    /\ UNCHANGED <<file, before, after, tries, trust, written, gvars, unsignalled, crashes>>

SaveWrite(o) ==
    /\ Goto(o, "write", "signal")
    /\ Rename(o, after[o])
    /\ written' = [written EXCEPT ![o] = TRUE]
    /\ UNCHANGED <<flock, mutex, result, before, after, tries, trust, gvars, crashes>>

SaveSignal(o) ==
    /\ pc[o] = "signal"
    /\ \/ /\ SignalArrives
          /\ pc' = [pc EXCEPT ![o] = "confirm"]
          /\ UNCHANGED <<result, flock, mutex>>
       \/ SignalFails /\ Return(o, "signal_failed")
    /\ UNCHANGED <<file, before, after, tries, trust, written,
                   up, reload, loading, source, config, served, failed, restarts, crashes>>

\* Mutant: no deadline.
SaveConfirmForever(o) ==
    /\ pc[o] = "confirm"
    /\ \/ /\ up /\ source = after[o] /\ config = after[o]
          /\ Return(o, "applied")
       \/ /\ gateway_rejected(after[o])
          /\ pc' = [pc EXCEPT ![o] = "restore"]
          /\ UNCHANGED <<result, flock, mutex>>
    /\ UNCHANGED <<file, before, after, tries, trust, written, gvars, unsignalled, crashes>>

\* confirm_reload: wait until the gateway reports having read this document.
SaveConfirm(o) ==
    /\ pc[o] = "confirm"
    /\ \/ /\ up /\ source = after[o] /\ config = after[o]
          /\ Return(o, "applied")
       \/ /\ gateway_rejected(after[o])
          /\ pc' = [pc EXCEPT ![o] = "restore"]
          /\ UNCHANGED <<result, flock, mutex>>
       \/ Return(o, "unconfirmed")
    /\ UNCHANGED <<file, before, after, tries, trust, written, gvars, unsignalled, crashes>>

\* Mutant: the save says it was taken back, and the file is left as it is.
SaveRestoreForgets(o) ==
    /\ Goto(o, "restore", "resignal")
    /\ written' = [written EXCEPT ![o] = FALSE]
    /\ UNCHANGED <<file, unsignalled, flock, mutex, result, before, after, tries, trust, gvars, crashes>>

\* Rejected: put `previous` back, if there is one and the file can be replaced.
SaveRestore(o) ==
    /\ pc[o] = "restore"
    /\ \/ /\ before[o] # None
          /\ Rename(o, before[o])
          /\ written' = [written EXCEPT ![o] = FALSE]
          /\ pc' = [pc EXCEPT ![o] = "resignal"]
          /\ UNCHANGED <<result, flock, mutex>>
       \/ Return(o, "left") /\ UNCHANGED <<file, unsignalled, written>>
    /\ UNCHANGED <<before, after, tries, trust, gvars, crashes>>

\* Signal again; whether that one is confirmed only words the error.
SaveResignal(o) ==
    /\ pc[o] = "resignal"
    /\ SignalArrives \/ SignalFails
    /\ Return(o, "rejected")
    /\ UNCHANGED <<file, before, after, tries, trust, written,
                   up, reload, loading, source, config, served, failed, restarts, crashes>>

\* The lock is not had in time, the temporary file cannot be written, validate
\* cannot run or cannot read its baseline, or the file is not replaced.
SaveGivesUp(o) ==
    /\ pc[o] \in {"lock", "validate", "write"}
    /\ Return(o, "failed")
    /\ UNCHANGED <<file, before, after, tries, trust, written, gvars, unsignalled, crashes>>

SaveStep(o) == SaveCall(o) \/ SaveLock(o) \/ SaveCompare(o) \/ SaveTrust(o)
               \/ SaveValidate(o) \/ SaveWrite(o) \/ SaveSignal(o) \/ SaveConfirm(o)
               \/ SaveRestore(o) \/ SaveResignal(o) \/ SaveGivesUp(o)

\* A writer process dies: the call it runs ends without an answer, and the
\* system frees its locks.  (A death between calls changes nothing.)
WriterDies(h) ==
    /\ crashes < MaxCrashes
    /\ crashes' = crashes + 1
    /\ mutex[h] # None
    /\ Return(mutex[h], "dead")
    /\ UNCHANGED <<file, before, after, tries, trust, written, gvars, unsignalled>>

-----------------------------------------------------------------------------
(* Gateway: file_reload_loop and load_resources_file_tracked. *)

\* hup.recv(): the load starts.
ReloadBegin ==
    /\ up /\ pending /\ reload = "none"
    /\ pending' = FALSE /\ reload' = "begun" /\ failed' = FALSE
    /\ UNCHANGED <<file, wvars, up, loading, source, config, served, unsignalled, restarts, crashes>>

ReloadRead ==
    /\ up /\ reload = "begun"
    /\ loading' = file /\ reload' = "read"
    /\ UNCHANGED <<file, wvars, up, pending, source, config, served, unsignalled,
                   failed, restarts, crashes>>

\* The file cannot be read (record_fetch_failure), or the task that loads it
\* ends without a result: what was in force stays, and the signal is used up.
ReloadFails ==
    /\ up /\ reload \in {"begun", "read"}
    /\ reload' = "none" /\ loading' = {} /\ failed' = TRUE
    /\ UNCHANGED <<file, wvars, up, pending, source, config, served, unsignalled,
                   restarts, crashes>>

\* Mutant: a file that does not load is tried again and not recorded.
ReloadRecordRetries ==
    /\ up /\ reload = "read"
    /\ \/ /\ GatewayLoads(loading)
          /\ source' = loading /\ config' = loading /\ reload' = "store"
       \/ /\ ~GatewayLoads(loading)
          /\ UNCHANGED <<source, config>> /\ reload' = "begun"
    /\ UNCHANGED <<file, wvars, up, pending, loading, served, unsignalled, failed, restarts, crashes>>

\* record_load: what was read, and what is in use when it loads.
ReloadRecord ==
    /\ up /\ reload = "read"
    /\ source' = loading
    /\ \/ /\ GatewayLoads(loading)
          /\ config' = loading /\ reload' = "store" /\ UNCHANGED loading
       \/ /\ ~GatewayLoads(loading)
          /\ UNCHANGED config /\ reload' = "none" /\ loading' = {}
    /\ UNCHANGED <<file, wvars, up, pending, served, unsignalled, failed, restarts, crashes>>

\* Mutant: signals that came during the load are taken as answered by it.
ReloadStoreDrains ==
    /\ up /\ reload = "store"
    /\ served' = loading /\ reload' = "none" /\ loading' = {} /\ pending' = FALSE
    /\ UNCHANGED <<file, wvars, up, source, config, unsignalled, failed, restarts, crashes>>

\* Mutant: the loaded snapshot is dropped.
ReloadStoreForgets ==
    /\ up /\ reload = "store"
    /\ reload' = "none" /\ loading' = {}
    /\ UNCHANGED <<file, wvars, up, pending, source, config, served, unsignalled,
                   failed, restarts, crashes>>

\* handle.store(snapshot)
ReloadStore ==
    /\ up /\ reload = "store"
    /\ served' = loading /\ reload' = "none" /\ loading' = {}
    /\ UNCHANGED <<file, wvars, up, pending, source, config, unsignalled, failed, restarts, crashes>>

\* What the gateway keeps is in memory.
GatewayDies ==
    /\ up /\ restarts < MaxRestarts
    /\ up' = FALSE /\ pending' = FALSE /\ reload' = "none" /\ loading' = {}
    /\ source' = {} /\ config' = {} /\ served' = {} /\ failed' = FALSE
    /\ restarts' = restarts + 1
    /\ UNCHANGED <<file, wvars, unsignalled, crashes>>

\* A boot loads the file or the process exits.
GatewayBoots ==
    /\ ~up /\ GatewayLoads(file)
    /\ up' = TRUE
    /\ source' = file /\ config' = file /\ served' = file
    /\ unsignalled' = FALSE
    /\ UNCHANGED <<file, wvars, pending, reload, loading, failed, restarts, crashes>>

ReloadStep == ReloadBegin \/ ReloadRead \/ ReloadFails \/ ReloadRecord \/ ReloadStore

GatewayStep == ReloadStep \/ GatewayBoots

Next ==
    \/ \E o \in Edits : EditCall(o) \/ EditStep(o)
    \/ \E o \in Saves : SaveOpen(o) \/ SaveStep(o)
    \/ \E h \in Hosts : WriterDies(h)
    \/ GatewayStep \/ GatewayDies

Spec == Init /\ [][Next]_vars

\* Tasks that are running keep running; nobody has to call, die or reboot.
FairSpec == /\ Spec
            /\ \A o \in Edits : WF_vars(EditStep(o))
            /\ \A o \in Saves : WF_vars(SaveStep(o))
            /\ WF_vars(ReloadStep)

-----------------------------------------------------------------------------
(* Correctness. *)

EditLocs == {"idle", "read", "lock", "check", "write", "signal", "end"}
SaveLocs == {"idle", "opened", "lock", "stale", "trust", "validate", "write",
             "signal", "confirm", "restore", "resignal", "end"}
Results == {"none", "done", "unchanged", "failed", "signal_failed", "applied",
            "unconfirmed", "left", "rejected", "dead"}

\* Type correctness of the writers and the gateway.
TypeOK ==
    /\ file \in Docs
    /\ flock \in Ops \cup {None}
    /\ mutex \in [Hosts -> Ops \cup {None}]
    /\ pc \in [Ops -> EditLocs \cup SaveLocs]
    /\ \A o \in Edits : pc[o] \in EditLocs
    /\ \A o \in Saves : pc[o] \in SaveLocs
    /\ result \in [Ops -> Results]
    /\ before \in [Ops -> Docs \cup {None}] /\ after \in [Ops -> Docs]
    /\ tries \in [Ops -> 0..(MaxTries - 1)]
    /\ trust \in [Ops -> BOOLEAN] /\ written \in [Ops -> BOOLEAN]
    /\ up \in BOOLEAN /\ pending \in BOOLEAN /\ unsignalled \in BOOLEAN
    /\ failed \in BOOLEAN
    /\ reload \in {"none", "begun", "read", "store"}
    /\ loading \in Docs /\ source \in Docs /\ config \in Docs /\ served \in Docs
    /\ restarts \in 0..MaxRestarts /\ crashes \in 0..MaxCrashes

\* What a call of either writer has told its caller, in the words of ConfigFile.
ReportOf(r) ==
    IF r \in {"done", "signal_failed", "applied", "unconfirmed"} THEN "done"
    ELSE IF r = "rejected" THEN "failed" ELSE r

Promised == INSTANCE ConfigFile WITH
    Whole <- Saves,
    doc <- file,
    change <- [o \in Ops |-> IF written[o] THEN [from |-> before[o], to |-> after[o]]
                             ELSE None],
    report <- [o \in Ops |-> ReportOf(result[o])]

\* The portal's read-modify-write and the console's save, run by any number of
\* processes that may die, change the document one whole change at a time: no
\* revocation or fresh key is overwritten by a writer that did not see it, save
\* by one that sent no version or could not read the file; a put-back takes away
\* nothing but the refused save; and every answer says truly whether the change
\* is on disk.
EditsAreAtomic == Promised!Spec

\* What the comment on the console's unread file takes for granted (main.rs:
\* 898-899): the save then fails by itself.  It does not hold, see the README:
\* the rename needs no readable file.
UnreadSaveFails == \A o \in Saves : written[o] => before[o] # None

\* The last reload failed, and nothing has asked for another one.
ReloadGaveUp == failed /\ reload = "none" /\ ~pending

\* A gateway in service that has neither the file's content nor a reload under
\* way missed a signal or failed its last reload: no rename is overtaken by the
\* reload it asks for, and a failed reload is over when the next signal comes.
ReloadSeesFile ==
    (up /\ ~unsignalled) => \/ pending
                            \/ reload = "begun" \/ (reload = "read" /\ loading = file)
                            \/ reload \in {"none", "store"} /\ source = file
                            \/ ReloadGaveUp

\* A save that says "applied" tells the truth when it says it: the gateway has
\* recorded this document, the file still holds it, and it is in force or being
\* put in force.
AppliedIsTrue ==
    [][\A o \in Saves : (result[o] # "applied" /\ result'[o] = "applied") =>
          file = after[o] /\ config = after[o]
          /\ (served = after[o] \/ reload = "store")]_vars

\* A mark the gateway refuses is in the file only if an operator left it there
\* before, or a save is between its rename and its put-back, or a save ended
\* without a clean answer and said so (or died), or the file did not load for
\* the portal when it wrote (then it writes rather than keep keys switched on).
RefusedFileIsAdmitted ==
    \A m \in file : Kind[m] \notin {"good", "gateway"} =>
        \/ \E d \in InitDocs : m \in d
        \/ \E o \in Saves :
             /\ m \in after[o]
             /\ \/ pc[o] \in {"signal", "confirm", "restore"}
                \/ result[o] \in {"signal_failed", "unconfirmed", "left", "dead"}
        \/ \E o \in Edits : m \in after[o] \ before[o] /\ written[o] /\ ~PortalLoads(before[o], before[o])

\* Every call comes back, whatever the others do or die of.
EveryCallReturns ==
    /\ \A o \in Edits : (pc[o] = "read") ~> (pc[o] = "end")
    /\ \A o \in Saves : (pc[o] = "opened") ~> (pc[o] = "end")

\* A gateway that is signalled after a rename ends up having read the file as it
\* is, unless it dies, the reload fails or a later rename goes unsignalled.
FileIsRead ==
    (up /\ ~unsignalled) ~> (source = file \/ ~up \/ unsignalled \/ ReloadGaveUp)
=============================================================================
