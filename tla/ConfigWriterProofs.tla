------------------------- MODULE ConfigWriterProofs -------------------------
(* Proofs about ConfigWriter, for any calls, processes, documents and bounds. *)
EXTENDS ConfigWriter, TLAPS

\* Where a call is between taking the file lock and returning.
InLock == {"check", "write", "signal", "stale", "trust", "validate", "confirm",
           "restore", "resignal"}

\* One call: it holds the file lock where it must, has an answer exactly when it
\* ended, and the documents it compares and replaces are the ones on disk.
CallInv(o) ==
    /\ pc[o] \in InLock => flock = o
    /\ (result[o] = "none") <=> (pc[o] # "end")
    /\ written[o] => pc[o] \in {"signal", "confirm", "restore", "end"}
    /\ pc[o] \in {"signal", "confirm", "restore"} => written[o] /\ file = after[o]
    /\ o \in Edits /\ pc[o] \in {"lock", "check", "write"} => after[o] \in Edited(o, before[o])
    /\ o \in Saves \ Blind /\ before[o] # None
         /\ pc[o] \in {"opened", "lock", "stale", "trust", "validate", "write"}
         => after[o] \in Edited(o, before[o])
    /\ pc[o] \in {"opened", "lock", "stale"} => before[o] # None
    /\ pc[o] \in {"trust", "validate", "write"} =>
         before[o] = file \/ (o \in Saves /\ before[o] = None)
    /\ o \in Edits => before[o] # None

\* The inductive invariant behind the refinement: every call is in order, and a
\* process's mutex is only held by a call that runs.
WriterInv ==
    /\ \A h \in Hosts : mutex[h] # None => pc[mutex[h]] \notin {"idle", "opened", "end"}
    /\ \A o \in Ops : CallInv(o)

\* Every variable keeps its type whatever the writers and the gateway do.
THEOREM TypeCorrect == Spec => []TypeOK
<1> USE ConfigAssumption
<1>1. Init => TypeOK
  <2> SUFFICES ASSUME Init PROVE TypeOK
    OBVIOUS
  <2> USE DEF Init
  <2>1. /\ trust \in [Ops -> BOOLEAN] /\ written \in [Ops -> BOOLEAN]
        /\ up \in BOOLEAN /\ pending \in BOOLEAN /\ unsignalled \in BOOLEAN
        /\ failed \in BOOLEAN
    OBVIOUS
  <2>2. /\ file \in Docs /\ {} \in Docs /\ config \in Docs
    BY DEF Docs
  <2>3. /\ flock \in Ops \cup {None} /\ mutex \in [Hosts -> Ops \cup {None}]
        /\ pc \in [Ops -> EditLocs \cup SaveLocs]
        /\ \A o \in Edits : pc[o] \in EditLocs
        /\ \A o \in Saves : pc[o] \in SaveLocs
        /\ result \in [Ops -> Results]
    BY DEF Ops, EditLocs, SaveLocs, Results
  <2> QED
    BY <2>1, <2>2, <2>3 DEF TypeOK
<1>2. TypeOK /\ [Next]_vars => TypeOK'
  <2> SUFFICES ASSUME TypeOK, [Next]_vars PROVE TypeOK'
    OBVIOUS
  <2> USE DEF TypeOK, Ops, EditLocs, SaveLocs, Results, gvars
  <2>0. \A o \in Ops, d \in Docs : Edited(o, d) \subseteq Docs
    BY DEF Edited, Docs
  <2>1. ASSUME NEW o \in Edits, EditCall(o) PROVE TypeOK'
    BY <2>1 DEF EditCall, Goto
  <2>2. ASSUME NEW o \in Edits, EditRead(o) PROVE TypeOK'
    BY <2>0, <2>2 DEF EditRead, Return
  <2>3. ASSUME NEW o \in Edits, EditLock(o) PROVE TypeOK'
    BY <2>3 DEF EditLock, LockFile, Goto
  <2>4. ASSUME NEW o \in Edits, EditCheck(o) PROVE TypeOK'
    BY <2>4 DEF EditCheck, Return
  <2>5. ASSUME NEW o \in Edits, EditWrite(o) PROVE TypeOK'
    BY <2>5 DEF EditWrite, Goto, Rename
  <2>6. ASSUME NEW o \in Edits, EditSignal(o) PROVE TypeOK'
    BY <2>6 DEF EditSignal, Return, SignalArrives, SignalFails
  <2>7. ASSUME NEW o \in Edits, EditGivesUp(o) PROVE TypeOK'
    BY <2>7 DEF EditGivesUp, Return
  <2>8. ASSUME NEW o \in Saves, SaveOpen(o) PROVE TypeOK'
    BY <2>0, <2>8 DEF SaveOpen, Goto
  <2>9. ASSUME NEW o \in Saves, SaveCall(o) PROVE TypeOK'
    BY <2>9 DEF SaveCall, Goto
  <2>10. ASSUME NEW o \in Saves, SaveLock(o) PROVE TypeOK'
    BY <2>10 DEF SaveLock, LockFile, Goto
  <2>11. ASSUME NEW o \in Saves, SaveCompare(o) PROVE TypeOK'
    BY <2>11 DEF SaveCompare, Return
  <2>12. ASSUME NEW o \in Saves, SaveTrust(o) PROVE TypeOK'
    <3>1. trust' \in [Ops -> BOOLEAN]
      <4>1. PICK t \in {~gateway_rejected(before[o]), TRUE} : trust' = [trust EXCEPT ![o] = t]
        BY <2>12 DEF SaveTrust
      <4>2. t \in BOOLEAN
        BY <4>1 DEF gateway_rejected
      <4> QED
        BY <4>1, <4>2
    <3> QED
      BY <2>12, <3>1 DEF SaveTrust, Goto
  <2>13. ASSUME NEW o \in Saves, SaveValidate(o) PROVE TypeOK'
    BY <2>13 DEF SaveValidate, Return
  <2>14. ASSUME NEW o \in Saves, SaveWrite(o) PROVE TypeOK'
    BY <2>14 DEF SaveWrite, Goto, Rename
  <2>15. ASSUME NEW o \in Saves, SaveSignal(o) PROVE TypeOK'
    <3>1. CASE SignalArrives /\ pc' = [pc EXCEPT ![o] = "confirm"] /\ UNCHANGED <<result, flock, mutex>>
      BY <2>15, <3>1 DEF SaveSignal, SignalArrives
    <3>2. CASE SignalFails /\ Return(o, "signal_failed")
      BY <2>15, <3>2 DEF SaveSignal, SignalFails, Return
    <3> QED
      BY <2>15, <3>1, <3>2 DEF SaveSignal
  <2>16. ASSUME NEW o \in Saves, SaveConfirm(o) PROVE TypeOK'
    BY <2>16 DEF SaveConfirm, Return
  <2>17. ASSUME NEW o \in Saves, SaveRestore(o) PROVE TypeOK'
    <3>1. CASE before[o] # None /\ Rename(o, before[o])
      <4>1. CASE /\ written' = [written EXCEPT ![o] = FALSE]
                 /\ pc' = [pc EXCEPT ![o] = "resignal"]
                 /\ UNCHANGED <<result, flock, mutex>>
        <5>1. written' \in [Ops -> BOOLEAN] /\ unsignalled' \in BOOLEAN /\ file' \in Docs
          BY <3>1, <4>1 DEF Rename
        <5> QED
          BY <2>17, <4>1, <5>1 DEF SaveRestore
      <4>2. CASE Return(o, "left")
        BY <2>17, <3>1, <4>2 DEF SaveRestore, Rename, Return
      <4> QED
        BY <2>17, <4>1, <4>2 DEF SaveRestore
    <3>2. CASE Return(o, "left") /\ UNCHANGED <<file, unsignalled, written>>
      BY <2>17, <3>2 DEF SaveRestore, Return
    <3> QED
      BY <2>17, <3>1, <3>2 DEF SaveRestore
  <2>18. ASSUME NEW o \in Saves, SaveResignal(o) PROVE TypeOK'
    BY <2>18 DEF SaveResignal, Return, SignalArrives, SignalFails
  <2>19. ASSUME NEW o \in Saves, SaveGivesUp(o) PROVE TypeOK'
    BY <2>19 DEF SaveGivesUp, Return
  <2>20. ASSUME NEW h \in Hosts, WriterDies(h) PROVE TypeOK'
    BY <2>20 DEF WriterDies, Return
  <2>21. CASE GatewayStep \/ GatewayDies
    <3> USE DEF wvars
    <3>0. {} \in Docs
      BY DEF Docs
    <3>1. CASE ReloadBegin
      BY <3>1 DEF ReloadBegin
    <3>2. CASE ReloadRead
      BY <3>2 DEF ReloadRead
    <3>7. CASE ReloadFails
      BY <3>0, <3>7 DEF ReloadFails
    <3>3. CASE ReloadRecord
      <4>1. CASE GatewayLoads(loading)
        BY <3>3, <4>1 DEF ReloadRecord
      <4>2. CASE ~GatewayLoads(loading)
        BY <3>0, <3>3, <4>2 DEF ReloadRecord
      <4> QED
        BY <4>1, <4>2
    <3>4. CASE ReloadStore
      BY <3>0, <3>4 DEF ReloadStore
    <3>5. CASE GatewayBoots
      BY <3>5 DEF GatewayBoots
    <3>6. CASE GatewayDies
      <4>1. up' \in BOOLEAN /\ pending' \in BOOLEAN /\ failed' \in BOOLEAN
        BY <3>6 DEF GatewayDies
      <4>2. restarts \in 0..MaxRestarts /\ restarts < MaxRestarts /\ restarts' = restarts + 1
        BY <3>6 DEF GatewayDies
      <4>3. restarts' \in 0..MaxRestarts
        BY <4>2
      <4> QED
        BY <3>0, <3>6, <4>1, <4>3 DEF GatewayDies
    <3> QED
      BY <2>21, <3>1, <3>2, <3>3, <3>4, <3>5, <3>6, <3>7 DEF GatewayStep, ReloadStep
  <2>22. CASE UNCHANGED vars
    BY <2>22 DEF vars, wvars
  <2> QED
    BY <2>1, <2>2, <2>3, <2>4, <2>5, <2>6, <2>7, <2>8, <2>9, <2>10, <2>11, <2>12,
       <2>13, <2>14, <2>15, <2>16, <2>17, <2>18, <2>19, <2>20, <2>21, <2>22
       DEF Next, EditStep, SaveStep
<1> QED
  BY <1>1, <1>2, PTL DEF Spec

-----------------------------------------------------------------------------

\* The inductive invariant holds in every reachable state.
THEOREM LocksHeld == Spec => []WriterInv
<1> USE ConfigAssumption
<1>1. Init => WriterInv
  <2>1. {} # None
    BY DEF Docs
  <2> QED
    BY <2>1 DEF Init, WriterInv, CallInv, InLock, Ops
<1>2. TypeOK /\ WriterInv /\ [Next]_vars => WriterInv'
  <2> SUFFICES ASSUME TypeOK, WriterInv, [Next]_vars PROVE WriterInv'
    OBVIOUS
  <2> USE DEF TypeOK, Ops, WriterInv, CallInv, InLock, EditLocs, SaveLocs
  <2>1. ASSUME NEW p \in Edits, EditCall(p) PROVE WriterInv'
    BY <2>1 DEF EditCall, Goto
  <2>2. ASSUME NEW p \in Edits, EditRead(p) PROVE WriterInv'
    BY <2>2 DEF EditRead, Return
  <2>3. ASSUME NEW p \in Edits, EditLock(p) PROVE WriterInv'
    BY <2>3 DEF EditLock, LockFile, Goto
  <2>4. ASSUME NEW p \in Edits, EditCheck(p) PROVE WriterInv'
    BY <2>4 DEF EditCheck, Return
  <2>5. ASSUME NEW p \in Edits, EditWrite(p) PROVE WriterInv'
    BY <2>5 DEF EditWrite, Goto, Rename
  <2>6. ASSUME NEW p \in Edits, EditSignal(p) PROVE WriterInv'
    BY <2>6 DEF EditSignal, Return
  <2>7. ASSUME NEW p \in Edits, EditGivesUp(p) PROVE WriterInv'
    BY <2>7 DEF EditGivesUp, Return
  <2>8. ASSUME NEW p \in Saves, SaveOpen(p) PROVE WriterInv'
    BY <2>8 DEF SaveOpen, Goto
  <2>9. ASSUME NEW p \in Saves, SaveCall(p) PROVE WriterInv'
    BY <2>9 DEF SaveCall, Goto
  <2>10. ASSUME NEW p \in Saves, SaveLock(p) PROVE WriterInv'
    BY <2>10 DEF SaveLock, LockFile, Goto
  <2>11. ASSUME NEW p \in Saves, SaveCompare(p) PROVE WriterInv'
    BY <2>11 DEF SaveCompare, Return
  <2>12. ASSUME NEW p \in Saves, SaveTrust(p) PROVE WriterInv'
    BY <2>12 DEF SaveTrust, Goto
  <2>13. ASSUME NEW p \in Saves, SaveValidate(p) PROVE WriterInv'
    BY <2>13 DEF SaveValidate, Return
  <2>14. ASSUME NEW p \in Saves, SaveWrite(p) PROVE WriterInv'
    BY <2>14 DEF SaveWrite, Goto, Rename
  <2>15. ASSUME NEW p \in Saves, SaveSignal(p) PROVE WriterInv'
    BY <2>15 DEF SaveSignal, Return
  <2>16. ASSUME NEW p \in Saves, SaveConfirm(p) PROVE WriterInv'
    BY <2>16 DEF SaveConfirm, Return
  <2>17. ASSUME NEW p \in Saves, SaveRestore(p) PROVE WriterInv'
    BY <2>17 DEF SaveRestore, Return, Rename
  <2>18. ASSUME NEW p \in Saves, SaveResignal(p) PROVE WriterInv'
    BY <2>18 DEF SaveResignal, Return
  <2>19. ASSUME NEW p \in Saves, SaveGivesUp(p) PROVE WriterInv'
    BY <2>19 DEF SaveGivesUp, Return
  <2>20. ASSUME NEW h \in Hosts, WriterDies(h) PROVE WriterInv'
    BY <2>20 DEF WriterDies, Return
  <2>21. CASE GatewayStep \/ GatewayDies
    BY <2>21 DEF GatewayStep, ReloadStep, GatewayDies, ReloadBegin, ReloadRead, ReloadFails, ReloadRecord,
                 ReloadStore, GatewayBoots, wvars
  <2>22. CASE UNCHANGED vars
    BY <2>22 DEF vars, wvars
  <2> QED
    BY <2>1, <2>2, <2>3, <2>4, <2>5, <2>6, <2>7, <2>8, <2>9, <2>10, <2>11, <2>12, <2>13, <2>14, <2>15, <2>16, <2>17, <2>18, <2>19, <2>20, <2>21, <2>22
       DEF Next, EditStep, SaveStep
<1> QED
  BY <1>1, <1>2, TypeCorrect, PTL DEF Spec

-----------------------------------------------------------------------------

\* The change and the report of each call, as the refinement mapping gives them.
Change == [o \in Ops |-> IF written[o] THEN [from |-> before[o], to |-> after[o]] ELSE None]
ReportMap == [o \in Ops |-> ReportOf(result[o])]

\* A step that answers one call and moves nothing on disk is a Report step.
LEMMA AnswerIsReport ==
  ASSUME TypeOK, NEW p \in Ops, NEW r \in Results \ {"none"},
         result[p] = "none",
         result' = [result EXCEPT ![p] = r],
         UNCHANGED <<file, written>>,
         \A o \in Ops : written[o] => UNCHANGED <<before[o], after[o]>>,
         ReportOf(r) \in {"done", "left"} => written[p],
         ReportOf(r) \in {"unchanged", "failed"} => ~written[p],
         ReportOf(r) = "unchanged" => file \in Edited(p, file)
  PROVE  Promised!Report(p)
<1> USE ConfigAssumption DEF TypeOK
<1>1. Change' = Change
  BY DEF Change
<1>2. ReportMap[p] = "none"
  BY DEF ReportMap, ReportOf
<1>3. ReportMap' = [ReportMap EXCEPT ![p] = ReportOf(r)]
  BY DEF ReportMap
<1>4. ReportOf(r) \in {"done", "unchanged", "failed", "left", "dead"}
  BY DEF ReportOf, Results
<1>5. written[p] => Change[p] # None
  BY DEF Change
<1>6. ~written[p] => Change[p] = None
  BY DEF Change
<1> QED
  BY <1>1, <1>2, <1>3, <1>4, <1>5, <1>6 DEF Promised!Report, Promised!Reports, Change, ReportMap

\* A step that moves nothing on disk and answers nobody is invisible.
LEMMA QuietIsStutter ==
  ASSUME TypeOK,
         UNCHANGED <<file, result, written>>,
         \A o \in Ops : written[o] => UNCHANGED <<before[o], after[o]>>
  PROVE  UNCHANGED Promised!vars
<1>1. Change' = Change
  BY DEF Change
<1>2. ReportMap' = ReportMap
  BY DEF ReportMap
<1> QED
  BY <1>1, <1>2 DEF Promised!vars, Change, ReportMap

\* A rename of a call's document is its Apply, Overwrite when it names no version,
\* or OverwriteUnread when the file could not be read.
LEMMA RenameIsApply ==
  ASSUME TypeOK, NEW p \in Ops,
         result[p] = "none", ~written[p],
         before[p] = file \/ (p \in Saves /\ before[p] = None), file' = after[p],
         (before[p] # None /\ p \notin Blind) => after[p] \in Edited(p, before[p]),
         written' = [written EXCEPT ![p] = TRUE],
         UNCHANGED <<result, before, after>>
  PROVE  Promised!Apply(p) \/ Promised!Overwrite(p) \/ Promised!OverwriteUnread(p)
<1> USE ConfigAssumption DEF TypeOK
<1>1. Change' = [Change EXCEPT ![p] = [from |-> before[p], to |-> after[p]]]
  BY DEF Change
<1>2. ReportMap' = ReportMap /\ ReportMap[p] = "none"
  BY DEF ReportMap, ReportOf
<1>3. Change[p] = None /\ after[p] \in Docs
  BY DEF Change
<1>4. CASE before[p] = None
  BY <1>1, <1>2, <1>3, <1>4 DEF Promised!OverwriteUnread, Change, ReportMap, Docs
<1>5. CASE before[p] = file /\ p \in Blind
  BY <1>1, <1>2, <1>3, <1>5 DEF Promised!Overwrite, Change, ReportMap
<1>6. CASE before[p] # None /\ before[p] = file /\ p \notin Blind
  BY <1>1, <1>2, <1>3, <1>6 DEF Promised!Apply, Change, ReportMap
<1> QED
  BY <1>4, <1>5, <1>6

\* Putting the previous document back is an Undo.
LEMMA PutBackIsUndo ==
  ASSUME TypeOK, NEW p \in Ops,
         result[p] = "none", written[p],
         file = after[p], file' = before[p], before[p] # None,
         written' = [written EXCEPT ![p] = FALSE],
         UNCHANGED <<result, before, after>>
  PROVE  Promised!Undo(p)
<1> USE ConfigAssumption DEF TypeOK
<1>1. Change' = [Change EXCEPT ![p] = None]
  BY DEF Change
<1>2. ReportMap' = ReportMap /\ ReportMap[p] = "none"
  BY DEF ReportMap, ReportOf
<1>3. Change[p] = [from |-> before[p], to |-> after[p]]
  BY DEF Change
<1>4. Change[p] # None /\ Change[p].from # None
  BY <1>3
<1> QED
  BY <1>1, <1>2, <1>3, <1>4 DEF Promised!Undo, Change, ReportMap

-----------------------------------------------------------------------------

\* Any number of portal and console calls, in any number of processes that may
\* die, implement the atomic edits of ConfigFile.
THEOREM WritersImplementConfigFile == Spec => EditsAreAtomic
<1> USE ConfigAssumption
<1>1. Init => Promised!Init
  BY DEF Init, Promised!Init, ReportOf, Docs
<1>2. TypeOK /\ WriterInv /\ [Next]_vars => [Promised!Next]_(Promised!vars)
  <2> SUFFICES ASSUME TypeOK, WriterInv, [Next]_vars
               PROVE  Promised!Next \/ UNCHANGED Promised!vars
    OBVIOUS
  <2>a. \A p \in Ops : Promised!Apply(p) \/ Promised!Overwrite(p) \/ Promised!OverwriteUnread(p)
                       \/ Promised!Undo(p) \/ Promised!Report(p) => Promised!Next
    BY DEF Promised!Next
  <2>b. \A o \in Ops : CallInv(o)
    BY DEF WriterInv
  <2> USE DEF Ops
  <2>1. ASSUME NEW p \in Edits, EditCall(p) PROVE Promised!Next \/ UNCHANGED Promised!vars
    <3>1. /\ UNCHANGED <<file, result, written>>
          /\ \A o \in Ops : written[o] => UNCHANGED <<before[o], after[o]>>
      BY <2>1, <2>b DEF EditCall, Goto, CallInv, TypeOK
    <3> QED
      BY <3>1, QuietIsStutter
  <2>2. ASSUME NEW p \in Edits, EditRead(p) PROVE Promised!Next \/ UNCHANGED Promised!vars
    <3>1. CASE Return(p, "unchanged")
      <4>1. /\ result[p] = "none" /\ result' = [result EXCEPT ![p] = "unchanged"]
            /\ UNCHANGED <<file, written>> /\ ~written[p] /\ file \in Edited(p, file)
            /\ \A o \in Ops : written[o] => UNCHANGED <<before[o], after[o]>>
        BY <2>2, <3>1, <2>b DEF EditRead, Return, CallInv, TypeOK
      <4> QED
        BY <4>1, <2>a, AnswerIsReport DEF ReportOf, Results
    <3>2. CASE UNCHANGED <<result, flock, mutex>>
      <4>1. /\ UNCHANGED <<file, result, written>>
            /\ \A o \in Ops : written[o] => UNCHANGED <<before[o], after[o]>>
        BY <2>2, <3>2, <2>b DEF EditRead, CallInv, TypeOK
      <4> QED
        BY <4>1, QuietIsStutter
    <3> QED
      BY <2>2, <3>1, <3>2 DEF EditRead
  <2>3. ASSUME NEW p \in Edits, EditLock(p) PROVE Promised!Next \/ UNCHANGED Promised!vars
    <3>1. /\ UNCHANGED <<file, result, written>>
          /\ \A o \in Ops : written[o] => UNCHANGED <<before[o], after[o]>>
      BY <2>3, <2>b DEF EditLock, LockFile, Goto, CallInv, TypeOK
    <3> QED
      BY <3>1, QuietIsStutter
  <2>4. ASSUME NEW p \in Edits, EditCheck(p) PROVE Promised!Next \/ UNCHANGED Promised!vars
    <3>1. CASE Return(p, "failed")
      <4>1. /\ result[p] = "none" /\ result' = [result EXCEPT ![p] = "failed"]
            /\ UNCHANGED <<file, written>> /\ ~written[p]
            /\ \A o \in Ops : written[o] => UNCHANGED <<before[o], after[o]>>
        BY <2>4, <3>1, <2>b DEF EditCheck, Return, CallInv, TypeOK
      <4> QED
        BY <4>1, <2>a, AnswerIsReport DEF ReportOf, Results
    <3>2. CASE UNCHANGED <<result, mutex>>
      <4>1. /\ UNCHANGED <<file, result, written>>
            /\ \A o \in Ops : written[o] => UNCHANGED <<before[o], after[o]>>
        BY <2>4, <3>2, <2>b DEF EditCheck, CallInv, TypeOK
      <4> QED
        BY <4>1, QuietIsStutter
    <3> QED
      BY <2>4, <3>1, <3>2 DEF EditCheck
  <2>5. ASSUME NEW p \in Edits, EditWrite(p) PROVE Promised!Next \/ UNCHANGED Promised!vars
    <3>1. /\ result[p] = "none" /\ ~written[p] /\ file' = after[p]
          /\ before[p] = file \/ (p \in Saves /\ before[p] = None)
          /\ (before[p] # None /\ p \notin Blind) => after[p] \in Edited(p, before[p])
          /\ written' = [written EXCEPT ![p] = TRUE]
          /\ UNCHANGED <<result, before, after>>
      BY <2>5, <2>b DEF EditWrite, Goto, Rename, CallInv
    <3> QED
      BY <3>1, <2>a, RenameIsApply
  <2>6. ASSUME NEW p \in Edits, EditSignal(p) PROVE Promised!Next \/ UNCHANGED Promised!vars
    <3>1. /\ result[p] = "none" /\ result' = [result EXCEPT ![p] = "done"]
          /\ UNCHANGED <<file, written, before, after>> /\ written[p]
      BY <2>6, <2>b DEF EditSignal, Return, CallInv
    <3> QED
      BY <3>1, <2>a, AnswerIsReport DEF ReportOf, Results
  <2>7. ASSUME NEW p \in Edits, EditGivesUp(p) PROVE Promised!Next \/ UNCHANGED Promised!vars
    <3>1. /\ result[p] = "none" /\ result' = [result EXCEPT ![p] = "failed"]
          /\ UNCHANGED <<file, written, before, after>> /\ ~written[p]
      BY <2>7, <2>b DEF EditGivesUp, Return, CallInv
    <3> QED
      BY <3>1, <2>a, AnswerIsReport DEF ReportOf, Results
  <2>8. ASSUME NEW p \in Saves, SaveOpen(p) PROVE Promised!Next \/ UNCHANGED Promised!vars
    <3>1. /\ UNCHANGED <<file, result, written>>
          /\ \A o \in Ops : written[o] => UNCHANGED <<before[o], after[o]>>
      BY <2>8, <2>b DEF SaveOpen, Goto, CallInv, TypeOK
    <3> QED
      BY <3>1, QuietIsStutter
  <2>9. ASSUME NEW p \in Saves, SaveCall(p) PROVE Promised!Next \/ UNCHANGED Promised!vars
    <3>1. /\ UNCHANGED <<file, result, written>>
          /\ \A o \in Ops : written[o] => UNCHANGED <<before[o], after[o]>>
      BY <2>9, <2>b DEF SaveCall, Goto, CallInv, TypeOK
    <3> QED
      BY <3>1, QuietIsStutter
  <2>10. ASSUME NEW p \in Saves, SaveLock(p) PROVE Promised!Next \/ UNCHANGED Promised!vars
    <3>1. /\ UNCHANGED <<file, result, written>>
          /\ \A o \in Ops : written[o] => UNCHANGED <<before[o], after[o]>>
      BY <2>10, <2>b DEF SaveLock, LockFile, Goto, CallInv, TypeOK
    <3> QED
      BY <3>1, QuietIsStutter
  <2>11. ASSUME NEW p \in Saves, SaveCompare(p) PROVE Promised!Next \/ UNCHANGED Promised!vars
    <3>1. CASE Return(p, "failed")
      <4>1. /\ result[p] = "none" /\ result' = [result EXCEPT ![p] = "failed"]
            /\ UNCHANGED <<file, written>> /\ ~written[p]
            /\ \A o \in Ops : written[o] => UNCHANGED <<before[o], after[o]>>
        BY <2>11, <3>1, <2>b DEF SaveCompare, Return, CallInv, TypeOK
      <4> QED
        BY <4>1, <2>a, AnswerIsReport DEF ReportOf, Results
    <3>2. CASE UNCHANGED <<flock, mutex, result>>
      <4>1. /\ UNCHANGED <<file, result, written>>
            /\ \A o \in Ops : written[o] => UNCHANGED <<before[o], after[o]>>
        BY <2>11, <3>2, <2>b DEF SaveCompare, CallInv, TypeOK
      <4> QED
        BY <4>1, QuietIsStutter
    <3> QED
      BY <2>11, <3>1, <3>2 DEF SaveCompare
  <2>12. ASSUME NEW p \in Saves, SaveTrust(p) PROVE Promised!Next \/ UNCHANGED Promised!vars
    <3>1. /\ UNCHANGED <<file, result, written>>
          /\ \A o \in Ops : written[o] => UNCHANGED <<before[o], after[o]>>
      BY <2>12, <2>b DEF SaveTrust, Goto, CallInv, TypeOK
    <3> QED
      BY <3>1, QuietIsStutter
  <2>13. ASSUME NEW p \in Saves, SaveValidate(p) PROVE Promised!Next \/ UNCHANGED Promised!vars
    <3>1. CASE Return(p, "failed")
      <4>1. /\ result[p] = "none" /\ result' = [result EXCEPT ![p] = "failed"]
            /\ UNCHANGED <<file, written>> /\ ~written[p]
            /\ \A o \in Ops : written[o] => UNCHANGED <<before[o], after[o]>>
        BY <2>13, <3>1, <2>b DEF SaveValidate, Return, CallInv, TypeOK
      <4> QED
        BY <4>1, <2>a, AnswerIsReport DEF ReportOf, Results
    <3>2. CASE UNCHANGED <<flock, mutex, result>>
      <4>1. /\ UNCHANGED <<file, result, written>>
            /\ \A o \in Ops : written[o] => UNCHANGED <<before[o], after[o]>>
        BY <2>13, <3>2, <2>b DEF SaveValidate, CallInv, TypeOK
      <4> QED
        BY <4>1, QuietIsStutter
    <3> QED
      BY <2>13, <3>1, <3>2 DEF SaveValidate
  <2>14. ASSUME NEW p \in Saves, SaveWrite(p) PROVE Promised!Next \/ UNCHANGED Promised!vars
    <3>1. /\ result[p] = "none" /\ ~written[p] /\ file' = after[p]
          /\ before[p] = file \/ (p \in Saves /\ before[p] = None)
          /\ (before[p] # None /\ p \notin Blind) => after[p] \in Edited(p, before[p])
          /\ written' = [written EXCEPT ![p] = TRUE]
          /\ UNCHANGED <<result, before, after>>
      BY <2>14, <2>b DEF SaveWrite, Goto, Rename, CallInv
    <3> QED
      BY <3>1, <2>a, RenameIsApply
  <2>15. ASSUME NEW p \in Saves, SaveSignal(p) PROVE Promised!Next \/ UNCHANGED Promised!vars
    <3>1. CASE Return(p, "signal_failed")
      <4>1. /\ result[p] = "none" /\ result' = [result EXCEPT ![p] = "signal_failed"]
            /\ UNCHANGED <<file, written>> /\ written[p]
            /\ \A o \in Ops : written[o] => UNCHANGED <<before[o], after[o]>>
        BY <2>15, <3>1, <2>b DEF SaveSignal, Return, CallInv, TypeOK
      <4> QED
        BY <4>1, <2>a, AnswerIsReport DEF ReportOf, Results
    <3>2. CASE UNCHANGED <<result, flock, mutex>>
      <4>1. /\ UNCHANGED <<file, result, written>>
            /\ \A o \in Ops : written[o] => UNCHANGED <<before[o], after[o]>>
        BY <2>15, <3>2, <2>b DEF SaveSignal, CallInv, TypeOK
      <4> QED
        BY <4>1, QuietIsStutter
    <3> QED
      BY <2>15, <3>1, <3>2 DEF SaveSignal
  <2>16. ASSUME NEW p \in Saves, SaveConfirm(p) PROVE Promised!Next \/ UNCHANGED Promised!vars
    <3>1. CASE Return(p, "applied")
      <4>1. /\ result[p] = "none" /\ result' = [result EXCEPT ![p] = "applied"]
            /\ UNCHANGED <<file, written>> /\ written[p]
            /\ \A o \in Ops : written[o] => UNCHANGED <<before[o], after[o]>>
        BY <2>16, <3>1, <2>b DEF SaveConfirm, Return, CallInv, TypeOK
      <4> QED
        BY <4>1, <2>a, AnswerIsReport DEF ReportOf, Results
    <3>2. CASE Return(p, "unconfirmed")
      <4>1. /\ result[p] = "none" /\ result' = [result EXCEPT ![p] = "unconfirmed"]
            /\ UNCHANGED <<file, written>> /\ written[p]
            /\ \A o \in Ops : written[o] => UNCHANGED <<before[o], after[o]>>
        BY <2>16, <3>2, <2>b DEF SaveConfirm, Return, CallInv, TypeOK
      <4> QED
        BY <4>1, <2>a, AnswerIsReport DEF ReportOf, Results
    <3>3. CASE UNCHANGED <<result, flock, mutex>>
      <4>1. /\ UNCHANGED <<file, result, written>>
            /\ \A o \in Ops : written[o] => UNCHANGED <<before[o], after[o]>>
        BY <2>16, <3>3, <2>b DEF SaveConfirm, CallInv, TypeOK
      <4> QED
        BY <4>1, QuietIsStutter
    <3> QED
      BY <2>16, <3>1, <3>2, <3>3 DEF SaveConfirm
  <2>17. ASSUME NEW p \in Saves, SaveRestore(p) PROVE Promised!Next \/ UNCHANGED Promised!vars
    <3>1. CASE before[p] # None /\ Rename(p, before[p]) /\ written' = [written EXCEPT ![p] = FALSE] /\ UNCHANGED <<result, flock, mutex>>
      <4>1. /\ result[p] = "none" /\ written[p] /\ file = after[p] /\ file' = before[p] /\ before[p] # None
            /\ written' = [written EXCEPT ![p] = FALSE]
            /\ UNCHANGED <<result, before, after>>
        BY <2>17, <3>1, <2>b DEF SaveRestore, Rename, CallInv
      <4> QED
        BY <4>1, <2>a, PutBackIsUndo
    <3>2. CASE Return(p, "left") /\ UNCHANGED <<file, unsignalled, written>>
      <4>1. /\ result[p] = "none" /\ result' = [result EXCEPT ![p] = "left"]
            /\ UNCHANGED <<file, written>> /\ written[p]
            /\ \A o \in Ops : written[o] => UNCHANGED <<before[o], after[o]>>
        BY <2>17, <3>2, <2>b DEF SaveRestore, Return, CallInv, TypeOK
      <4> QED
        BY <4>1, <2>a, AnswerIsReport DEF ReportOf, Results
    <3> QED
      BY <2>17, <3>1, <3>2 DEF SaveRestore
  <2>18. ASSUME NEW p \in Saves, SaveResignal(p) PROVE Promised!Next \/ UNCHANGED Promised!vars
    <3>1. /\ result[p] = "none" /\ result' = [result EXCEPT ![p] = "rejected"]
          /\ UNCHANGED <<file, written, before, after>> /\ ~written[p]
      BY <2>18, <2>b DEF SaveResignal, Return, CallInv
    <3> QED
      BY <3>1, <2>a, AnswerIsReport DEF ReportOf, Results
  <2>19. ASSUME NEW p \in Saves, SaveGivesUp(p) PROVE Promised!Next \/ UNCHANGED Promised!vars
    <3>1. /\ result[p] = "none" /\ result' = [result EXCEPT ![p] = "failed"]
          /\ UNCHANGED <<file, written, before, after>> /\ ~written[p]
      BY <2>19, <2>b DEF SaveGivesUp, Return, CallInv
    <3> QED
      BY <3>1, <2>a, AnswerIsReport DEF ReportOf, Results
  <2>20. ASSUME NEW h \in Hosts, WriterDies(h) PROVE Promised!Next
    <3> DEFINE p == mutex[h]
    <3>1. p \in Ops /\ pc[p] # "end"
      BY <2>20 DEF WriterDies, WriterInv, TypeOK
    <3>2. /\ result[p] = "none" /\ result' = [result EXCEPT ![p] = "dead"]
          /\ UNCHANGED <<file, written, before, after>>
      BY <2>20, <3>1, <2>b DEF WriterDies, Return, CallInv
    <3> HIDE DEF p
    <3> QED
      BY <3>1, <3>2, <2>a, AnswerIsReport DEF ReportOf, Results
  <2>21. CASE GatewayStep \/ GatewayDies
    <3>1. UNCHANGED <<file, result, written, before, after>>
      BY <2>21 DEF GatewayStep, ReloadStep, GatewayDies, ReloadBegin, ReloadRead, ReloadFails, ReloadRecord,
                  ReloadStore, GatewayBoots, wvars
    <3> QED
      BY <3>1, QuietIsStutter
  <2>22. CASE UNCHANGED vars
    <3>1. UNCHANGED <<file, result, written, before, after>>
      BY <2>22 DEF vars, wvars
    <3> QED
      BY <3>1, QuietIsStutter
  <2> QED
    BY <2>1, <2>2, <2>3, <2>4, <2>5, <2>6, <2>7, <2>8, <2>9, <2>10, <2>11, <2>12, <2>13, <2>14, <2>15, <2>16, <2>17, <2>18, <2>19, <2>20, <2>21, <2>22
       DEF Next, EditStep, SaveStep
<1> QED
  BY <1>1, <1>2, TypeCorrect, LocksHeld, PTL DEF Spec, EditsAreAtomic, Promised!Spec

-----------------------------------------------------------------------------

\* No reload is overtaken by a rename it should have seen: whatever renames,
\* signals and reloads interleave, a signalled gateway has the file's content or
\* a reload that will read it under way, unless its last reload failed and it was
\* not signalled since.
THEOREM NoReloadLost == Spec => []ReloadSeesFile
<1> DEFINE Inv == ReloadSeesFile /\ (~up => reload = "none")
<1>1. Init => Inv
  BY DEF Init, ReloadSeesFile, ReloadGaveUp
<1>2. TypeOK /\ Inv /\ [Next]_vars => Inv'
  <2> SUFFICES ASSUME TypeOK, Inv, [Next]_vars PROVE Inv'
    OBVIOUS
  <2> USE DEF ReloadSeesFile, ReloadGaveUp
  <2>1. ASSUME NEW p \in Edits, EditCall(p) PROVE Inv'
    BY <2>1 DEF EditCall, gvars, TypeOK
  <2>2. ASSUME NEW p \in Edits, EditRead(p) PROVE Inv'
    BY <2>2 DEF EditRead, gvars, TypeOK
  <2>3. ASSUME NEW p \in Edits, EditLock(p) PROVE Inv'
    BY <2>3 DEF EditLock, LockFile, gvars, TypeOK
  <2>4. ASSUME NEW p \in Edits, EditCheck(p) PROVE Inv'
    BY <2>4 DEF EditCheck, gvars, TypeOK
  <2>5. ASSUME NEW p \in Edits, EditWrite(p) PROVE Inv'
    BY <2>5 DEF EditWrite, Rename, gvars, TypeOK
  <2>6. ASSUME NEW p \in Edits, EditSignal(p) PROVE Inv'
    BY <2>6 DEF EditSignal, SignalArrives, SignalFails, gvars, TypeOK
  <2>7. ASSUME NEW p \in Edits, EditGivesUp(p) PROVE Inv'
    BY <2>7 DEF EditGivesUp, gvars, TypeOK
  <2>8. ASSUME NEW p \in Saves, SaveOpen(p) PROVE Inv'
    BY <2>8 DEF SaveOpen, gvars, TypeOK
  <2>9. ASSUME NEW p \in Saves, SaveCall(p) PROVE Inv'
    BY <2>9 DEF SaveCall, gvars, TypeOK
  <2>10. ASSUME NEW p \in Saves, SaveLock(p) PROVE Inv'
    BY <2>10 DEF SaveLock, LockFile, gvars, TypeOK
  <2>11. ASSUME NEW p \in Saves, SaveCompare(p) PROVE Inv'
    BY <2>11 DEF SaveCompare, gvars, TypeOK
  <2>12. ASSUME NEW p \in Saves, SaveTrust(p) PROVE Inv'
    BY <2>12 DEF SaveTrust, gvars, TypeOK
  <2>13. ASSUME NEW p \in Saves, SaveValidate(p) PROVE Inv'
    BY <2>13 DEF SaveValidate, gvars, TypeOK
  <2>14. ASSUME NEW p \in Saves, SaveWrite(p) PROVE Inv'
    BY <2>14 DEF SaveWrite, Rename, gvars, TypeOK
  <2>15. ASSUME NEW p \in Saves, SaveSignal(p) PROVE Inv'
    BY <2>15 DEF SaveSignal, SignalArrives, SignalFails, gvars, TypeOK
  <2>16. ASSUME NEW p \in Saves, SaveConfirm(p) PROVE Inv'
    BY <2>16 DEF SaveConfirm, gvars, TypeOK
  <2>17. ASSUME NEW p \in Saves, SaveRestore(p) PROVE Inv'
    BY <2>17 DEF SaveRestore, Rename, gvars, TypeOK
  <2>18. ASSUME NEW p \in Saves, SaveResignal(p) PROVE Inv'
    BY <2>18 DEF SaveResignal, SignalArrives, SignalFails, gvars, TypeOK
  <2>19. ASSUME NEW p \in Saves, SaveGivesUp(p) PROVE Inv'
    BY <2>19 DEF SaveGivesUp, gvars, TypeOK
  <2>20. CASE ReloadBegin
    BY <2>20 DEF ReloadBegin, TypeOK
  <2>21. CASE ReloadRead
    BY <2>21 DEF ReloadRead, TypeOK
  <2>22. CASE ReloadRecord
    BY <2>22 DEF ReloadRecord, TypeOK
  <2>23. CASE ReloadStore
    BY <2>23 DEF ReloadStore, TypeOK
  <2>24. CASE GatewayBoots
    BY <2>24 DEF GatewayBoots, TypeOK
  <2>25. CASE GatewayDies
    BY <2>25 DEF GatewayDies, TypeOK
  <2>26. ASSUME NEW h \in Hosts, WriterDies(h) PROVE Inv'
    BY <2>26 DEF WriterDies, gvars
  <2>27. CASE UNCHANGED vars
    BY <2>27 DEF vars, gvars
  <2>28. CASE ReloadFails
    BY <2>28 DEF ReloadFails, TypeOK
  <2> QED
    BY <2>1, <2>2, <2>3, <2>4, <2>5, <2>6, <2>7, <2>8, <2>9, <2>10, <2>11, <2>12, <2>13, <2>14, <2>15, <2>16, <2>17, <2>18, <2>19, <2>20, <2>21, <2>22, <2>23, <2>24, <2>25, <2>26, <2>27, <2>28
       DEF Next, EditStep, SaveStep, GatewayStep, ReloadStep
<1> QED
  BY <1>1, <1>2, TypeCorrect, PTL DEF Spec

-----------------------------------------------------------------------------
(* A document the gateway refuses.  A call that has the lock may be about  *)
(* to put its previous document back, so that document is accounted for    *)
(* without the call's own rename; and an edit counts only once it wrote.   *)

Refused(m) == Kind[m] \notin {"good", "gateway"}

\* Where a save stands between its rename and its answer.
Exposed == {"signal", "confirm", "restore"}

\* The answers of a save whose document may be in the file and not in use.
Owned == {"signal_failed", "unconfirmed", "left", "dead"}

\* A refused mark that is accounted for, whatever the calls under way do.
Admitted(m) ==
    \/ \E d \in InitDocs : m \in d
    \/ \E o \in Saves : m \in after[o] /\ result[o] \in Owned
    \/ \E o \in Edits : m \in after[o] \ before[o] /\ written[o] /\ ~PortalLoads(before[o], before[o])

FileAdmitted ==
    \A m \in file : Refused(m) =>
        Admitted(m) \/ \E o \in Saves : m \in after[o] /\ pc[o] \in Exposed

\* Where a save holds a previous document it may put back.
Holding == {"trust", "validate", "write"} \cup Exposed

PreviousAdmitted(o) ==
    pc[o] \in Holding /\ before[o] # None => \A m \in before[o] : Refused(m) => Admitted(m)

EditChecked(o) == pc[o] = "write" => ~breaks_gateway(before[o], after[o])

AdmittedInv ==
    /\ GatewayLoads(config) /\ FileAdmitted
    /\ \A o \in Saves : PreviousAdmitted(o)
    /\ \A o \in Edits : EditChecked(o)

\* What an ended save and a written edit leave behind stays.
Lasting ==
    /\ \A o \in Saves : pc[o] = "end" => after'[o] = after[o] /\ result'[o] = result[o]
    /\ \A o \in Edits : written[o] => UNCHANGED <<before[o], after[o]>> /\ written'[o]

LEMMA CallsLast ==
  ASSUME TypeOK, WriterInv, [Next]_vars
  PROVE  Lasting
<1> USE ConfigAssumption DEF TypeOK, Ops, WriterInv, CallInv, Lasting
<1>1. ASSUME NEW p \in Edits, EditCall(p) PROVE Lasting
  BY <1>1 DEF EditCall, Goto
<1>2. ASSUME NEW p \in Edits, EditRead(p) PROVE Lasting
  BY <1>2 DEF EditRead, Return
<1>3. ASSUME NEW p \in Edits, EditLock(p) PROVE Lasting
  BY <1>3 DEF EditLock, LockFile, Goto
<1>4. ASSUME NEW p \in Edits, EditCheck(p) PROVE Lasting
  BY <1>4 DEF EditCheck, Return
<1>5. ASSUME NEW p \in Edits, EditWrite(p) PROVE Lasting
  BY <1>5 DEF EditWrite, Goto, Rename
<1>6. ASSUME NEW p \in Edits, EditSignal(p) PROVE Lasting
  BY <1>6 DEF EditSignal, Return
<1>7. ASSUME NEW p \in Edits, EditGivesUp(p) PROVE Lasting
  BY <1>7 DEF EditGivesUp, Return
<1>8. ASSUME NEW p \in Saves, SaveOpen(p) PROVE Lasting
  BY <1>8 DEF SaveOpen, Goto
<1>9. ASSUME NEW p \in Saves, SaveCall(p) PROVE Lasting
  BY <1>9 DEF SaveCall, Goto
<1>10. ASSUME NEW p \in Saves, SaveLock(p) PROVE Lasting
  BY <1>10 DEF SaveLock, LockFile, Goto
<1>11. ASSUME NEW p \in Saves, SaveCompare(p) PROVE Lasting
  BY <1>11 DEF SaveCompare, Return
<1>12. ASSUME NEW p \in Saves, SaveTrust(p) PROVE Lasting
  BY <1>12 DEF SaveTrust, Goto
<1>13. ASSUME NEW p \in Saves, SaveValidate(p) PROVE Lasting
  BY <1>13 DEF SaveValidate, Return
<1>14. ASSUME NEW p \in Saves, SaveWrite(p) PROVE Lasting
  BY <1>14 DEF SaveWrite, Goto, Rename
<1>15. ASSUME NEW p \in Saves, SaveSignal(p) PROVE Lasting
  BY <1>15 DEF SaveSignal, Return
<1>16. ASSUME NEW p \in Saves, SaveConfirm(p) PROVE Lasting
  BY <1>16 DEF SaveConfirm, Return
<1>17. ASSUME NEW p \in Saves, SaveRestore(p) PROVE Lasting
  BY <1>17 DEF SaveRestore, Return, Rename
<1>18. ASSUME NEW p \in Saves, SaveResignal(p) PROVE Lasting
  BY <1>18 DEF SaveResignal, Return
<1>19. ASSUME NEW p \in Saves, SaveGivesUp(p) PROVE Lasting
  BY <1>19 DEF SaveGivesUp, Return
<1>20. ASSUME NEW h \in Hosts, WriterDies(h) PROVE Lasting
  BY <1>20 DEF WriterDies, Return
<1>21. CASE UNCHANGED wvars
  BY <1>21 DEF wvars
<1>22. CASE GatewayStep \/ GatewayDies \/ UNCHANGED vars
  BY <1>22, <1>21 DEF GatewayStep, ReloadStep, GatewayDies, ReloadBegin, ReloadRead, ReloadFails, ReloadRecord, ReloadStore,
                    GatewayBoots, vars
<1> QED
  BY <1>1, <1>2, <1>3, <1>4, <1>5, <1>6, <1>7, <1>8, <1>9, <1>10, <1>11, <1>12, <1>13, <1>14, <1>15, <1>16, <1>17, <1>18, <1>19, <1>20, <1>21, <1>22
     DEF Next, EditStep, SaveStep

LEMMA AdmittedStays ==
  ASSUME WriterInv, Lasting, NEW m, Admitted(m)
  PROVE  Admitted(m)'
<1>1. \A o \in Saves : result[o] # "none" => pc[o] = "end"
  BY DEF WriterInv, CallInv, Ops
<1> QED
  BY <1>1 DEF Admitted, Owned, Lasting, PortalLoads

\* A step that renames nothing: an exposed save stays so or owns up to it.
Quiet ==
    /\ UNCHANGED <<file, config>>
    /\ \A o \in Saves : pc[o] \in Exposed =>
         after'[o] = after[o] /\ (pc'[o] \in Exposed \/ result'[o] \in Owned)
    /\ \A o \in Saves : pc'[o] \in Holding => pc[o] \in Holding /\ before'[o] = before[o]
    /\ \A o \in Edits : EditChecked(o) => EditChecked(o)'

LEMMA QuietAdmitted ==
  ASSUME WriterInv, Lasting, AdmittedInv, Quiet
  PROVE  AdmittedInv'
<1>1. \A m : Admitted(m) => Admitted(m)'
  BY AdmittedStays
<1>2. GatewayLoads(config)'
  BY DEF AdmittedInv, Quiet, GatewayLoads
<1>3. FileAdmitted'
  <2> SUFFICES ASSUME NEW m \in file, Refused(m)
               PROVE  Admitted(m)' \/ \E o \in Saves : m \in after'[o] /\ pc'[o] \in Exposed
    BY DEF FileAdmitted, Quiet, Refused
  <2>1. CASE Admitted(m)
    BY <1>1, <2>1
  <2>2. ASSUME NEW o \in Saves, m \in after[o], pc[o] \in Exposed
        PROVE  Admitted(m)' \/ (pc'[o] \in Exposed /\ m \in after'[o])
    BY <2>2 DEF Quiet, Owned, Admitted
  <2> QED
    BY <2>1, <2>2 DEF AdmittedInv, FileAdmitted
<1>4. ASSUME NEW o \in Saves PROVE PreviousAdmitted(o)'
  BY <1>1 DEF AdmittedInv, Quiet, PreviousAdmitted, Refused
<1> QED
  BY <1>2, <1>3, <1>4 DEF AdmittedInv, Quiet

\* The steps that are quiet.
LEMMA QuietSteps ==
  ASSUME TypeOK, WriterInv
  PROVE  /\ \A p \in Edits : EditCall(p) \/ EditRead(p) \/ EditLock(p) \/ EditCheck(p) \/ EditSignal(p) \/ EditGivesUp(p) => Quiet
         /\ \A p \in Saves : SaveOpen(p) \/ SaveCall(p) \/ SaveLock(p) \/ SaveTrust(p) \/ SaveValidate(p) \/ SaveSignal(p) \/ SaveResignal(p) \/ SaveGivesUp(p) => Quiet
         /\ \A h \in Hosts : WriterDies(h) => Quiet
<1> USE ConfigAssumption DEF TypeOK, Ops, WriterInv, CallInv, Quiet, EditChecked, Exposed, Holding, Owned, gvars
<1>1. ASSUME NEW p \in Edits, EditCall(p) PROVE Quiet
  BY <1>1 DEF EditCall, Goto
<1>2. ASSUME NEW p \in Edits, EditRead(p) PROVE Quiet
  BY <1>2 DEF EditRead, Return
<1>3. ASSUME NEW p \in Edits, EditLock(p) PROVE Quiet
  BY <1>3 DEF EditLock, LockFile, Goto
<1>4. ASSUME NEW p \in Edits, EditCheck(p) PROVE Quiet
  BY <1>4 DEF EditCheck, Return
<1>5. ASSUME NEW p \in Edits, EditSignal(p) PROVE Quiet
  BY <1>5 DEF EditSignal, Return
<1>6. ASSUME NEW p \in Edits, EditGivesUp(p) PROVE Quiet
  BY <1>6 DEF EditGivesUp, Return
<1>7. ASSUME NEW p \in Saves, SaveOpen(p) PROVE Quiet
  BY <1>7 DEF SaveOpen, Goto
<1>8. ASSUME NEW p \in Saves, SaveCall(p) PROVE Quiet
  BY <1>8 DEF SaveCall, Goto
<1>9. ASSUME NEW p \in Saves, SaveLock(p) PROVE Quiet
  BY <1>9 DEF SaveLock, LockFile, Goto
<1>10. ASSUME NEW p \in Saves, SaveTrust(p) PROVE Quiet
  BY <1>10 DEF SaveTrust, Goto
<1>11. ASSUME NEW p \in Saves, SaveValidate(p) PROVE Quiet
  BY <1>11 DEF SaveValidate, Return
<1>12. ASSUME NEW p \in Saves, SaveSignal(p) PROVE Quiet
  BY <1>12 DEF SaveSignal, Return
<1>13. ASSUME NEW p \in Saves, SaveResignal(p) PROVE Quiet
  BY <1>13 DEF SaveResignal, Return
<1>14. ASSUME NEW p \in Saves, SaveGivesUp(p) PROVE Quiet
  BY <1>14 DEF SaveGivesUp, Return
<1>15. ASSUME NEW h \in Hosts, WriterDies(h) PROVE Quiet
  BY <1>15 DEF WriterDies, Return
<1> QED
  BY <1>1, <1>2, <1>3, <1>4, <1>5, <1>6, <1>7, <1>8, <1>9, <1>10, <1>11, <1>12, <1>13, <1>14, <1>15, Zenon

\* While a call holds the lock, the file is accounted for without exposed saves.
LEMMA LockedFile ==
  ASSUME WriterInv, AdmittedInv, NEW p \in Ops, pc[p] \in InLock \ Exposed,
         NEW m \in file, Refused(m)
  PROVE  Admitted(m)
<1>1. \A o \in Saves : pc[o] \in Exposed => FALSE
  BY DEF WriterInv, CallInv, InLock, Exposed, Ops
<1> QED
  BY <1>1 DEF AdmittedInv, FileAdmitted

\* An edit brings in a refused mark only where the portal's loader took none.
LEMMA EditWriteAdmitted ==
  ASSUME TypeOK, WriterInv, Lasting, AdmittedInv, NEW p \in Edits, EditWrite(p)
  PROVE  AdmittedInv'
<1> USE ConfigAssumption DEF Ops
<1>1. /\ pc[p] = "write" /\ pc' = [pc EXCEPT ![p] = "signal"] /\ file' = after[p]
      /\ written' = [written EXCEPT ![p] = TRUE]
      /\ UNCHANGED <<before, after, result, config>>
  BY DEF EditWrite, Goto, Rename, gvars
<1>2. before[p] = file /\ after[p] \in Edited(p, file) /\ ~breaks_gateway(file, after[p])
  BY <1>1 DEF WriterInv, CallInv, AdmittedInv, EditChecked
<1>3. \A o \in Ops : pc'[o] = IF o = p THEN "signal" ELSE pc[o]
  BY <1>1 DEF TypeOK
<1>4. p \notin Saves /\ written'[p]
  BY <1>1 DEF TypeOK
<1>5. \A m : Admitted(m) => Admitted(m)'
  BY AdmittedStays
<1>6. ASSUME NEW m \in after[p], Refused(m) PROVE Admitted(m)'
  <2>1. CASE m \in file
    BY <1>1, <1>5, <1>6, <2>1, LockedFile DEF InLock, Exposed
  <2>2. CASE m \notin file
    <3>1. m \in after[p] \ before[p]
      BY <1>2, <1>6, <2>2
    <3>2. ~PortalLoads(after[p], file)
      BY <1>6, <2>2 DEF PortalLoads, Refused
    <3>3. ~PortalLoads(before[p], before[p])
      BY <1>2, <3>2 DEF breaks_gateway
    <3>4. ~PortalLoads(before[p], before[p])'
      BY <1>1, <3>3 DEF PortalLoads
    <3> QED
      BY <1>1, <1>4, <3>1, <3>4 DEF Admitted
  <2> QED
    BY <2>1, <2>2
<1>7. GatewayLoads(config)' /\ FileAdmitted'
  BY <1>1, <1>6 DEF AdmittedInv, GatewayLoads, FileAdmitted, Refused
<1>8. ASSUME NEW o \in Saves PROVE PreviousAdmitted(o)'
  BY <1>1, <1>3, <1>4, <1>5 DEF AdmittedInv, PreviousAdmitted, Refused
<1>9. ASSUME NEW o \in Edits PROVE EditChecked(o)'
  BY <1>1, <1>3 DEF AdmittedInv, EditChecked, breaks_gateway, PortalLoads
<1> QED
  BY <1>7, <1>8, <1>9 DEF AdmittedInv

\* A save takes the file as its previous document under the lock.
LEMMA SaveCompareAdmitted ==
  ASSUME TypeOK, WriterInv, Lasting, AdmittedInv, NEW p \in Saves, SaveCompare(p)
  PROVE  AdmittedInv'
<1> USE ConfigAssumption DEF Ops
<1>1. /\ pc[p] = "stale" /\ UNCHANGED <<file, after, config>>
      /\ \/ pc' = [pc EXCEPT ![p] = "end"] /\ before' = before
         \/ pc' = [pc EXCEPT ![p] = "trust"] /\ before' = [before EXCEPT ![p] = file]
         \/ pc' = [pc EXCEPT ![p] = "validate"] /\ before' = [before EXCEPT ![p] = None]
  BY DEF SaveCompare, Return, gvars
<1>2. /\ \A o \in Ops : o # p => pc'[o] = pc[o] /\ before'[o] = before[o]
      /\ pc'[p] \in {"end", "trust", "validate"}
      /\ (pc'[p] = "trust" => before'[p] = file) /\ (pc'[p] = "validate" => before'[p] = None)
  BY <1>1 DEF TypeOK
<1>3. \A m : Admitted(m) => Admitted(m)'
  BY AdmittedStays
<1>4. \A m \in file : Refused(m) => Admitted(m)
  BY <1>1, LockedFile DEF InLock, Exposed
<1>5. GatewayLoads(config)' /\ FileAdmitted'
  BY <1>1, <1>3, <1>4 DEF AdmittedInv, GatewayLoads, FileAdmitted, Refused
<1>6. ASSUME NEW o \in Saves PROVE PreviousAdmitted(o)'
  BY <1>2, <1>3, <1>4 DEF AdmittedInv, PreviousAdmitted, Refused, Holding, Exposed
<1>7. ASSUME NEW o \in Edits PROVE EditChecked(o)'
  BY <1>1, <1>2 DEF AdmittedInv, EditChecked, breaks_gateway, PortalLoads
<1> QED
  BY <1>5, <1>6, <1>7 DEF AdmittedInv

LEMMA SaveWriteAdmitted ==
  ASSUME TypeOK, WriterInv, Lasting, AdmittedInv, NEW p \in Saves, SaveWrite(p)
  PROVE  AdmittedInv'
<1> USE ConfigAssumption DEF Ops
<1>1. /\ pc[p] = "write" /\ pc' = [pc EXCEPT ![p] = "signal"] /\ file' = after[p]
      /\ UNCHANGED <<before, after, config>>
  BY DEF SaveWrite, Goto, Rename, gvars
<1>2. \A o \in Ops : pc'[o] = IF o = p THEN "signal" ELSE pc[o]
  BY <1>1 DEF TypeOK
<1>3. \A m : Admitted(m) => Admitted(m)'
  BY AdmittedStays
<1>4. GatewayLoads(config)' /\ FileAdmitted'
  BY <1>1, <1>2 DEF AdmittedInv, GatewayLoads, FileAdmitted, Exposed
<1>5. ASSUME NEW o \in Saves PROVE PreviousAdmitted(o)'
  BY <1>1, <1>2, <1>3 DEF AdmittedInv, PreviousAdmitted, Refused, Holding, Exposed
<1>6. ASSUME NEW o \in Edits PROVE EditChecked(o)'
  BY <1>1, <1>2 DEF AdmittedInv, EditChecked, breaks_gateway, PortalLoads
<1> QED
  BY <1>4, <1>5, <1>6 DEF AdmittedInv

\* "applied" is only said of a document the gateway loads.
LEMMA SaveConfirmAdmitted ==
  ASSUME TypeOK, WriterInv, Lasting, AdmittedInv, NEW p \in Saves, SaveConfirm(p)
  PROVE  AdmittedInv'
<1> USE ConfigAssumption DEF Ops
<1>1. /\ pc[p] = "confirm" /\ UNCHANGED <<file, before, after, config>>
      /\ \/ /\ config = after[p] /\ pc' = [pc EXCEPT ![p] = "end"]
         \/ pc' = [pc EXCEPT ![p] = "restore"]
         \/ /\ pc' = [pc EXCEPT ![p] = "end"]
            /\ result' = [result EXCEPT ![p] = "unconfirmed"]
  BY DEF SaveConfirm, Return, gvars
<1>2. /\ \A o \in Ops : o # p => pc'[o] = pc[o]
      /\ \/ config = after[p] /\ pc'[p] = "end"
         \/ pc'[p] = "restore"
         \/ pc'[p] = "end" /\ result'[p] = "unconfirmed"
  BY <1>1 DEF TypeOK
<1>3. \A m : Admitted(m) => Admitted(m)'
  BY AdmittedStays
<1>4. GatewayLoads(config)'
  BY <1>1 DEF AdmittedInv, GatewayLoads
<1>5. FileAdmitted'
  <2> SUFFICES ASSUME NEW m \in file, Refused(m)
               PROVE  Admitted(m)' \/ \E o \in Saves : m \in after'[o] /\ pc'[o] \in Exposed
    BY <1>1 DEF FileAdmitted, Refused
  <2>1. CASE Admitted(m)
    BY <1>3, <2>1
  <2>2. ASSUME NEW o \in Saves, m \in after[o], pc[o] \in Exposed
        PROVE  Admitted(m)' \/ (m \in after'[o] /\ pc'[o] \in Exposed)
    <3>1. CASE o # p
      BY <1>1, <1>2, <2>2, <3>1
    <3>2. CASE o = p
      <4>1. config # after[p]
        BY <2>2, <3>2 DEF AdmittedInv, GatewayLoads, Refused
      <4>2. CASE pc'[p] = "restore"
        BY <1>1, <2>2, <3>2, <4>2 DEF Exposed
      <4>3. CASE result'[p] = "unconfirmed"
        BY <1>1, <2>2, <3>2, <4>3 DEF Admitted, Owned
      <4> QED
        BY <1>2, <3>2, <4>1, <4>2, <4>3
    <3> QED
      BY <3>1, <3>2
  <2> QED
    BY <2>1, <2>2 DEF AdmittedInv, FileAdmitted
<1>6. ASSUME NEW o \in Saves PROVE PreviousAdmitted(o)'
  BY <1>1, <1>2, <1>3 DEF AdmittedInv, PreviousAdmitted, Refused, Holding, Exposed
<1>7. ASSUME NEW o \in Edits PROVE EditChecked(o)'
  BY <1>1, <1>2 DEF AdmittedInv, EditChecked, breaks_gateway, PortalLoads
<1> QED
  BY <1>4, <1>5, <1>6, <1>7 DEF AdmittedInv

\* What is put back was accounted for when it was taken.
LEMMA SaveRestoreAdmitted ==
  ASSUME TypeOK, WriterInv, Lasting, AdmittedInv, NEW p \in Saves, SaveRestore(p)
  PROVE  AdmittedInv'
<1> USE ConfigAssumption DEF Ops
<1>1. CASE before[p] # None /\ file' = before[p] /\ pc' = [pc EXCEPT ![p] = "resignal"]
  <2>1. pc[p] = "restore" /\ UNCHANGED <<before, after, config>>
    BY DEF SaveRestore, gvars
  <2>2. \A o \in Ops : pc'[o] = IF o = p THEN "resignal" ELSE pc[o]
    BY <1>1 DEF TypeOK
  <2>3. \A m : Admitted(m) => Admitted(m)'
    BY AdmittedStays
  <2>4. \A m \in before[p] : Refused(m) => Admitted(m)
    BY <1>1, <2>1 DEF AdmittedInv, PreviousAdmitted, Holding, Exposed
  <2>5. GatewayLoads(config)' /\ FileAdmitted'
    BY <1>1, <2>1, <2>3, <2>4 DEF AdmittedInv, GatewayLoads, FileAdmitted, Refused
  <2>6. ASSUME NEW o \in Saves PROVE PreviousAdmitted(o)'
    BY <2>1, <2>2, <2>3 DEF AdmittedInv, PreviousAdmitted, Refused, Holding, Exposed
  <2>7. ASSUME NEW o \in Edits PROVE EditChecked(o)'
    BY <2>1, <2>2 DEF AdmittedInv, EditChecked, breaks_gateway, PortalLoads
  <2> QED
    BY <2>5, <2>6, <2>7 DEF AdmittedInv
<1>2. CASE Return(p, "left") /\ UNCHANGED <<file, unsignalled, written>>
  <2>1. Quiet
    BY <1>2 DEF SaveRestore, Return, Quiet, TypeOK, EditChecked, breaks_gateway, PortalLoads,
                Exposed, Holding, Owned, gvars
  <2> QED
    BY <2>1, QuietAdmitted
<1> QED
  BY <1>1, <1>2 DEF SaveRestore, Rename

\* What is recorded as the configuration in use has been loaded.
LEMMA GatewayAdmitted ==
  ASSUME TypeOK, WriterInv, Lasting, AdmittedInv, GatewayStep \/ GatewayDies
  PROVE  AdmittedInv'
<1>1. UNCHANGED <<file, wvars>>
  BY DEF GatewayStep, ReloadStep, GatewayDies, ReloadBegin, ReloadRead, ReloadFails, ReloadRecord, ReloadStore, GatewayBoots
<1>2. GatewayLoads(config)'
  <2>1. \/ config' = config
        \/ config' = loading /\ GatewayLoads(loading)
        \/ config' = file /\ GatewayLoads(file)
        \/ config' = {}
    <3>1. CASE ReloadRecord
      BY <3>1 DEF ReloadRecord
    <3>2. CASE GatewayBoots
      BY <3>2 DEF GatewayBoots
    <3>3. CASE ReloadBegin \/ ReloadRead \/ ReloadFails \/ ReloadStore \/ GatewayDies
      BY <3>3 DEF ReloadBegin, ReloadRead, ReloadFails, ReloadStore, GatewayDies
    <3> QED
      BY <3>1, <3>2, <3>3 DEF GatewayStep, ReloadStep
  <2> QED
    BY <2>1 DEF AdmittedInv, GatewayLoads
<1>3. \A m : Admitted(m) => Admitted(m)'
  BY AdmittedStays
<1>4. FileAdmitted' /\ \A o \in Saves : PreviousAdmitted(o)'
  BY <1>1, <1>3 DEF wvars, AdmittedInv, FileAdmitted, PreviousAdmitted, Refused
<1>5. \A o \in Edits : EditChecked(o)'
  BY <1>1 DEF wvars, AdmittedInv, EditChecked, breaks_gateway, PortalLoads
<1> QED
  BY <1>2, <1>4, <1>5 DEF AdmittedInv

LEMMA AlwaysAdmitted == Spec => []AdmittedInv
<1> USE ConfigAssumption
<1>1. Init => AdmittedInv
  <2> SUFFICES ASSUME Init PROVE AdmittedInv
    OBVIOUS
  <2>1. GatewayLoads(config)
    BY DEF Init, GatewayLoads
  <2>2. FileAdmitted
    BY DEF Init, FileAdmitted, Admitted
  <2> QED
    BY <2>1, <2>2 DEF Init, AdmittedInv, PreviousAdmitted, EditChecked, Holding, Exposed, Ops
<1>2. TypeOK /\ WriterInv /\ AdmittedInv /\ [Next]_vars => AdmittedInv'
  <2> SUFFICES ASSUME TypeOK, WriterInv, AdmittedInv, [Next]_vars PROVE AdmittedInv'
    OBVIOUS
  <2>1. Lasting
    BY CallsLast
  <2>2. Quiet => AdmittedInv'
    BY <2>1, QuietAdmitted
  <2>3. CASE UNCHANGED vars
    <3>1. Quiet
      BY <2>3 DEF vars, wvars, gvars, Quiet, EditChecked, breaks_gateway, PortalLoads
    <3> QED
      BY <2>2, <3>1
  <2>4. ASSUME NEW p \in Edits, EditCall(p) \/ EditStep(p) PROVE AdmittedInv'
    BY <2>1, <2>2, <2>4, QuietSteps, EditWriteAdmitted, Zenon DEF EditStep
  <2>5. ASSUME NEW p \in Saves, SaveOpen(p) \/ SaveStep(p) PROVE AdmittedInv'
    BY <2>1, <2>2, <2>5, QuietSteps, SaveCompareAdmitted, SaveWriteAdmitted, SaveConfirmAdmitted,
       SaveRestoreAdmitted, Zenon DEF SaveStep
  <2>6. ASSUME NEW h \in Hosts, WriterDies(h) PROVE AdmittedInv'
    BY <2>2, <2>6, QuietSteps, Zenon
  <2>7. CASE GatewayStep \/ GatewayDies
    BY <2>1, <2>7, GatewayAdmitted
  <2> QED
    BY <2>3, <2>4, <2>5, <2>6, <2>7, Zenon DEF Next
<1> QED
  BY <1>1, <1>2, TypeCorrect, LocksHeld, PTL DEF Spec

\* For any number of edits and saves in processes that may die: a document the
\* gateway refuses is in the file only where somebody has said so, or a save is
\* still about to find out, or the portal could not load the file it changed.
THEOREM RefusalIsKnown == Spec => []RefusedFileIsAdmitted
<1>1. AdmittedInv => RefusedFileIsAdmitted
  BY DEF AdmittedInv, FileAdmitted, Admitted, Refused, Owned, Exposed, RefusedFileIsAdmitted
<1> QED
  BY <1>1, AlwaysAdmitted, PTL

-----------------------------------------------------------------------------
\* Outside the store of a reload the recorded configuration is the one in force.
StoreInv ==
    /\ reload = "store" => loading = config
    /\ up /\ reload # "store" => served = config
    /\ ~up => reload = "none"

\* A save that answers "applied" is in the file and in use, or about to be put
\* in use by the reload that recorded it, whatever else goes on.
THEOREM AppliedIsHonest == Spec => AppliedIsTrue
<1> USE ConfigAssumption
<1>1. Init => StoreInv
  BY DEF Init, StoreInv
<1>2. TypeOK /\ StoreInv /\ [Next]_vars => StoreInv'
  <2> SUFFICES ASSUME TypeOK, StoreInv, [Next]_vars PROVE StoreInv'
    OBVIOUS
  <2>1. CASE UNCHANGED <<up, reload, loading, config, served>>
    BY <2>1 DEF StoreInv
  <2>2. CASE GatewayStep \/ GatewayDies
    <3> USE DEF StoreInv, TypeOK
    <3>1. CASE ReloadBegin
      BY <3>1 DEF ReloadBegin
    <3>2. CASE ReloadRead
      BY <3>2 DEF ReloadRead
    <3>3. CASE ReloadRecord
      BY <3>3 DEF ReloadRecord
    <3>4. CASE ReloadStore
      BY <3>4 DEF ReloadStore
    <3>5. CASE GatewayBoots
      BY <3>5 DEF GatewayBoots
    <3>6. CASE GatewayDies
      BY <3>6 DEF GatewayDies
    <3>7. CASE ReloadFails
      BY <3>7 DEF ReloadFails
    <3> QED
      BY <2>2, <3>1, <3>2, <3>3, <3>4, <3>5, <3>6, <3>7, Zenon DEF GatewayStep, ReloadStep
  <2>3. CASE UNCHANGED vars
    BY <2>1, <2>3 DEF vars, gvars
  <2>4. ASSUME NEW p \in Edits, EditCall(p) \/ EditStep(p) PROVE StoreInv'
    <3>1. UNCHANGED <<up, reload, loading, config, served>>
      BY <2>4 DEF EditStep, EditCall, EditRead, EditLock, LockFile, EditCheck, EditWrite, EditSignal,
                  EditGivesUp, gvars
    <3> QED
      BY <2>1, <3>1
  <2>5. ASSUME NEW p \in Saves, SaveOpen(p) \/ SaveStep(p) PROVE StoreInv'
    <3>1. UNCHANGED <<up, reload, loading, config, served>>
      BY <2>5 DEF SaveStep, SaveOpen, SaveCall, SaveLock, LockFile, SaveCompare, SaveTrust,
                  SaveValidate, SaveWrite, SaveSignal, SaveConfirm, SaveRestore, SaveResignal,
                  SaveGivesUp, gvars
    <3> QED
      BY <2>1, <3>1
  <2>6. ASSUME NEW h \in Hosts, WriterDies(h) PROVE StoreInv'
    BY <2>1, <2>6 DEF WriterDies, gvars
  <2> QED
    BY <2>2, <2>3, <2>4, <2>5, <2>6, Zenon DEF Next
<1>3. ASSUME TypeOK, [Next]_vars, NEW o \in Saves, result[o] # "applied", result'[o] = "applied"
      PROVE  pc[o] = "confirm" /\ up /\ config = after[o]
  <2>0. result \in [Ops -> Results] /\ o \in Ops
    BY <1>3 DEF TypeOK, Ops
  <2>1. ASSUME NEW p \in Ops, NEW r, Return(p, r), r # "applied" PROVE FALSE
    BY <1>3, <2>0, <2>1 DEF Return
  <2>2. ASSUME UNCHANGED result PROVE FALSE
    BY <1>3, <2>2
  <2>3. ASSUME NEW p \in Edits, EditCall(p) \/ EditStep(p) PROVE FALSE
    <3>1. UNCHANGED result \/ \E r : Return(p, r) /\ r # "applied"
      BY <2>3 DEF EditStep, EditCall, EditRead, EditLock, LockFile, EditCheck, EditWrite, EditSignal,
                  EditGivesUp
    <3> QED
      BY <2>1, <2>2, <3>1 DEF Ops
  <2>4. ASSUME NEW p \in Saves, SaveConfirm(p) PROVE pc[o] = "confirm" /\ up /\ config = after[o]
    BY <1>3, <2>0, <2>4 DEF SaveConfirm, Return
  <2>5. ASSUME NEW p \in Saves,
               SaveOpen(p) \/ SaveCall(p) \/ SaveLock(p) \/ SaveCompare(p) \/ SaveTrust(p)
               \/ SaveValidate(p) \/ SaveWrite(p)
        PROVE  FALSE
    <3>1. UNCHANGED result \/ \E r : Return(p, r) /\ r # "applied"
      BY <2>5 DEF SaveOpen, SaveCall, SaveLock, LockFile, SaveCompare, SaveTrust, SaveValidate,
                  SaveWrite
    <3> QED
      BY <2>1, <2>2, <3>1 DEF Ops
  <2>6. ASSUME NEW p \in Saves,
               SaveSignal(p) \/ SaveRestore(p) \/ SaveResignal(p) \/ SaveGivesUp(p)
        PROVE  FALSE
    <3>1. UNCHANGED result \/ \E r : Return(p, r) /\ r # "applied"
      BY <2>6 DEF SaveSignal, SaveRestore, SaveResignal, SaveGivesUp
    <3> QED
      BY <2>1, <2>2, <3>1 DEF Ops
  <2>7. ASSUME NEW h \in Hosts, WriterDies(h) PROVE FALSE
    <3>1. mutex[h] \in Ops /\ Return(mutex[h], "dead")
      BY <1>3, <2>7 DEF WriterDies, TypeOK
    <3> QED
      BY <2>1, <3>1
  <2>8. ASSUME GatewayStep \/ GatewayDies \/ UNCHANGED vars PROVE FALSE
    <3>1. UNCHANGED wvars
      BY <2>8 DEF GatewayStep, ReloadStep, GatewayDies, ReloadBegin, ReloadRead, ReloadFails, ReloadRecord, ReloadStore,
                  GatewayBoots, vars
    <3> QED
      BY <2>2, <3>1 DEF wvars
  <2> QED
    BY <1>3, <2>3, <2>4, <2>5, <2>6, <2>7, <2>8, Zenon DEF Next, SaveStep
<1>4. TypeOK /\ WriterInv /\ StoreInv /\ [Next]_vars =>
        [\A o \in Saves : (result[o] # "applied" /\ result'[o] = "applied") =>
          file = after[o] /\ config = after[o]
          /\ (served = after[o] \/ reload = "store")]_vars
  <2> SUFFICES ASSUME TypeOK, WriterInv, StoreInv, [Next]_vars, NEW o \in Saves,
                      result[o] # "applied", result'[o] = "applied"
               PROVE  file = after[o] /\ config = after[o]
                      /\ (served = after[o] \/ reload = "store")
    OBVIOUS
  <2>1. pc[o] = "confirm" /\ up /\ config = after[o]
    BY <1>3
  <2>2. file = after[o]
    BY <2>1 DEF WriterInv, CallInv, Ops
  <2> QED
    BY <2>1, <2>2 DEF StoreInv
<1> QED
  BY <1>1, <1>2, <1>4, TypeCorrect, LocksHeld, PTL DEF Spec, AppliedIsTrue
=============================================================================
