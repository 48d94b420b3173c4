----------------------------- MODULE ConfigFile -----------------------------
(***************************************************************************)
(* What the writers of resources.yaml promise together: each call changes  *)
(* the document the file holds at that moment (nobody's change is lost)    *)
(* unless it sends a whole document and no version, or could not read the  *)
(* file; takes back nothing but its own change; and reports truthfully     *)
(* whether its change is on disk.  ConfigWriter implements this module.    *)
(***************************************************************************)
CONSTANTS
    Ops,        \* the calls that may edit the document
    Whole,      \* the calls that send a whole document
    Blind,      \* those of them that send no base version
    Docs,       \* documents
    Edited(_, _), \* Edited(o, d): the documents call o may make of document d
    None        \* "no change on disk", "document not known"

VARIABLES
    doc,        \* the document on disk
    change,     \* change[o]: the documents before (None: not known) and
                \* after o's change, or None
    report      \* report[o]: what the call told its caller, "none" before

vars == <<doc, change, report>>

Reports == {"none", "done", "unchanged", "failed", "left", "dead"}

Init == /\ doc \in Docs
        /\ change = [o \in Ops |-> None]
        /\ report = [o \in Ops |-> "none"]

\* The change of o goes onto the document as it is now.
Apply(o) ==
    /\ report[o] = "none" /\ change[o] = None
    /\ \E d \in Edited(o, doc) :
         /\ doc' = d
         /\ change' = [change EXCEPT ![o] = [from |-> doc, to |-> d]]
    /\ UNCHANGED report

\* A call that names no version may put any document in place of this one.
Overwrite(o) ==
    /\ o \in Blind
    /\ report[o] = "none" /\ change[o] = None
    /\ \E d \in Docs :
         /\ doc' = d
         /\ change' = [change EXCEPT ![o] = [from |-> doc, to |-> d]]
    /\ UNCHANGED report

\* So may one that could not read the document; it has nothing to put back.
OverwriteUnread(o) ==
    /\ o \in Whole
    /\ report[o] = "none" /\ change[o] = None
    /\ \E d \in Docs :
         /\ doc' = d
         /\ change' = [change EXCEPT ![o] = [from |-> None, to |-> d]]
    /\ UNCHANGED report

\* o takes its change back, while the document is as o left it.
Undo(o) ==
    /\ report[o] = "none" /\ change[o] # None /\ change[o].from # None
    /\ doc = change[o].to
    /\ doc' = change[o].from
    /\ change' = [change EXCEPT ![o] = None]
    /\ UNCHANGED report

\* Success means the change is on disk; "unchanged" that there was nothing to
\* change; failure that nothing of it is on disk; "left" says that it still is;
\* a call that died says nothing.
Report(o) ==
    /\ report[o] = "none"
    /\ \E r \in Reports \ {"none"} :
         /\ r \in {"done", "left"} => change[o] # None
         /\ r \in {"unchanged", "failed"} => change[o] = None
         /\ r = "unchanged" => doc \in Edited(o, doc)
         /\ report' = [report EXCEPT ![o] = r]
    /\ UNCHANGED <<doc, change>>

Next == \E o \in Ops : Apply(o) \/ Overwrite(o) \/ OverwriteUnread(o) \/ Undo(o) \/ Report(o)

Spec == Init /\ [][Next]_vars
=============================================================================
