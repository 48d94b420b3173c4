----------------------------- MODULE KeySwitch -----------------------------
(***************************************************************************)
(* Who may switch an API key on and off: the portal's reconcile loop       *)
(* (aisix-portal sweeper.rs: the second half of tick, apply_key_state_to), *)
(* minting and revoking (keys.rs), and the operator in the console.        *)
(*                                                                         *)
(* The configuration has one `disabled` flag per key.  The table           *)
(* portal_disabled_keys says which keys the portal itself switched off;    *)
(* only those may it switch on again.  Flag and table are written at       *)
(* different times: the file first, then the table.  Every edit of the     *)
(* file is one step here (resources.rs: Writer::edit compares and retries  *)
(* under a lock).                                                          *)
(***************************************************************************)
EXTENDS Naturals, FiniteSets

CONSTANTS Keys, Users,
          Owner,      \* key -> its user_id
          Portals,    \* portal instances on one database
          Unseeded    \* the '' row: no round has registered anything yet

ASSUME KeySwitchAssumption ==
  /\ Owner \in [Keys -> Users]
  /\ Unseeded \notin Keys

VARIABLES
  conf,       \* key -> "absent" | "on" | "off" in the gateway's configuration
  table,      \* portal_disabled_keys
  broke,      \* users whose balance is <= 0
  suspended,  \* users.disabled
  overspent,  \* keys whose recorded spend reached their quota
  mint,       \* key -> progress of the create call that makes it
  sweep,      \* portal -> its round and pending_ours
  held,       \* history: keys the operator switched off last
  heldFree    \* history: those of them the portal did not own at that moment

vars == <<conf, table, broke, suspended, overspent, mint, sweep, held, heldFree>>
money == <<broke, suspended, overspent>>

Steps == {"idle", "exhausted", "balances", "table", "edit", "record"}
Mints == {"none", "writeOn", "writeOff", "record", "undo", "handed", "failed"}
Rows == Keys \cup {Unseeded}

Sweeps == [pc : Steps, disabled : SUBSET Users, unread : SUBSET Users,
           exhausted : SUBSET Keys, wanted : SUBSET Users,
           off : SUBSET Rows, add : SUBSET Rows, remove : SUBSET Rows]

NoRound == [pc |-> "idle", disabled |-> {}, unread |-> {}, exhausted |-> {},
            wanted |-> {}, off |-> {}, add |-> {}, remove |-> {}]

\* The keys that are the portal's own once everyone has recorded what he wrote.
Ours == ((table \cup UNION {sweep[i].add : i \in Portals})
          \ UNION {sweep[i].remove : i \in Portals})
        \cup {k \in Keys : mint[k] = "record"}

\* Migration 0007 leaves the '' row; keys that are off are taken for the operator's.
Init ==
  /\ \E existing \in SUBSET Keys, off \in SUBSET Keys :
       /\ off \subseteq existing
       /\ conf = [k \in Keys |-> IF k \in off THEN "off"
                                 ELSE IF k \in existing THEN "on" ELSE "absent"]
       /\ mint = [k \in Keys |-> IF k \in existing THEN "handed" ELSE "none"]
       /\ held = off /\ heldFree = off
  /\ table = {Unseeded}
  /\ broke \in SUBSET Users
  /\ suspended = {} /\ overspent = {}
  /\ sweep = [i \in Portals |-> NoRound]

-----------------------------------------------------------------------------
(* What the database records of a user and a key.                          *)

SetBroke(u) ==
  /\ broke' = broke \cup {u}
  /\ UNCHANGED <<conf, table, suspended, overspent, mint, sweep, held, heldFree>>

Grant(u) ==
  /\ broke' = broke \ {u}
  /\ UNCHANGED <<conf, table, suspended, overspent, mint, sweep, held, heldFree>>

Suspend(u, disabled) ==
  /\ suspended' = IF disabled THEN suspended \cup {u} ELSE suspended \ {u}
  /\ UNCHANGED <<conf, table, broke, overspent, mint, sweep, held, heldFree>>

\* settle adds to key_spend; set_quota raises the figure.
SetOverspent(k, over) ==
  /\ conf[k] # "absent"
  /\ overspent' = IF over THEN overspent \cup {k} ELSE overspent \ {k}
  /\ UNCHANGED <<conf, table, broke, suspended, mint, sweep, held, heldFree>>

-----------------------------------------------------------------------------
(* keys.rs *)

\* create: a key is born disabled if the balance is used up or cannot be read.
BeginMint(k) ==
  /\ mint[k] = "none" /\ Owner[k] \notin suspended
  /\ \/ mint' = [mint EXCEPT ![k] = "writeOff"]
     \/ Owner[k] \notin broke /\ mint' = [mint EXCEPT ![k] = "writeOn"]
  /\ UNCHANGED <<conf, table, money, sweep, held, heldFree>>

WriteMint(k) ==
  /\ mint[k] \in {"writeOn", "writeOff"}
  /\ \/ /\ conf' = [conf EXCEPT ![k] = IF mint[k] = "writeOn" THEN "on" ELSE "off"]
        /\ mint' = [mint EXCEPT ![k] = IF @ = "writeOn" THEN "handed" ELSE "record"]
     \/ /\ mint' = [mint EXCEPT ![k] = "failed"]     \* the edit fails
        /\ conf' = conf
  /\ UNCHANGED <<table, money, sweep, held, heldFree>>

\* A key that is born disabled is the portal's; if that cannot be recorded,
\* the key is not handed out.
RecordMint(k) ==
  /\ mint[k] = "record"
  /\ \/ mint' = [mint EXCEPT ![k] = "handed"] /\ table' = table \cup {k}
     \/ mint' = [mint EXCEPT ![k] = "undo"] /\ table' = table
  /\ UNCHANGED <<conf, money, sweep, held, heldFree>>

\* Take the row back; whether that works or not, nobody has the plaintext.
UndoMint(k) ==
  /\ mint[k] = "undo"
  /\ mint' = [mint EXCEPT ![k] = "failed"]
  /\ \/ /\ conf' = [conf EXCEPT ![k] = "absent"]
        /\ held' = held \ {k} /\ heldFree' = heldFree \ {k}
     \/ UNCHANGED <<conf, held, heldFree>>
  /\ UNCHANGED <<table, money, sweep>>

\* revoke: the row goes, and with it the quota and the spend of the key.
Revoke(k) ==
  /\ conf[k] # "absent" /\ Owner[k] \notin suspended
  /\ conf' = [conf EXCEPT ![k] = "absent"]
  /\ overspent' = overspent \ {k}
  /\ held' = held \ {k} /\ heldFree' = heldFree \ {k}
  /\ UNCHANGED <<table, broke, suspended, mint, sweep>>

-----------------------------------------------------------------------------
(* The operator saves the configuration in the console.                    *)

OperatorOff(k) ==
  /\ conf[k] = "on"
  /\ conf' = [conf EXCEPT ![k] = "off"]
  /\ held' = held \cup {k}
  /\ heldFree' = IF k \in Ours THEN heldFree ELSE heldFree \cup {k}
  /\ UNCHANGED <<table, money, mint, sweep>>

OperatorOn(k) ==
  /\ conf[k] = "off"
  /\ conf' = [conf EXCEPT ![k] = "on"]
  /\ held' = held \ {k} /\ heldFree' = heldFree \ {k}
  /\ UNCHANGED <<table, money, mint, sweep>>

-----------------------------------------------------------------------------
(* One round of an instance.  Each read is a step of its own.              *)

Advance(i, from, rec) ==
  /\ sweep[i].pc = from
  /\ sweep' = [sweep EXCEPT ![i] = rec]
  /\ UNCHANGED <<conf, table, money, mint, held, heldFree>>

\* all_users, then the consumption reads; `unread` are the users it fails for.
BeginRound(i, unread) ==
  Advance(i, "idle", [sweep[i] EXCEPT !.pc = "exhausted", !.disabled = suspended,
                                      !.unread = unread])

ReadExhausted(i) ==
  Advance(i, "exhausted", [sweep[i] EXCEPT !.pc = "balances", !.exhausted = overspent])

ReadBalancesByKey(i) ==
  Advance(i, "balances", [sweep[i] EXCEPT !.pc = "table",
                            !.wanted = {k \in Keys : Owner[k] \in broke}])

ReadBalances(i) ==
  Advance(i, "balances", [sweep[i] EXCEPT !.pc = "table",
                                          !.wanted = sweep[i].disabled \cup broke])

\* The table before the configuration; what is still pending counts as written.
ReadTable(i) ==
  Advance(i, "table", [sweep[i] EXCEPT !.pc = "edit",
                         !.off = (table \cup sweep[i].add) \ sweep[i].remove])

WantOffByBoth(i, k) == Owner[k] \in sweep[i].wanted /\ k \in sweep[i].exhausted

\* The stricter of the user's and the key's own state.
WantOff(i, k) == Owner[k] \in sweep[i].wanted \/ k \in sweep[i].exhausted

MayFlipOff(i, k) == WantOff(i, k)

MayFlipAnything(i, k) == WantOff(i, k) \/ Owner[k] \notin sweep[i].unread

\* Off is always allowed; on only for the portal's own keys of users it could read.
MayFlip(i, k) ==
  WantOff(i, k) \/ (k \in sweep[i].off /\ Owner[k] \notin sweep[i].unread)

Flips(i) ==
  {k \in Keys : /\ conf[k] = (IF WantOff(i, k) THEN "on" ELSE "off")
                /\ MayFlip(i, k)}

NewConf(i) == [k \in Keys |-> IF k \notin Flips(i) THEN conf[k]
                              ELSE IF conf[k] = "on" THEN "off" ELSE "on"]

\* How the table has to follow: keys switched off here, and listed keys that
\* the edited file does not have off.
Added(i) == {k \in Flips(i) : NewConf(i)[k] = "off"}
Removed(i) == {n \in sweep[i].off : n = Unseeded \/ NewConf(i)[n] # "off"}

\* apply_key_state_to inside Writer::edit, and the merge into pending_ours.
EditKeys(i) ==
  /\ sweep[i].pc = "edit"
  /\ conf' = NewConf(i)
  /\ held' = held \ Flips(i) /\ heldFree' = heldFree \ Flips(i)
  /\ sweep' = [sweep EXCEPT ![i] =
       [NoRound EXCEPT !.pc = "record",
                       !.add = (sweep[i].add \cup Added(i)) \ Removed(i),
                       !.remove = (sweep[i].remove \ Added(i)) \cup Removed(i)]]
  /\ UNCHANGED <<table, money, mint>>

\* The edit fails: nothing is written, what is pending stays pending.
EditFails(i) ==
  Advance(i, "edit", [NoRound EXCEPT !.add = sweep[i].add, !.remove = sweep[i].remove])

RecordOurs(i) ==
  /\ sweep[i].pc = "record"
  /\ table' = (table \cup sweep[i].add) \ sweep[i].remove
  /\ sweep' = [sweep EXCEPT ![i] = NoRound]
  /\ UNCHANGED <<conf, money, mint, held, heldFree>>

ForgetOnFailure(i) == Advance(i, "record", NoRound)

\* The configuration is written; what the table could not take is kept.
RecordFails(i) ==
  Advance(i, "record", [NoRound EXCEPT !.add = sweep[i].add, !.remove = sweep[i].remove])

\* A database error ends the round with `?`.
RoundFails(i) ==
  /\ sweep[i].pc \in {"exhausted", "balances", "table"}
  /\ Advance(i, sweep[i].pc,
             [NoRound EXCEPT !.add = sweep[i].add, !.remove = sweep[i].remove])

\* The process dies: rounds, pending_ours and create calls are gone.
Crash(i) ==
  /\ sweep' = [sweep EXCEPT ![i] = NoRound]
  /\ mint' = [k \in Keys |-> IF mint[k] \in {"none", "handed"} THEN mint[k] ELSE "failed"]
  /\ UNCHANGED <<conf, table, money, held, heldFree>>

Accounts ==
  \/ \E u \in Users : SetBroke(u) \/ Grant(u) \/ \E d \in BOOLEAN : Suspend(u, d)
  \/ \E k \in Keys, over \in BOOLEAN : SetOverspent(k, over)

KeyCalls ==
  \E k \in Keys : BeginMint(k) \/ WriteMint(k) \/ RecordMint(k) \/ UndoMint(k) \/ Revoke(k)

Operator == \E k \in Keys : OperatorOff(k) \/ OperatorOn(k)

Proceed(i) ==
  \/ ReadExhausted(i) \/ ReadBalances(i) \/ ReadTable(i) \/ RoundFails(i)
  \/ EditKeys(i) \/ EditFails(i) \/ RecordOurs(i) \/ RecordFails(i)

Round(i) == Proceed(i) \/ \E unread \in SUBSET Users : BeginRound(i, unread)

Next == Accounts \/ KeyCalls \/ Operator \/ \E i \in Portals : Round(i)

Spec == Init /\ [][Next]_vars

CrashSpec == Init /\ [][Next \/ \E i \in Portals : Crash(i)]_vars

(* The loop keeps ticking; reads, writes and the database fail, but again  *)
(* and again a round gets through with all reads and the write in order; a *)
(* create call that has begun runs on.                                     *)
FairSpec ==
  /\ Spec
  /\ \A i \in Portals :
       LET allRead == sweep[i].unread = {}
       IN /\ WF_vars(Proceed(i))
          /\ SF_vars(BeginRound(i, {}))
          /\ SF_vars(ReadExhausted(i) /\ allRead)
          /\ SF_vars(ReadBalances(i) /\ allRead)
          /\ SF_vars(ReadTable(i) /\ allRead)
          /\ SF_vars(EditKeys(i) /\ allRead)
  /\ \A k \in Keys : WF_vars(WriteMint(k)) /\ WF_vars(RecordMint(k)) /\ WF_vars(UndoMint(k))

-----------------------------------------------------------------------------
TypeOK ==
  /\ conf \in [Keys -> {"absent", "on", "off"}]
  /\ table \subseteq Rows
  /\ broke \subseteq Users /\ suspended \subseteq Users /\ overspent \subseteq Keys
  /\ mint \in [Keys -> Mints]
  /\ sweep \in [Portals -> Sweeps]
  /\ held \subseteq Keys /\ heldFree \subseteq held

(* A key in a user's hands that is off, and not by the operator's hand, is *)
(* still known as the portal's: in the table, or in what an instance has   *)
(* yet to record (sweeper.rs, pending_ours; keys.rs, create).  Otherwise   *)
(* no top-up ever switches it on again.                                    *)
OwnershipKept ==
  \A k \in Keys : mint[k] = "handed" /\ conf[k] = "off" /\ k \notin held => k \in Ours

(* The reconcile loop never switches on a key the operator switched off    *)
(* when it was not the portal's own (sweeper.rs, apply_key_state_to).      *)
FreeHoldRespected ==
  [][\A k \in heldFree : conf'[k] = "on" => OperatorOn(k)]_vars

(* The same of every key the operator switched off: "an operator's key is  *)
(* not in the table, whatever is topped up it is not touched".             *)
OperatorRespected ==
  [][\A k \in held : conf'[k] = "on" => OperatorOn(k)]_vars

(* The inductive invariant of one portal instance (KeySwitchProofs).       *)

\* A row waits for removal only while its key is on, or off by the operator.
RemovedNotOff ==
  \A i \in Portals : \A k \in Keys \cap sweep[i].remove : conf[k] # "off" \/ k \in held

\* A key that is not yet in the file is on nobody's list.
Fresh == {k \in Keys : mint[k] \in {"none", "writeOn", "writeOff"}}

FreshUnlisted ==
  \A k \in Fresh :
    /\ conf[k] = "absent" /\ k \notin table
    /\ \A i \in Portals :
         k \notin sweep[i].off /\ k \notin sweep[i].add /\ k \notin sweep[i].remove

\* What a round has read of the table still holds when it edits the file.
SnapshotHolds ==
  \A i \in Portals : sweep[i].off \subseteq (table \cup sweep[i].add) \ sweep[i].remove

\* A key that is the operator's does not become the portal's while it is off.
HeldFreeStays == \A k \in heldFree : conf[k] = "off" /\ k \notin Ours

SwitchInv ==
  TypeOK /\ OwnershipKept /\ RemovedNotOff /\ FreshUnlisted /\ SnapshotHolds /\ HeldFreeStays

(* A user who stays out of money loses every key, whoever switches it on   *)
(* in between.                                                             *)
BrokeCutOff ==
  \A k \in Keys : []<>(Owner[k] \notin broke) \/ []<>(conf[k] # "on")

(* A key the portal switched off comes back when its owner stays in good   *)
(* standing, unless the operator holds it.                                 *)
GoodStanding(k) ==
  Owner[k] \notin broke /\ Owner[k] \notin suspended /\ k \notin overspent

ComesBack ==
  \A k \in Keys : \/ []<>~GoodStanding(k)
                  \/ []<>(conf[k] # "off" \/ k \in held \/ mint[k] # "handed")
=============================================================================
