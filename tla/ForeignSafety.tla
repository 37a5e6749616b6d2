---------------------------- MODULE ForeignSafety ----------------------------
(***************************************************************************)
(* Import and clear of a foreign configuration with full actions: what the *)
(* operator reviewed and confirmed, the handler's live read                *)
(* (web/routes.py) and the safety reads before the write                   *)
(* (storcli/prewrite.py, check_foreign_safety).                            *)
(*                                                                         *)
(* Every read is a command of its own, and between two of them drives are  *)
(* swapped, rebuilds start, end and are given up, the foreign              *)
(* configuration changes, and other requests proceed.  Capability,         *)
(* maintenance, policy and audit rows of the same requests are in          *)
(* OperatorWrites.                                                         *)
(***************************************************************************)
EXTENDS Naturals

CONSTANTS
    Posts,       \* requests that import or clear
    Slots,       \* drive locations
    Shapes,      \* groups, counts and sizes of a foreign configuration
    Members,     \* its drives and the rest of its metadata
    NoConfig,    \* none present
    MaxChanges   \* bound: changes of the controller

ASSUME ForeignAssumption == MaxChanges \in Nat /\ NoConfig \notin [shape : Shapes, members : Members]

VARIABLES
    inventory,  \* the drive in each slot: its device id and state
    onDisks,    \* the foreign configuration that the controller shows
    progress,   \* where each request is
    reviewed,   \* the configuration its page has shown
    confirmed,  \* the digest it confirms
    firstSeen,  \* the inventory it has read first
    unasked,    \* slots whose rebuild status it has not read yet
    quiet,      \* observation only: no drive was rebuilding at its second inventory
    lastFound,  \* observation only: the configuration at its last read
    changes     \* observation only: changes so far

foreignVars == <<inventory, onDisks, progress, reviewed, confirmed, firstSeen, unasked, quiet,
                 lastFound, changes>>
proofVars == <<reviewed, confirmed, firstSeen, unasked, quiet, lastFound>>

Configurations == [shape : Shapes, members : Members] \cup {NoConfig}
DriveStates    == {"Onln", "UGood", "Rbld"}
Inventories    == [Slots -> [id : {1, 2}, state : DriveStates]]

Stages == {"idle", "posted", "inventory", "foreign", "rebuilds", "again", "last", "ready",
           "refused", "sent"}

ForeignInit ==
    /\ inventory = [s \in Slots |-> [id |-> 1, state |-> "UGood"]]
    /\ onDisks \in Configurations
    /\ progress = [r \in Posts |-> "idle"]
    /\ reviewed = [r \in Posts |-> NoConfig] /\ lastFound = reviewed
    /\ confirmed = [r \in Posts |-> <<>>]
    /\ firstSeen = [r \in Posts |-> inventory]
    /\ unasked = [r \in Posts |-> {}]
    /\ quiet = [r \in Posts |-> FALSE]
    /\ changes = 0

-----------------------------------------------------------------------------
(* The controller. *)

Changes == changes < MaxChanges /\ changes' = changes + 1

NowIs(slot, state) ==
    /\ Changes /\ inventory' = [inventory EXCEPT ![slot].state = state]
    /\ UNCHANGED <<onDisks, progress, proofVars>>

RebuildStarts(slot) == inventory[slot].state = "UGood" /\ NowIs(slot, "Rbld")

\* Completed, or given up.
RebuildEnds(slot) ==
    inventory[slot].state = "Rbld" /\ \E state \in {"Onln", "UGood"} : NowIs(slot, state)

Swap(slot) ==
    /\ Changes
    /\ inventory' = [inventory EXCEPT ![slot] = [id |-> 3 - @.id, state |-> "UGood"]]
    /\ UNCHANGED <<onDisks, progress, proofVars>>

ConfigChanges ==
    /\ Changes /\ \E c \in Configurations : onDisks' = c
    /\ UNCHANGED <<inventory, progress, proofVars>>

-----------------------------------------------------------------------------
FaultDigest(c) == <<c.shape>>

\* _foreign_config_digest names the shape; _foreign_metadata_digest adds a hash of
\* all the metadata.
Digest(c) == <<c.shape, c.members>>

\* parse_foreign_config, compared with what the request confirms.
Evidence(r) == onDisks # NoConfig /\ Digest(onDisks) = confirmed[r]

At(r, stage) == progress[r] = stage
To(r, stage) == progress' = [progress EXCEPT ![r] = stage]

\* A check that holds lets the request go on, one that does not refuses it.
Step(r, holds, next) == To(r, IF holds THEN next ELSE "refused")

\* GET /controller/foreign-config; the form carries the digest that is shown.
Review(r) ==
    /\ At(r, "idle") /\ onDisks # NoConfig /\ To(r, "posted")
    /\ reviewed' = [reviewed EXCEPT ![r] = onDisks]
    /\ confirmed' = [confirmed EXCEPT ![r] = Digest(onDisks)]
    /\ UNCHANGED <<inventory, onDisks, firstSeen, unasked, quiet, lastFound, changes>>

\* controller_foreign_config_import, _clear: the live read of the handler.
HandlerReads(r) ==
    /\ At(r, "posted") /\ Step(r, Evidence(r), "inventory")
    /\ UNCHANGED <<inventory, onDisks, proofVars, changes>>

\* _physical_inventory of the identity read
FirstInventory(r) ==
    /\ At(r, "inventory") /\ To(r, "foreign")
    /\ firstSeen' = [firstSeen EXCEPT ![r] = inventory]
    /\ unasked' = [unasked EXCEPT ![r] = Slots]
    /\ UNCHANGED <<inventory, onDisks, reviewed, confirmed, quiet, lastFound, changes>>

FirstEvidence(r) ==
    /\ At(r, "foreign") /\ Step(r, Evidence(r), "rebuilds")
    /\ UNCHANGED <<inventory, onDisks, proofVars, changes>>

\* parse_rebuild_status says "Not in progress" or "Complete".
Idle(slot) == inventory[slot].state # "Rbld"

\* One turn of the loop over the drives of the first inventory.
AskRebuild(r, slot) ==
    /\ At(r, "rebuilds") /\ slot \in unasked[r]
    /\ unasked' = [unasked EXCEPT ![r] = @ \ {slot}]
    /\ Step(r, firstSeen[r][slot].state # "Rbld" /\ Idle(slot),
            IF unasked[r] = {slot} THEN "again" ELSE "rebuilds")
    /\ UNCHANGED <<inventory, onDisks, reviewed, confirmed, firstSeen, quiet, lastFound, changes>>

FaultSameInventory(r) == \A s \in Slots : inventory[s].id = firstSeen[r][s].id

\* Locations, device ids and states are those of the first inventory.
SameInventory(r) == inventory = firstSeen[r]

SecondInventory(r) ==
    /\ At(r, "again") /\ Step(r, SameInventory(r), "last")
    /\ quiet' = [quiet EXCEPT ![r] = \A s \in Slots : inventory[s].state # "Rbld"]
    /\ UNCHANGED <<inventory, onDisks, reviewed, confirmed, firstSeen, unasked, lastFound, changes>>

LastEvidence(r) ==
    /\ At(r, "last") /\ Step(r, Evidence(r), "ready")
    /\ lastFound' = [lastFound EXCEPT ![r] = onDisks]
    /\ UNCHANGED <<inventory, onDisks, reviewed, confirmed, firstSeen, unasked, quiet, changes>>

\* A read fails, cannot be parsed or is not complete.
ReadRefused(r) ==
    /\ progress[r] \in Stages \ {"idle", "ready", "refused", "sent"} /\ To(r, "refused")
    /\ UNCHANGED <<inventory, onDisks, proofVars, changes>>

\* _run_foreign_config_destructive: the write, and what the controller makes of it.
SendForeign(r) ==
    /\ At(r, "ready") /\ To(r, "sent")
    /\ onDisks' \in {onDisks, NoConfig}
    /\ UNCHANGED <<inventory, proofVars, changes>>

ForeignNext ==
    \/ ConfigChanges
    \/ \E s \in Slots : RebuildStarts(s) \/ RebuildEnds(s) \/ Swap(s)
    \/ \E r \in Posts :
          \/ Review(r) \/ HandlerReads(r) \/ FirstInventory(r) \/ FirstEvidence(r)
          \/ SecondInventory(r) \/ LastEvidence(r) \/ ReadRefused(r) \/ SendForeign(r)
          \/ \E s \in Slots : AskRebuild(r, s)

ForeignSpec == ForeignInit /\ [][ForeignNext]_foreignVars

-----------------------------------------------------------------------------
(* Properties. *)

\* A foreign configuration is imported or cleared only if there was an instant in
\* its safety reads at which no drive at all was rebuilding, although the drives are
\* asked one after the other, and only if what the last read found is the very
\* configuration the operator reviewed, not one that looks alike (prewrite.py,
\* "equal geometry cannot hide a membership change").
ForeignSafetyProved ==
    \A r \in Posts : progress[r] = "sent" => quiet[r] /\ lastFound[r] = reviewed[r]
=============================================================================
