------------------------------ MODULE SyncLedger -----------------------------
(***************************************************************************)
(* What a reader of the database may rely on, whatever fails: the abstract *)
(* specification of a sync.  A table that is written by increments shows   *)
(* rows the API has listed, and loses none that will not be written again. *)
(* A full-reload table shows one whole plan after another, or a part of    *)
(* the plan under way where the target has no transactions.                *)
(***************************************************************************)
CONSTANT Keys

VARIABLES
    transactional, \* whether the target reloads a table in a transaction
    listed,        \* rows the API has listed so far
    offered,       \* rows the API serves to the full-reload operation
    stored,        \* rows of the incremental table
    settled,       \* rows that the checkpoints exclude from all later cycles
    planned,       \* the rows of the full-sync plan under way
    reloaded       \* rows of the full-reload table

vars == <<transactional, listed, offered, stored, settled, planned, reloaded>>

Init ==
    /\ transactional \in BOOLEAN
    /\ listed = {}
    /\ offered \in SUBSET Keys
    /\ stored = {}
    /\ settled = {}
    /\ planned = {}
    /\ reloaded = {}

List ==
    /\ \E R \in SUBSET Keys : listed' = listed \cup R
    /\ UNCHANGED <<transactional, offered, stored, settled, planned, reloaded>>

Offer ==
    /\ offered' \in SUBSET Keys
    /\ UNCHANGED <<transactional, listed, stored, settled, planned, reloaded>>

Write ==
    /\ \E R \in SUBSET listed : stored' = stored \cup R
    /\ UNCHANGED <<transactional, listed, offered, settled, planned, reloaded>>

\* A row that is written again is deleted first, and may be gone for a while
\* before or after its new version is there; a settled one never is.
Rewrite ==
    /\ ~transactional
    /\ \E R \in SUBSET (Keys \ settled) : stored' = stored \ R
    /\ UNCHANGED <<transactional, listed, offered, settled, planned, reloaded>>

Settle ==
    /\ \E R \in SUBSET stored : settled' = settled \cup R
    /\ UNCHANGED <<transactional, listed, offered, stored, planned, reloaded>>

\* A cycle plans rows that are offered; when it ends its plan is gone.
Plan ==
    /\ planned' \in SUBSET offered
    /\ UNCHANGED <<transactional, listed, offered, stored, settled, reloaded>>

Reload ==
    /\ reloaded' = planned
    /\ UNCHANGED <<transactional, listed, offered, stored, settled, planned>>

ReloadPart ==
    /\ ~transactional
    /\ reloaded' \in SUBSET planned
    /\ UNCHANGED <<transactional, listed, offered, stored, settled, planned>>

Next ==
    \/ List \/ Offer \/ Write \/ Rewrite \/ Settle
    \/ Plan \/ Reload \/ ReloadPart

Spec == Init /\ [][Next]_vars
=============================================================================
