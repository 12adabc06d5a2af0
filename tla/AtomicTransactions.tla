-------------------------- MODULE AtomicTransactions --------------------------
(***************************************************************************)
(* What the transaction engine promises the users of a repository:         *)
(*                                                                         *)
(*  - the stores change only while a transaction is open, and at most one  *)
(*    is open at a time;                                                   *)
(*  - a transaction is closed once, and its journal record, if it could be *)
(*    written, is written then and never again;                            *)
(*  - a record says RolledBack only when the stores are back to what they  *)
(*    were when the transaction was opened.                                *)
(*                                                                         *)
(* A crash closes the open transaction without a record.                   *)
(***************************************************************************)
EXTENDS Naturals

CONSTANTS StoreValues, MaxTransactions

VARIABLES store, open, saved, tx, journal

absVars == <<store, open, saved, tx, journal>>

Verdicts == {"Committed", "RolledBack", "Failed"}

AInit ==
    /\ store \in StoreValues
    /\ open = FALSE
    /\ saved = store
    /\ tx = 0
    /\ journal = [t \in 1..MaxTransactions |-> "None"]

\* The first change may come with the opening: an implicit transaction.
Begin ==
    /\ ~open
    /\ tx < MaxTransactions
    /\ open' = TRUE
    /\ saved' = store
    /\ tx' = tx + 1
    /\ store' \in StoreValues
    /\ UNCHANGED journal

Work ==
    /\ open
    /\ store' \in StoreValues
    /\ UNCHANGED <<open, saved, tx, journal>>

Close(verdict) ==
    /\ open
    /\ verdict = "RolledBack" => store = saved
    /\ open' = FALSE
    /\ journal' \in {journal, [journal EXCEPT ![tx] = verdict]}
    /\ UNCHANGED <<store, saved, tx>>

ANext == Begin \/ Work \/ \E verdict \in Verdicts : Close(verdict)

ASpec == AInit /\ [][ANext]_absVars
=============================================================================
