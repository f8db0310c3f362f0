---------------------------- MODULE EpochLedger -----------------------------
(***************************************************************************)
(* What the indexer promises about the epochs of a validator to the reader *)
(* of its tables, whichever worker writes them: an epoch is open, known to *)
(* be missing, or complete; once complete it stays complete, and none of   *)
(* its entries is changed or withdrawn.  An epoch that is known to be      *)
(* missing stays so until it is complete.                                  *)
(***************************************************************************)
CONSTANT Epochs

VARIABLES
    complete, \* the epochs that are served as complete
    missing,  \* the epochs the archive worker has to repair
    entries   \* the entries of complete epochs, as pairs <<key, value>>

ledger == <<complete, missing, entries>>

Init == complete = {} /\ missing = {} /\ entries = {}

\* Some epochs are completed and others found missing, in one transaction.
Settle ==
    \E done, lost \in SUBSET Epochs :
        /\ complete' = complete \cup done
        /\ missing' = (missing \cup lost) \ complete'
        /\ entries \subseteq entries'

Spec == Init /\ [][Settle]_ledger
=============================================================================
