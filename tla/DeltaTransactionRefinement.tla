--------------------- MODULE DeltaTransactionRefinement ---------------------
(***************************************************************************)
(* DeltaTransaction implements OptimisticAppend.  The table is the log, the*)
(* version a client read is the snapshot its transaction pinned, what it   *)
(* staged is everything that ever was in outstanding_appends, and it is    *)
(* over once its entry is in the log or can no longer get there.           *)
(***************************************************************************)
EXTENDS DeltaTransaction

Over == {"written", "cleanup"} \cup Ended

Promise == INSTANCE OptimisticAppend WITH
    Client <- Txn,
    Nobody <- Other,
    table  <- [i \in DOMAIN log |-> [by |-> log[i].by, adds |-> log[i].adds]],
    read   <- entry,
    staged <- appended,
    over   <- {t \in Txn : phase[t] \in Over}

\* Whatever DeltaTransaction, its manager, other writers and crashes do is one of the
\* steps OptimisticAppend allows, or none of its business.
ImplementsPromise == Promise!AbsSpec
============================================================================
