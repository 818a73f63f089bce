--------------------------- MODULE ExchangeLedger ---------------------------
(***************************************************************************)
(* What the store promises a reader of the REST API about one exchange,    *)
(* whatever the rings, the conversations and the bookkeeping of in-flight  *)
(* exchanges look like: an exchange is listed as pending from the moment   *)
(* its call begins, becomes done only when that call ends, may be dropped  *)
(* from the listing at any time, and never comes back once its call ended. *)
(***************************************************************************)
CONSTANT ExId       \* the exchanges

VARIABLES
    shown,          \* how the REST listing shows each exchange
    calling         \* the exchanges whose upstream call has begun and not ended

ledgerVars == <<shown, calling>>

Shown == {"never", "pending", "done", "gone"}

LedgerInit ==
    /\ shown = [id \in ExId |-> "never"]
    /\ calling = {}

\* Every exchange but those of ids is as it was, or was dropped.
MayDrop(ids) ==
    \A x \in ExId \ ids :
        \/ shown'[x] = shown[x]
        \/ shown[x] # "never" /\ shown'[x] = "gone"

\* The call of id begins; the ring has room for it, or has none at all.
Begin(id) ==
    /\ shown[id] = "never"
    /\ shown' \in [ExId -> Shown]
    /\ shown'[id] \in {"pending", "gone"}
    /\ MayDrop({id})
    /\ calling' = calling \cup {id}

\* The call of id ends: a pending exchange is done. One that left the listing
\* while its call was running stays out of it, or is listed again as done.
End(id) ==
    /\ id \in calling
    /\ shown' \in [ExId -> Shown]
    /\ shown'[id] \in {"done", "gone"}
    /\ shown[id] = "pending" => shown'[id] = "done"
    /\ MayDrop({id})
    /\ calling' = calling \ {id}

\* Removal, clearing or eviction.
Drop ==
    /\ shown' \in [ExId -> Shown]
    /\ MayDrop({})
    /\ UNCHANGED calling

LedgerNext == (\E id \in ExId : Begin(id) \/ End(id)) \/ Drop

LedgerSpec == LedgerInit /\ [][LedgerNext]_ledgerVars
=============================================================================
