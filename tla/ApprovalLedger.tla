--------------------------- MODULE ApprovalLedger ---------------------------
(***************************************************************************)
(* What the broker promises about approvals, and nothing of how: an        *)
(* approval is granted once, pays for at most one irreversible effect, and *)
(* the payment and the effect are one event.  A reset forgets an approval  *)
(* and what it paid for together, and a forgotten approval is never seen   *)
(* again.                                                                  *)
(***************************************************************************)
CONSTANTS ApprovalIds, Calls, Nobody

VARIABLES
    status,         \* of each approval
    paidFor         \* the call whose effect the approval paid for

ledgerVars == <<status, paidFor>>

LedgerInit ==
    /\ status = [a \in ApprovalIds |-> "unissued"]
    /\ paidFor = [a \in ApprovalIds |-> Nobody]

Issue(a) ==
    /\ status[a] = "unissued"
    /\ status' = [status EXCEPT ![a] = "pending"]
    /\ UNCHANGED paidFor

Spend(a, c) ==
    /\ status[a] = "pending"
    /\ \A b \in ApprovalIds : paidFor[b] # c
    /\ status' = [status EXCEPT ![a] = "spent"]
    /\ paidFor' = [paidFor EXCEPT ![a] = c]

Wipe(gone) ==
    /\ \A a \in gone : status[a] \in {"pending", "spent"}
    /\ status' = [a \in ApprovalIds |-> IF a \in gone THEN "wiped" ELSE status[a]]
    /\ paidFor' = [a \in ApprovalIds |-> IF a \in gone THEN Nobody ELSE paidFor[a]]

LedgerNext ==
    \/ \E a \in ApprovalIds : Issue(a) \/ \E c \in Calls : Spend(a, c)
    \/ \E gone \in SUBSET ApprovalIds : Wipe(gone)

LedgerSpec == LedgerInit /\ [][LedgerNext]_ledgerVars
==============================================================================
