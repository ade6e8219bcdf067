----------------------------- MODULE Accounting -----------------------------
(***************************************************************************)
(* The per-peer credit arithmetic of src/accounting.rs, as operators on an *)
(* account record.  No behaviour lives here: Settlement runs these         *)
(* operators from the actions of the node.                                 *)
(*                                                                         *)
(* Amounts are accounting units.  The time of the last refreshment is only *)
(* ever compared with "never" when a debt is judged, so it is the Boolean  *)
(* `refreshed'.                                                            *)
(***************************************************************************)
EXTENDS Naturals

CONSTANTS
    RefreshRate,     \* REFRESH_RATE: what one second of pseudosettle clears
    MaxChunkPrice,   \* MAX_CHUNK_PRICE: the price of the farthest chunk
    PoPrice          \* PO_PRICE: how much cheaper one proximity order is

ASSUME AccountingAssumption ==
    /\ RefreshRate \in Nat \ {0}
    /\ MaxChunkPrice \in Nat \ {0}
    /\ PoPrice \in 1..MaxChunkPrice

-----------------------------------------------------------------------------
(* Saturating u64 arithmetic below zero.                                   *)
saturating_sub(m, n) == IF m >= n THEN m - n ELSE 0
AtLeast(m, n) == IF m >= n THEN m ELSE n
AtMost(m, n) == IF m <= n THEN m ELSE n

price(proximity) == AtLeast(saturating_sub(MaxChunkPrice, proximity * PoPrice), PoPrice)

(* The first refreshment of an account waits for twice the allowance, and  *)
(* none waits until the next chunk could already be refused.               *)
RefreshTarget(refreshed, threshold) ==
    LET target == IF refreshed THEN RefreshRate ELSE 2 * RefreshRate
    IN  IF threshold = 0 THEN target
        ELSE AtMost(target, AtLeast(saturating_sub(threshold, MaxChunkPrice), 1))

refreshment_due(balance, refreshed, threshold) ==
    balance >= RefreshTarget(refreshed, threshold)

-----------------------------------------------------------------------------
(* The account record.  `connection' is the connection the account may     *)
(* serve; the absent one closes it to new requests.                        *)
AccountType(Connections) ==
    [balance : Nat, surplus : Nat, threshold : Nat, reserve : Nat,
     refreshed : BOOLEAN, scheduled : BOOLEAN, connection : Connections]

NewAccount(absent) ==
    [balance |-> 0, surplus |-> 0, threshold |-> 0, reserve |-> 0,
     refreshed |-> FALSE, scheduled |-> FALSE, connection |-> absent]

due(account) ==
    refreshment_due(account.balance, account.refreshed, account.threshold)

(* Faults, for the mutation runs.                                          *)
CanReserve_IgnoringReserve(account, amount) ==
    account.balance + amount <= account.threshold

apply_credit_PrepaidKeepsReserve(account, amount) ==
    IF account.surplus >= amount
    THEN [account EXCEPT !.surplus = @ - amount]
    ELSE [account EXCEPT !.reserve = saturating_sub(@, amount), !.surplus = 0,
                         !.balance = @ + (amount - account.surplus)]



CanReserve(account, amount) ==
    account.balance + account.reserve + amount <= account.threshold

reserve(account, amount) ==
    [account EXCEPT !.reserve = @ + amount]

cancel_reserve(account, amount) ==
    [account EXCEPT !.reserve = saturating_sub(@, amount)]

(* A delivered chunk turns its reservation into debt, prepaid surplus      *)
(* first.                                                                  *)
apply_credit(account, amount) ==
    LET compensated == AtMost(account.surplus, amount)
    IN  [account EXCEPT !.reserve = saturating_sub(@, amount),
                        !.surplus = @ - compensated,
                        !.balance = @ + (amount - compensated)]

(* A settled amount clears debt; what exceeds the debt is kept as surplus. *)
apply_refreshment(account, amount) ==
    IF amount >= account.balance
    THEN [account EXCEPT !.surplus = @ + (amount - account.balance), !.balance = 0]
    ELSE [account EXCEPT !.balance = @ - amount]
=============================================================================
