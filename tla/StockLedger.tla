---------------------------- MODULE StockLedger -----------------------------
(***************************************************************************)
(* What adjust_inventory promises (its comment in src/wms/service.py): the *)
(* stock of a batch is adjusted by what a request asks for, positive is in *)
(* and negative is out, one request at a time, and no request takes out    *)
(* more than there is.                                                     *)
(***************************************************************************)
EXTENDS Integers

CONSTANTS
    BatchNos,       \* batch numbers
    MaxQty          \* bound: quantity of one request

VARIABLE stock      \* per batch: the quantity in stock

Init == stock = [b \in BatchNos |-> 0]

In(b, q) == stock' = [stock EXCEPT ![b] = stock[b] + q]

Out(b, q) ==
    /\ q <= stock[b]
    /\ stock' = [stock EXCEPT ![b] = stock[b] - q]

Next == \E b \in BatchNos, q \in 1..MaxQty : In(b, q) \/ Out(b, q)

Spec == Init /\ [][Next]_stock
=============================================================================
