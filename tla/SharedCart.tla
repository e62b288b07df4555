-------------------------------- MODULE SharedCart --------------------------------
(***************************************************************************)
(* What the cart service promises of a user's cart.  A user whose calls do *)
(* not overlap is alone with it: each addition raises one line by what was *)
(* asked for and leaves the others as they are, and an emptying leaves     *)
(* nothing, each in one indivisible step.  Whoever was not alone once is   *)
(* promised much less from then on: whatever an addition leaves in the     *)
(* cart, it is no more than what was put in.  What never happens to        *)
(* anybody is that an emptying leaves something, that a cart changes by    *)
(* itself, or that a change of one user's cart touches another's.          *)
(***************************************************************************)
EXTENDS Naturals

CONSTANTS
    Users, Products,
    Quantities  \* of one addition

VARIABLES
    items,  \* per user and product, the units in the cart
    put,    \* per user and product, the units that were ever put in
    alone   \* per user, whether no two calls have overlapped

sharedVars == <<items, put, alone>>

NoItems == [p \in Products |-> 0]

SharedInit ==
    /\ items = [u \in Users |-> NoItems]
    /\ put = [u \in Users |-> NoItems]
    /\ alone = [u \in Users |-> TRUE]

Carts == [Products -> Nat]

\* An addition of q units of p.
Put(u, p, q) ==
    /\ put' = [put EXCEPT ![u][p] = @ + q]
    /\ IF alone[u]
       THEN items' = [items EXCEPT ![u][p] = @ + q]
       ELSE /\ items' \in [Users -> Carts]
            /\ \A v \in Users \ {u} : items'[v] = items[v]
            /\ \A r \in Products : items'[u][r] =< put'[u][r]
    /\ UNCHANGED alone

\* The cart is emptied, or expires.  It may expire under a call, of which
\* nobody can then say whether it came before.
Clear(u, overlapped) ==
    /\ items' = [items EXCEPT ![u] = NoItems]
    /\ alone' = [alone EXCEPT ![u] = @ /\ ~overlapped]
    /\ UNCHANGED put

\* A second call comes while one is under way.
Overlap(u) ==
    /\ alone' = [alone EXCEPT ![u] = FALSE]
    /\ UNCHANGED <<items, put>>

SharedNext ==
    \E u \in Users :
        \/ \E p \in Products, q \in Quantities : Put(u, p, q)
        \/ \E overlapped \in BOOLEAN : Clear(u, overlapped)
        \/ Overlap(u)

SharedSpec == SharedInit /\ [][SharedNext]_sharedVars
================================================================================
