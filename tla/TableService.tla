---------------------------- MODULE TableService -----------------------------
(***************************************************************************)
(* What the floor of the restaurant is promised, without orders, versions, *)
(* lines or stock: a sale is begun at a table or at the counter, and is    *)
(* then abandoned or settled, once; only a settled sale is reversed.  The  *)
(* table is taken from the moment the sale begins there to the moment it   *)
(* is abandoned or settled, and two sales never share a table.             *)
(***************************************************************************)
CONSTANTS Tickets, Tables, None

VARIABLES
    sale,   \* how far each sale is
    seat    \* the table each sale takes, None at the counter and when it is over

serviceVars == <<sale, seat>>

ServiceInit ==
    /\ sale = [t \in Tickets |-> "ABSENT"]
    /\ seat = [t \in Tickets |-> None]

Begin(t, s) ==
    /\ sale[t] = "ABSENT"
    /\ s # None => \A u \in Tickets : seat[u] # s
    /\ sale' = [sale EXCEPT ![t] = "DRAFT"]
    /\ seat' = [seat EXCEPT ![t] = s]

End(t, outcome) ==
    /\ sale[t] = "DRAFT"
    /\ sale' = [sale EXCEPT ![t] = outcome]
    /\ seat' = [seat EXCEPT ![t] = None]

Reverse(t) ==
    /\ sale[t] = "CONFIRMED"
    /\ sale' = [sale EXCEPT ![t] = "VOIDED"]
    /\ UNCHANGED seat

ServiceNext ==
    \E t \in Tickets :
        \/ \E s \in Tables \cup {None} : Begin(t, s)
        \/ End(t, "CANCELLED")
        \/ End(t, "CONFIRMED")
        \/ Reverse(t)

ServiceSpec == ServiceInit /\ [][ServiceNext]_serviceVars
==============================================================================
