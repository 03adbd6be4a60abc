----------------------------- MODULE MCAdmission -----------------------------
(* Two customers, three cases, two of them the same customer's. *)
EXTENDS Admission

Message(c, cust, m) == [case |-> c, customer |-> cust, kind |-> "message", margin |-> m,
                        contacts |-> 1, discount |-> 0, cost |-> 1]
Offered(c, cust, m, d) == [case |-> c, customer |-> cust, kind |-> "discount_offer",
                           margin |-> m, contacts |-> 1, discount |-> d, cost |-> 1]
Retry(c, cust, m) == [case |-> c, customer |-> cust, kind |-> "silent_retry", margin |-> m,
                      contacts |-> 0, discount |-> 0, cost |-> 0]

Small == {<<Message("A", "x", m), Offered("A", "x", m + 2, d), Message("B", "x", n),
            Message("C", "y", o), Retry("C", "y", r)>> :
            m \in {2, 4}, d \in {1, 3}, n \in {0, 5}, o \in {3, 6}, r \in {-1, 2}}
\* One case a customer.
Loners == {<<Message("A", "x", m), Offered("A", "x", m + 2, d), Message("B", "z", n),
             Offered("C", "y", o, 2), Retry("C", "y", 2)>> :
             m \in {2, 4}, d \in {1, 3}, n \in {0, 5}, o \in {3, 6}}
Both == Small \cup Loners
Tight == {[contacts |-> c, discount |-> d, perCustomer |-> k] :
            c \in {0, 1, 2}, d \in {0, 3}, k \in {1, 2}}
\* A retry nearly as good as the message beside it, and another case of the same
\* customer.
Rivals == {<<Message("A", "x", 10), Retry("A", "x", 9), Message("B", "x", n)>> :
             n \in {5, 8}}
Loose == {[contacts |-> 5, discount |-> 0, perCustomer |-> 1]}
Grid == 0 .. 7
=============================================================================
