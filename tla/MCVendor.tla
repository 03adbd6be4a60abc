------------------------------ MODULE MCVendor ------------------------------
(* One obligation, over two days.                                            *)
EXTENDS Vendor

Job(kind, d) == [kind |-> kind, obligation |-> "o", day |-> d]
TwoDays == {Job("retry", 0), Job("message", 0), Job("voice", 1)}
One == {"o"}
=============================================================================
