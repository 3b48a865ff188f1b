------------------------------- MODULE MCBar -------------------------------
(* A small bar: two consos, two DEBIT cards, one with a ticket, a CONSO   *)
(* card of each conso, one of an unknown conso, an ADMIN card, and a tag   *)
(* that is none of the terminal's.                                         *)
EXTENDS Bar, TLC

CONSTANTS debit, poor, beer, soft, odd, admin, other

MCTags  == {debit, poor, beer, soft, odd, admin, other}
MCPrice == (0 :> 2) @@ (1 :> 1)
Of(kind, amt, cnt) == [kind |-> kind, amt |-> amt, cnt |-> cnt, tid |-> 1]
MCCard  == (debit :> Of("DEBIT", 2, 1)) @@ (poor :> Of("DEBIT", 0, 0)) @@ (beer :> Of("CONSO", 0, 0))
        @@ (soft :> Of("CONSO", 1, 0)) @@ (odd :> Of("CONSO", 2, 0))
        @@ (admin :> Of("ADMIN", 0, 0)) @@ (other :> Of("BLANK", 0, 0))
=============================================================================
