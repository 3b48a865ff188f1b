-------------------------------- MODULE MCKve --------------------------------
(* A DEBIT card with two tickets, a blank one that the till may make a     *)
(* second one of, an ADMIN and an SOS card, and a tag that is none.        *)
EXTENDS Kve, TLC

CONSTANTS debit, blank, admin, sos, other

MCTags    == {debit, blank, admin, sos, other}
MCCredits == -1 .. 1
MCTyped   == {-1, 1, 2}
Of(kind, amt, cnt) == [kind |-> kind, amt |-> amt, cnt |-> cnt, tid |-> 0]
MCCard    == (debit :> Of("DEBIT", 1, 2)) @@ (blank :> Of("BLANK", 0, 0))
          @@ (admin :> Of("ADMIN", 0, 0)) @@ (sos :> Of("SOS", 0, 0))
          @@ (other :> Of("BLANK", 0, 0))
=============================================================================
