------------------------------ MODULE MCCaisse ------------------------------
(* One DEBIT card, a blank one with bytes of an earlier use in its credit  *)
(* block, one card of each other kind, and a tag that is none.             *)
EXTENDS Caisse, TLC

CONSTANTS debit, blank, conso, admin, sos, other

MCTags    == {debit, blank, conso, admin, sos, other}
MCCredits == -1 .. 3
MCTyped   == {-1, 0, 1, 3}
Of(kind, amt) == [kind |-> kind, amt |-> amt, cnt |-> 0, tid |-> 0]
MCCard    == (debit :> Of("DEBIT", 1)) @@ (blank :> Of("BLANK", 2)) @@ (conso :> Of("CONSO", 1))
          @@ (admin :> Of("ADMIN", 0)) @@ (sos :> Of("SOS", 0)) @@ (other :> Of("BLANK", 0))
=============================================================================
