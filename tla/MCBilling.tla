----------------------------- MODULE MCBilling -----------------------------
(* One renter with a contract at p1, and a second contract at p2.  The fee *)
(* of c2 is so small that nothing is due after a single tick; the fee of   *)
(* c3 is negative.  All amounts that users move have two digits of cents.  *)
EXTENDS Billing, TLC

CONSTANTS r1, p1, p2, c1, c2, c3

MCRenterOf == (c1 :> r1) @@ (c2 :> r1) @@ (c3 :> r1)
MCProviderOf == (c1 :> p1) @@ (c2 :> p2) @@ (c3 :> p2)
MCFee == (c1 :> 100) @@ (c2 :> 1) @@ (c3 :> -10)
MCFormed == <<c1>>
MCOpening == (r1 :> 100) @@ (p1 :> 0) @@ (p2 :> 0)
=============================================================================
