---------------------------- MODULE MCWebClient ----------------------------
(***************************************************************************)
(* WebClient for TLC: one page; the calls are model values.                *)
(***************************************************************************)
EXTENDS WebProperties

\* The less a call has still before it, the more may happen to it.
Budgets ==
    [stage \in {None, "AGREEMENT_READY", "AGREEMENT_LOCKED", "PAYMENT_PENDING"} |->
        IF stage = None THEN 3 ELSE 2]
=============================================================================
