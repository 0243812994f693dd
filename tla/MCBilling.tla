------------------------------ MODULE MCBilling ------------------------------
(***************************************************************************)
(* Two subscriptions of one account and one browser request at a time.     *)
(***************************************************************************)
EXTENDS Billing

CONSTANTS tab1

MCTabs == {tab1}
MCMaxCharges == <<2, 1>>
=============================================================================
