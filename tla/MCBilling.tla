----------------------------- MODULE MCBilling ------------------------------
(* Small instances of Billing for TLC: enterprise has no price configured, *)
(* and Stripe knows one price that no plan has.                            *)
EXTENDS Billing

MCPriceIDForPlan ==
  [starter |-> "price_s", business |-> "price_b", enterprise |-> ""]

MCPrices == {"price_s", "price_b", "price_old"}
=============================================================================
