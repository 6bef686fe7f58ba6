------------------------------ MODULE Billing -------------------------------
(***************************************************************************)
(* workspace-svc and Stripe: checkouts of one workspace, the subscriptions *)
(* that come of them, and the webhooks that report them.                   *)
(*                                                                         *)
(* A checkout is a request for POST /checkout and, after it, the session   *)
(* and the subscription in Stripe that it led to.  Stripe delivers every   *)
(* event at least once and in any order.                                   *)
(***************************************************************************)
EXTENDS Naturals, Sequences, FiniteSets

CONSTANTS
  Checkouts,    \* requests for a checkout
  NoCheckout,   \* no customer, no subscription
  PriceIDForPlan, \* the configured price of each paid plan, or ""
  Prices,       \* price ids that Stripe knows
  MaxEvents     \* bound on the events

Plans == {"free", "starter", "business", "enterprise"}
PaidPlans == Plans \ {"free"}

ASSUME BillingAssumption ==
  /\ NoCheckout \notin Checkouts
  /\ PriceIDForPlan \in [PaidPlans -> Prices \cup {""}]
  /\ "" \notin Prices /\ Prices # {}
  /\ MaxEvents \in Nat

VARIABLES
  customer,     \* workspaces.stripe_customer_id
  plan,         \* workspaces.plan
  subscribed,   \* workspaces.stripe_subscription_id
  checkout,     \* the requests
  customers,    \* in Stripe: customers, named by the request that made them
  subscription, \* in Stripe: what each session became
  events,       \* in Stripe: the events, oldest first
  delivered,    \* the events that were delivered at least once
  troubled,     \* history: checkouts overlapped, or a call of one failed
  disturbed     \* history: an event came late or again, or was not stored

rowVars == <<customer, plan, subscribed>>
stripeVars == <<customers, subscription, events>>
vars == <<rowVars, checkout, stripeVars, delivered, troubled, disturbed>>

(* new: not begun; url: the client has the address of the session.         *)
Steps == {"new", "customer", "save", "session", "url", "failed"}

Subscriptions == [state : {"none", "active", "deleted"}, price : Prices,
                  tagged : BOOLEAN]

Events == [type : {"completed", "updated", "deleted"}, of : Checkouts,
           price : Prices \cup {""}, tagged : BOOLEAN]

TypeOK ==
  /\ customer \in customers \cup {NoCheckout}
  /\ plan \in Plans
  /\ subscribed \in Checkouts \cup {NoCheckout}
  /\ checkout \in [Checkouts -> [step : Steps, price : Prices \cup {""},
                                 customer : customers \cup {NoCheckout}]]
  /\ customers \subseteq Checkouts
  /\ subscription \in [Checkouts -> Subscriptions]
  /\ events \in Seq(Events) /\ Len(events) <= MaxEvents
  /\ delivered \subseteq DOMAIN events
  /\ troubled \in BOOLEAN /\ disturbed \in BOOLEAN
  /\ \A c \in Checkouts :
       /\ checkout[c].step \in {"save", "session", "url"} =>
            checkout[c].customer # NoCheckout
       /\ checkout[c].step = "url" => checkout[c].price \in Prices
       /\ subscription[c].state # "none" => checkout[c].step = "url"

Init ==
  /\ customer = NoCheckout
  /\ plan = "starter"
  /\ subscribed = NoCheckout
  /\ checkout = [c \in Checkouts |->
                   [step |-> "new", price |-> "", customer |-> NoCheckout]]
  /\ customers = {}
  /\ subscription = [c \in Checkouts |->
                       [state |-> "none", price |-> CHOOSE p \in Prices : TRUE,
                        tagged |-> FALSE]]
  /\ events = <<>>
  /\ delivered = {}
  /\ troubled = FALSE
  /\ disturbed = FALSE

-----------------------------------------------------------------------------
(* POST /checkout *)

Running(c) == checkout[c].step \in {"customer", "save", "session"}

Goto(c, step) == checkout' = [checkout EXCEPT ![c].step = step]

Fail(c) == Goto(c, "failed") /\ troubled' = TRUE

(* The customer of the row as GetByID reads it decides what comes next.    *)
BeginCheckout(c, p) ==
  /\ checkout[c].step = "new"
  /\ checkout' = [checkout EXCEPT ![c] =
       [step |-> IF customer = NoCheckout THEN "customer" ELSE "session",
        price |-> PriceIDForPlan[p], customer |-> customer]]
  /\ troubled' = (troubled \/ \E d \in Checkouts \ {c} : Running(d))
  /\ UNCHANGED <<rowVars, stripeVars, delivered, disturbed>>

(* A mutant: without an answer the handler goes on without a customer.     *)
GoOnWithoutCustomer(c) ==
  /\ checkout[c].step = "customer"
  /\ \/ /\ customers' = customers \cup {c}
        /\ checkout' = [checkout EXCEPT ![c].step = "save", ![c].customer = c]
     \/ Goto(c, "session") /\ UNCHANGED customers
  /\ UNCHANGED <<rowVars, subscription, events, delivered, troubled, disturbed>>

(* CreateOrGetCustomer: every call makes a customer; its answer may be     *)
(* lost.                                                                   *)
CreateOrGetCustomer(c) ==
  /\ checkout[c].step = "customer"
  /\ \/ /\ customers' = customers \cup {c}
        /\ \/ /\ checkout' = [checkout EXCEPT ![c].step = "save",
                                              ![c].customer = c]
              /\ UNCHANGED troubled
           \/ Fail(c)
     \/ Fail(c) /\ UNCHANGED customers
  /\ UNCHANGED <<rowVars, subscription, events, delivered, disturbed>>

(* A mutant: the new customer is not kept.                                 *)
ForgetCustomer(c) ==
  /\ checkout[c].step = "save"
  /\ Goto(c, "session")
  /\ UNCHANGED <<rowVars, stripeVars, delivered, troubled, disturbed>>

(* SetStripeCustomerID: a failure is only logged, and the last one wins.   *)
SetStripeCustomerID(c) ==
  /\ checkout[c].step = "save"
  /\ Goto(c, "session")
  /\ \/ customer' = checkout[c].customer /\ UNCHANGED troubled
     \/ troubled' = TRUE /\ UNCHANGED customer
  /\ UNCHANGED <<plan, subscribed, stripeVars, delivered, disturbed>>

(* CreateCheckoutSession: Stripe refuses a price it does not know.         *)
CreateCheckoutSession(c) ==
  /\ checkout[c].step = "session"
  /\ \/ /\ checkout[c].price \in Prices
        /\ Goto(c, "url")
        /\ UNCHANGED troubled
     \/ Fail(c)
  /\ UNCHANGED <<rowVars, stripeVars, delivered, disturbed>>

-----------------------------------------------------------------------------
(* Stripe *)

Emit(type, c, p, tagged) ==
  /\ Len(events) < MaxEvents
  /\ events' = Append(events, [type |-> type, of |-> c, price |-> p,
                               tagged |-> tagged])

StripeOnly == UNCHANGED <<rowVars, checkout, customers, delivered, troubled,
                          disturbed>>

(* A mutant: the session carries the workspace's id.                       *)
PayWithMetadata(c) ==
  /\ checkout[c].step = "url"
  /\ subscription[c].state = "none"
  /\ subscription' = [subscription EXCEPT ![c] =
       [state |-> "active", price |-> checkout[c].price, tagged |-> FALSE]]
  /\ Emit("completed", c, "", TRUE)
  /\ StripeOnly

(* The session is paid.  CreateCheckoutSession sent no metadata, so        *)
(* neither the session nor the subscription has any, and a session has no  *)
(* items.  customer.subscription.created is sent, too; the webhook has no  *)
(* case for it.                                                            *)
Pay(c) ==
  /\ checkout[c].step = "url"
  /\ subscription[c].state = "none"
  /\ subscription' = [subscription EXCEPT ![c] =
       [state |-> "active", price |-> checkout[c].price, tagged |-> FALSE]]
  /\ Emit("completed", c, "", FALSE)
  /\ StripeOnly

(* Somebody changes the subscription's price in Stripe.                    *)
ChangePrice(c, p) ==
  /\ subscription[c].state = "active"
  /\ p # subscription[c].price
  /\ subscription' = [subscription EXCEPT ![c].price = p]
  /\ Emit("updated", c, p, subscription[c].tagged)
  /\ StripeOnly

(* Somebody gives the subscription the metadata that the webhook looks     *)
(* for, by hand: nothing in this code does.                                *)
TagByHand(c) ==
  /\ subscription[c].state = "active"
  /\ ~subscription[c].tagged
  /\ subscription' = [subscription EXCEPT ![c].tagged = TRUE]
  /\ Emit("updated", c, subscription[c].price, TRUE)
  /\ StripeOnly

Cancel(c) ==
  /\ subscription[c].state = "active"
  /\ subscription' = [subscription EXCEPT ![c].state = "deleted"]
  /\ Emit("deleted", c, subscription[c].price, subscription[c].tagged)
  /\ StripeOnly

-----------------------------------------------------------------------------
(* POST /webhook *)

PlanOrder == <<"starter", "business", "enterprise">>

(* The first plan with this price, a price that is not configured ("")     *)
(* included; free when there is none.                                      *)
PlanFromPriceID(p) ==
  LET found == {i \in DOMAIN PlanOrder : PriceIDForPlan[PlanOrder[i]] = p}
  IN  IF found = {} THEN "free"
      ELSE PlanOrder[CHOOSE i \in found : \A j \in found : i <= j]

(* A mutant: the end of a subscription is stored like any other change.    *)
PlanOfPrice(e) == PlanFromPriceID(e.price)

PlanOf(e) == IF e.type = "deleted" THEN "free" ELSE PlanFromPriceID(e.price)

(* SetSubscription, whichever subscription the row had before; the handler *)
(* logs an error and answers 200.                                          *)
SetSubscription(e, ok) ==
  IF ok THEN plan' = PlanOf(e) /\ subscribed' = e.of
        ELSE UNCHANGED <<plan, subscribed>>

(* An event without the metadata is accepted and ignored.                  *)
Webhook(i) ==
  /\ \E ok \in BOOLEAN :
       /\ IF events[i].tagged THEN SetSubscription(events[i], ok)
                              ELSE UNCHANGED <<plan, subscribed>>
       /\ disturbed' = (disturbed \/ ~ok \/ \E j \in delivered : j > i)
  /\ delivered' = delivered \cup {i}
  /\ UNCHANGED <<customer, checkout, stripeVars, troubled>>

-----------------------------------------------------------------------------
Checkout(c) ==
  \/ \E p \in PaidPlans : BeginCheckout(c, p)
  \/ CreateOrGetCustomer(c) \/ SetStripeCustomerID(c) \/ CreateCheckoutSession(c)

Stripe(c) ==
  \/ Pay(c) \/ TagByHand(c) \/ Cancel(c)
  \/ \E p \in Prices : ChangePrice(c, p)

Next ==
  \/ \E c \in Checkouts : Checkout(c) \/ Stripe(c)
  \/ \E i \in DOMAIN events : Webhook(i)

Spec == Init /\ [][Next]_vars

-----------------------------------------------------------------------------
(* Properties *)

(* What is paid in a checkout never reaches the workspace: its plan and    *)
(* subscription are those of registration until somebody gives a           *)
(* subscription its metadata by hand, because the webhook looks for it on  *)
(* the subscription while checkout puts it on the customer.                *)
CheckoutsReachNobody ==
  (\A c \in Checkouts : ~subscription[c].tagged)
    => plan = "starter" /\ subscribed = NoCheckout

(* Checkouts that follow one another and whose calls succeed use one       *)
(* customer; others may leave customers in Stripe that the workspace does  *)
(* not know.                                                               *)
OneCustomerUnlessTroubled ==
  ~troubled => /\ Cardinality(customers) <= 1
               /\ \A c \in Checkouts : checkout[c].step \in {"session", "url"} =>
                    checkout[c].customer = customer

Bought == {c \in Checkouts : subscription[c].state # "none"}

StripePlan(c) ==
  IF subscription[c].state = "deleted"
  THEN "free" ELSE PlanFromPriceID(subscription[c].price)

(* Once every event was delivered the plan is that of the subscription, or *)
(* there is a reason: events came out of order or an UPDATE failed, there  *)
(* is no metadata, or the workspace has bought twice and the events of the *)
(* older subscription count as well.                                       *)
StalePlanHasReason ==
  \A c \in Checkouts :
    Bought = {c} /\ subscription[c].tagged /\ ~disturbed
      /\ delivered = DOMAIN events => plan = StripePlan(c)
=============================================================================
