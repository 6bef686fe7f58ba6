---------------------------- MODULE BillingProofs ---------------------------
(***************************************************************************)
(* Proofs about Billing, for any number of checkouts and events, any       *)
(* prices and any configuration of the plans.                              *)
(***************************************************************************)
EXTENDS Billing, FiniteSetTheorems, TLAPS

(* The record of a checkout when Stripe has the customers S.               *)
Record(S) == [step : Steps, price : Prices \cup {""},
              customer : S \cup {NoCheckout}]

Step(r, S) ==
  /\ r \in Record(S)
  /\ r.step \in {"save", "session", "url"} => r.customer # NoCheckout
  /\ r.step = "url" => r.price \in Prices

LEMMA PlanType == \A p : PlanFromPriceID(p) \in Plans
<1> SUFFICES ASSUME NEW p PROVE PlanFromPriceID(p) \in Plans
  OBVIOUS
<1> DEFINE found == {i \in DOMAIN PlanOrder : PriceIDForPlan[PlanOrder[i]] = p}
           first == CHOOSE i \in found : \A j \in found : i <= j
<1>1. found \subseteq 1..3
  BY DEF PlanOrder
<1>2. CASE found = {}
  BY <1>2 DEF PlanFromPriceID, Plans
<1>3. CASE found # {}
  <2>1. \E i \in found : \A j \in found : i <= j
    BY <1>1, <1>3
  <2>2. first \in found
    BY <2>1
  <2>3. PlanOrder[first] \in Plans
    <3>1. first \in 1..3
      BY <1>1, <2>2
    <3> HIDE DEF first
    <3> QED BY <3>1 DEF PlanOrder, Plans
  <2> QED BY <1>3, <2>3 DEF PlanFromPriceID
<1> QED BY <1>2, <1>3

(* The list of events with one more.                                       *)
LEMMA AppendFacts ==
  ASSUME NEW S, NEW q \in Seq(S), NEW x \in S
  PROVE  /\ Append(q, x) \in Seq(S)
         /\ Len(q) \in Nat /\ Len(Append(q, x)) = Len(q) + 1
         /\ DOMAIN q = 1..Len(q)
         /\ DOMAIN Append(q, x) = 1..(Len(q) + 1)
         /\ \A i \in 1..Len(q) : Append(q, x)[i] = q[i]
         /\ Append(q, x)[Len(q) + 1] = x
  OBVIOUS

-----------------------------------------------------------------------------
(* Type correctness.                                                       *)
LEMMA InitType == Init => TypeOK
<1> SUFFICES ASSUME Init PROVE TypeOK
  OBVIOUS
<1>1. (CHOOSE p \in Prices : TRUE) \in Prices
  BY BillingAssumption
<1>2. events \in Seq(Events) /\ Len(events) <= MaxEvents
  <2>1. events = <<>> /\ Len(<<>>) = 0
    BY DEF Init
  <2>2. MaxEvents \in Nat
    BY BillingAssumption
  <2>3. <<>> \in Seq(Events)
    OBVIOUS
  <2> QED BY <2>1, <2>2, <2>3
<1>3. /\ customer \in customers \cup {NoCheckout} /\ customers \subseteq Checkouts
      /\ plan \in Plans /\ subscribed \in Checkouts \cup {NoCheckout}
      /\ delivered \subseteq DOMAIN events
      /\ troubled \in BOOLEAN /\ disturbed \in BOOLEAN
  BY DEF Init, Plans
<1>4. /\ checkout \in [Checkouts -> [step : Steps, price : Prices \cup {""},
                                     customer : customers \cup {NoCheckout}]]
      /\ \A c \in Checkouts : checkout[c].step = "new"
  BY DEF Init, Steps
<1>5. /\ subscription \in [Checkouts -> Subscriptions]
      /\ \A c \in Checkouts : subscription[c].state = "none"
  BY <1>1 DEF Init, Subscriptions
<1>6. \A c \in Checkouts : /\ checkout[c].step \notin {"save", "session", "url"}
                           /\ checkout[c].step # "url"
                           /\ ~ (subscription[c].state # "none")
  BY <1>4, <1>5
<1>7. \A c \in Checkouts :
        /\ checkout[c].step \in {"save", "session", "url"} =>
             checkout[c].customer # NoCheckout
        /\ checkout[c].step = "url" => checkout[c].price \in Prices
        /\ subscription[c].state # "none" => checkout[c].step = "url"
  BY <1>6
<1> QED BY <1>2, <1>3, <1>4, <1>5, <1>7, Zenon DEF TypeOK

(* A step of a checkout changes its own record only, and the customers     *)
(* only by the one it makes.                                               *)
LEMMA CheckoutStep ==
  ASSUME TypeOK, NEW c \in Checkouts, Checkout(c)
  PROVE  /\ \E r : Step(r, customers') /\ checkout' = [checkout EXCEPT ![c] = r]
         /\ customers' \in {customers, customers \cup {c}}
         /\ customer' \in customers' \cup {NoCheckout}
         /\ subscription[c].state = "none"
         /\ troubled' \in BOOLEAN
         /\ UNCHANGED <<plan, subscribed, subscription, events, delivered,
                       disturbed>>
<1> DEFINE Result ==
      /\ \E r : Step(r, customers') /\ checkout' = [checkout EXCEPT ![c] = r]
      /\ customers' \in {customers, customers \cup {c}}
      /\ customer' \in customers' \cup {NoCheckout}
      /\ subscription[c].state = "none"
      /\ troubled' \in BOOLEAN
      /\ UNCHANGED <<plan, subscribed, subscription, events, delivered,
                    disturbed>>
<1>0. Step(checkout[c], customers)
  BY DEF TypeOK, Step, Record
<1> USE DEF Step, Record, rowVars, stripeVars
<1>1. ASSUME NEW p \in PaidPlans, BeginCheckout(c, p) PROVE Result
  <2> DEFINE r == [step |-> IF customer = NoCheckout THEN "customer" ELSE "session",
                   price |-> PriceIDForPlan[p], customer |-> customer]
  <2>1. Step(r, customers') /\ checkout' = [checkout EXCEPT ![c] = r]
    BY <1>1, BillingAssumption DEF BeginCheckout, TypeOK, Steps
  <2> HIDE DEF r
  <2> QED BY <1>1, <2>1 DEF BeginCheckout, TypeOK
<1>2. CASE CreateOrGetCustomer(c)
  <2> DEFINE good == [checkout[c] EXCEPT !.step = "save", !.customer = c]
             bad == [checkout[c] EXCEPT !.step = "failed"]
  <2>1. \/ /\ checkout' = [checkout EXCEPT ![c] = good]
           /\ customers' = customers \cup {c} /\ troubled' = troubled
        \/ /\ checkout' = [checkout EXCEPT ![c] = bad]
           /\ customers' \in {customers, customers \cup {c}}
           /\ troubled' = TRUE
    BY <1>2 DEF CreateOrGetCustomer, Goto, Fail, TypeOK
  <2>2. customers' = customers \cup {c} => Step(good, customers')
    BY <1>0, BillingAssumption DEF Steps
  <2>3. customers' \in {customers, customers \cup {c}} => Step(bad, customers')
    BY <1>0 DEF Steps
  <2> HIDE DEF good, bad
  <2> QED BY <1>2, <2>1, <2>2, <2>3 DEF CreateOrGetCustomer, TypeOK
<1>3. CASE SetStripeCustomerID(c)
  <2> DEFINE r == [checkout[c] EXCEPT !.step = "session"]
  <2>1. checkout' = [checkout EXCEPT ![c] = r] /\ checkout[c].step = "save"
    BY <1>3 DEF SetStripeCustomerID, Goto, TypeOK
  <2>2. Step(r, customers')
    BY <1>0, <1>3, <2>1 DEF SetStripeCustomerID, Steps
  <2> HIDE DEF r
  <2> QED BY <1>0, <1>3, <2>1, <2>2 DEF SetStripeCustomerID, TypeOK
<1>4. CASE CreateCheckoutSession(c)
  <2> DEFINE good == [checkout[c] EXCEPT !.step = "url"]
             bad == [checkout[c] EXCEPT !.step = "failed"]
  <2>1. \/ /\ checkout' = [checkout EXCEPT ![c] = good]
           /\ checkout[c].price \in Prices /\ troubled' = troubled
        \/ checkout' = [checkout EXCEPT ![c] = bad] /\ troubled' = TRUE
    BY <1>4 DEF CreateCheckoutSession, Goto, Fail, TypeOK
  <2>2. checkout[c].price \in Prices => Step(good, customers')
    BY <1>0, <1>4 DEF CreateCheckoutSession, Steps
  <2>3. Step(bad, customers')
    BY <1>0, <1>4 DEF CreateCheckoutSession, Steps
  <2> HIDE DEF good, bad
  <2> QED BY <1>4, <2>1, <2>2, <2>3 DEF CreateCheckoutSession, TypeOK
<1> QED BY <1>1, <1>2, <1>3, <1>4 DEF Checkout

LEMMA CheckoutType ==
  ASSUME TypeOK, NEW c \in Checkouts, Checkout(c)
  PROVE  TypeOK'
<1>1. PICK r : Step(r, customers') /\ checkout' = [checkout EXCEPT ![c] = r]
  BY CheckoutStep
<1>2. /\ customers \subseteq customers' /\ customers' \subseteq Checkouts
      /\ customer' \in customers' \cup {NoCheckout}
      /\ subscription[c].state = "none"
      /\ troubled' \in BOOLEAN
      /\ UNCHANGED <<plan, subscribed, subscription, events, delivered,
                    disturbed>>
  BY CheckoutStep DEF TypeOK
<1>3. \A d \in Checkouts : Step(checkout'[d], customers')
  BY <1>1, <1>2 DEF TypeOK, Step, Record
<1>4. checkout' \in [Checkouts -> Record(customers')]
  BY <1>1, <1>2 DEF TypeOK, Step, Record
<1>5. \A d \in Checkouts : subscription'[d].state # "none" => checkout'[d].step = "url"
  BY <1>1, <1>2 DEF TypeOK
<1> QED BY <1>2, <1>3, <1>4, <1>5 DEF TypeOK, Step, Record

(* A step of Stripe pays for, changes or ends one subscription whose       *)
(* session had an address, and emits one event about it.                   *)
Emitted(c, s, e) ==
  /\ s \in Subscriptions /\ s.state # "none"
  /\ subscription' = [subscription EXCEPT ![c] = s]
  /\ e \in Events /\ e.of = c
  /\ events' = Append(events, e) /\ Len(events) < MaxEvents
  /\ checkout[c].step = "url"
  /\ subscription[c].state \in {"none", "active"}

StripeStep(c) ==
  \E s, e : /\ Emitted(c, s, e)
            /\ e.tagged <=> s.tagged
            /\ subscription[c].state = "active" /\ subscription[c].tagged
                 => s.tagged
            /\ s.tagged =>
                 PlanOf(e) = IF s.state = "deleted" THEN "free"
                             ELSE PlanFromPriceID(s.price)

LEMMA StripeSteps ==
  ASSUME TypeOK, NEW c \in Checkouts, Stripe(c)
  PROVE  StripeOnly /\ StripeStep(c)
<1> USE DEF TypeOK, Emit, Emitted
<1> DEFINE old == subscription[c]
<1>0. old \in Subscriptions
  OBVIOUS
<1>1. CASE Pay(c)
  <2> DEFINE s == [state |-> "active", price |-> checkout[c].price,
                   tagged |-> FALSE]
             e == [type |-> "completed", of |-> c, price |-> "",
                   tagged |-> FALSE]
  <2>1. Emitted(c, s, e)
    BY <1>1 DEF Pay, Subscriptions, Events
  <2>2. ~ s.tagged /\ ~ e.tagged /\ old.state # "active"
    BY <1>1 DEF Pay
  <2> HIDE DEF s, e
  <2> QED BY <1>1, <2>1, <2>2 DEF Pay, StripeStep
<1>2. CASE TagByHand(c)
  <2> DEFINE s == [old EXCEPT !.tagged = TRUE]
             e == [type |-> "updated", of |-> c, price |-> old.price,
                   tagged |-> TRUE]
  <2>1. Emitted(c, s, e)
    BY <1>0, <1>2 DEF TagByHand, Subscriptions, Events
  <2>2. s.tagged /\ e.tagged
    BY <1>0 DEF Subscriptions
  <2>3. PlanOf(e) = PlanFromPriceID(s.price) /\ s.state # "deleted"
    BY <1>0, <1>2 DEF TagByHand, PlanOf, Subscriptions
  <2> HIDE DEF s, e
  <2> QED BY <1>2, <2>1, <2>2, <2>3 DEF TagByHand, StripeStep
<1>3. CASE Cancel(c)
  <2> DEFINE s == [old EXCEPT !.state = "deleted"]
             e == [type |-> "deleted", of |-> c, price |-> old.price,
                   tagged |-> old.tagged]
  <2>1. Emitted(c, s, e)
    BY <1>0, <1>3 DEF Cancel, Subscriptions, Events
  <2>2. s.tagged = old.tagged /\ e.tagged = old.tagged /\ s.state = "deleted"
    BY <1>0 DEF Subscriptions
  <2>3. PlanOf(e) = "free"
    BY DEF PlanOf
  <2>4. StripeOnly
    BY <1>3 DEF Cancel
  <2> HIDE DEF s, e
  <2>5. StripeStep(c)
    BY <2>1, <2>2, <2>3, Zenon DEF StripeStep
  <2> QED BY <2>4, <2>5
<1>4. ASSUME NEW p \in Prices, ChangePrice(c, p)
      PROVE  StripeOnly /\ StripeStep(c)
  <2> DEFINE s == [old EXCEPT !.price = p]
             e == [type |-> "updated", of |-> c, price |-> p,
                   tagged |-> old.tagged]
  <2>1. Emitted(c, s, e)
    BY <1>0, <1>4 DEF ChangePrice, Subscriptions, Events
  <2>2. s.tagged = old.tagged /\ e.tagged = old.tagged
    BY <1>0 DEF Subscriptions
  <2>3. PlanOf(e) = PlanFromPriceID(s.price) /\ s.state # "deleted"
    BY <1>0, <1>4 DEF ChangePrice, PlanOf, Subscriptions
  <2>4. StripeOnly
    BY <1>4 DEF ChangePrice
  <2> HIDE DEF s, e
  <2>5. StripeStep(c)
    BY <2>1, <2>2, <2>3, Zenon DEF StripeStep
  <2> QED BY <2>4, <2>5
<1> QED BY <1>1, <1>2, <1>3, <1>4 DEF Stripe

LEMMA EventType ==
  ASSUME TypeOK, NEW i \in DOMAIN events
  PROVE  events[i] \in Events /\ events[i].of \in Checkouts
<1>1. events \in Seq(Events)
  BY DEF TypeOK
<1>2. events[i] \in Events
  BY <1>1
<1> QED BY <1>2 DEF Events

LEMMA EmittedEvents ==
  ASSUME TypeOK, NEW c \in Checkouts, NEW s, NEW e, Emitted(c, s, e)
  PROVE  /\ events' \in Seq(Events) /\ Len(events') <= MaxEvents
         /\ Len(events) \in Nat /\ Len(events') = Len(events) + 1
         /\ DOMAIN events = 1..Len(events)
         /\ DOMAIN events' = 1..(Len(events) + 1)
         /\ DOMAIN events \subseteq DOMAIN events'
         /\ \A i \in DOMAIN events : events'[i] = events[i] /\ events[i] \in Events
         /\ events'[Len(events) + 1] = e
<1>1. /\ events \in Seq(Events) /\ e \in Events /\ events' = Append(events, e)
      /\ Len(events) < MaxEvents /\ MaxEvents \in Nat
  BY BillingAssumption DEF TypeOK, Emitted
<1>2. \A i \in DOMAIN events : events[i] \in Events
  BY <1>1
<1> QED BY <1>1, <1>2, AppendFacts

LEMMA StripeType ==
  ASSUME TypeOK, NEW c \in Checkouts, Stripe(c)
  PROVE  TypeOK'
<1>1. StripeOnly /\ StripeStep(c)
  BY StripeSteps
<1>2. PICK s, e : Emitted(c, s, e)
  BY <1>1 DEF StripeStep
<1>3. /\ events' \in Seq(Events) /\ Len(events') <= MaxEvents
      /\ DOMAIN events \subseteq DOMAIN events'
  BY <1>2, EmittedEvents
<1>4. subscription' \in [Checkouts -> Subscriptions]
      /\ \A d \in Checkouts : subscription'[d].state # "none" =>
           subscription[d].state # "none" \/ checkout[d].step = "url"
  BY <1>2 DEF TypeOK, Emitted
<1> QED BY <1>1, <1>3, <1>4, Zenon DEF TypeOK, StripeOnly, rowVars

LEMMA WebhookType ==
  ASSUME TypeOK, NEW i \in DOMAIN events, Webhook(i)
  PROVE  TypeOK'
<1>1. events[i] \in Events
  BY EventType
<1>2. PlanOf(events[i]) \in Plans
  BY PlanType DEF PlanOf, Plans
<1>3. plan' \in Plans /\ subscribed' \in Checkouts \cup {NoCheckout}
  BY <1>1, <1>2 DEF Webhook, SetSubscription, TypeOK, Events
<1>4. disturbed' \in BOOLEAN /\ delivered' \subseteq DOMAIN events
      /\ UNCHANGED <<customer, checkout, stripeVars, troubled>>
  BY DEF Webhook, TypeOK
<1> QED BY <1>3, <1>4, Zenon DEF TypeOK, stripeVars

LEMMA NextType == TypeOK /\ [Next]_vars => TypeOK'
<1>1. CASE UNCHANGED vars
  BY <1>1 DEF TypeOK, vars, rowVars, stripeVars
<1> QED BY <1>1, CheckoutType, StripeType, WebhookType DEF Next

(* The rows of the workspace, the checkouts and what Stripe holds always   *)
(* have their types; in particular no checkout has an address without a    *)
(* customer and a price, and nothing is subscribed without an address.     *)
THEOREM TypeCorrect == Spec => []TypeOK
<1>1. Init => TypeOK BY InitType
<1>2. TypeOK /\ [Next]_vars => TypeOK' BY NextType
<1> QED BY <1>1, <1>2, PTL DEF Spec

-----------------------------------------------------------------------------
(* Nothing but a hand reaches the workspace.                               *)

(* A subscription that was not paid for has no metadata, an event has what *)
(* its subscription has still, and only metadata lets an event through.    *)
Untouched ==
  /\ \A c \in Checkouts :
       subscription[c].state = "none" => ~ subscription[c].tagged
  /\ \A i \in DOMAIN events :
       events[i].tagged => subscription[events[i].of].tagged
  /\ CheckoutsReachNobody

LEMMA InitUntouched == Init => Untouched
<1> SUFFICES ASSUME Init PROVE Untouched
  OBVIOUS
<1>1. \A c \in Checkouts : subscription[c].tagged = FALSE
  BY DEF Init
<1>2. DOMAIN events = {}
  <2>1. events = <<>> BY DEF Init
  <2> QED BY <2>1
<1>3. plan = "starter" /\ subscribed = NoCheckout
  BY DEF Init
<1> QED BY <1>1, <1>2, <1>3 DEF Untouched, CheckoutsReachNobody

LEMMA NextUntouched == TypeOK /\ Untouched /\ [Next]_vars => Untouched'
<1> SUFFICES ASSUME TypeOK, Untouched, [Next]_vars PROVE Untouched'
  OBVIOUS
<1>1. CASE UNCHANGED vars
  BY <1>1 DEF Untouched, CheckoutsReachNobody, vars, rowVars, stripeVars
<1>2. ASSUME NEW c \in Checkouts, Checkout(c) PROVE Untouched'
  <2>1. UNCHANGED <<plan, subscribed, subscription, events>>
    BY <1>2, CheckoutStep
  <2> QED BY <2>1 DEF Untouched, CheckoutsReachNobody
<1>3. ASSUME NEW c \in Checkouts, Stripe(c) PROVE Untouched'
  <2>1. StripeOnly
    BY <1>3, StripeSteps
  <2>0. StripeStep(c)
    BY <1>3, StripeSteps
  <2>2. PICK s, e : /\ Emitted(c, s, e)
                    /\ e.tagged <=> s.tagged
                    /\ subscription[c].state = "active" /\ subscription[c].tagged
                         => s.tagged
    BY <2>0 DEF StripeStep
  <2>3. /\ subscription'[c] = s
        /\ \A d \in Checkouts \ {c} : subscription'[d] = subscription[d]
    BY <2>2 DEF Emitted, TypeOK
  <2>4. subscription[c].tagged => s.tagged
    BY <2>2 DEF Emitted, Untouched
  <2>5. \A d \in Checkouts : subscription[d].tagged => subscription'[d].tagged
    BY <2>3, <2>4
  <2>6. ASSUME NEW i \in DOMAIN events'
        PROVE  events'[i].tagged => subscription'[events'[i].of].tagged
    <3>1. CASE i \in DOMAIN events
      <4>1. events'[i] = events[i] /\ events[i].of \in Checkouts
        BY <2>2, <3>1, EmittedEvents DEF Events
      <4> QED BY <2>5, <3>1, <4>1 DEF Untouched
    <3>2. CASE i \notin DOMAIN events
      <4>1. events'[i] = e /\ e.of = c
        BY <2>2, <2>6, <3>2, EmittedEvents DEF Emitted
      <4> QED BY <2>2, <2>3, <4>1
    <3> QED BY <3>1, <3>2
  <2>7. ASSUME NEW d \in Checkouts, subscription'[d].state = "none"
        PROVE  ~ subscription'[d].tagged
    BY <2>2, <2>3, <2>7 DEF Emitted, Untouched
  <2>8. CheckoutsReachNobody'
    BY <2>1, <2>5 DEF StripeOnly, rowVars, Untouched, CheckoutsReachNobody
  <2> QED BY <2>6, <2>7, <2>8 DEF Untouched
<1>4. ASSUME NEW i \in DOMAIN events, Webhook(i) PROVE Untouched'
  <2>1. events[i].of \in Checkouts
    BY EventType
  <2>2. ~ events[i].tagged => UNCHANGED <<plan, subscribed>>
    BY <1>4 DEF Webhook
  <2>3. UNCHANGED <<subscription, events>>
    BY <1>4 DEF Webhook, stripeVars
  <2> QED BY <2>1, <2>2, <2>3 DEF Untouched, CheckoutsReachNobody
<1> QED BY <1>1, <1>2, <1>3, <1>4 DEF Next

(* However many checkouts are paid, whatever Stripe does on its own and    *)
(* however its events arrive: the workspace keeps the plan it registered   *)
(* with until somebody gives a subscription its metadata by hand.          *)
THEOREM CheckoutsReachNobodyHolds == Spec => []CheckoutsReachNobody
<1>1. Init => Untouched BY InitUntouched
<1>2. TypeOK /\ Untouched /\ [Next]_vars => Untouched' BY NextUntouched
<1>3. Untouched => CheckoutsReachNobody BY DEF Untouched
<1> QED BY <1>1, <1>2, <1>3, TypeCorrect, PTL DEF Spec

-----------------------------------------------------------------------------
(* One customer.                                                           *)

(* Without trouble at most one checkout runs; the row's customer is the    *)
(* only one, and a customer that is not in the row yet is about to be.     *)
Alone ==
  /\ \A c, d \in Checkouts : Running(c) /\ Running(d) => c = d
  /\ customer # NoCheckout => customers = {customer}
  /\ customer = NoCheckout =>
       \/ customers = {}
       \/ \E c \in Checkouts : checkout[c].step = "save"
  /\ \A c \in Checkouts :
       /\ checkout[c].step = "customer" => customer = NoCheckout /\ customers = {}
       /\ checkout[c].step = "save" =>
            customer = NoCheckout /\ customers = {checkout[c].customer}
       /\ checkout[c].step \in {"session", "url"} =>
            customer # NoCheckout /\ checkout[c].customer = customer

LEMMA InitAlone == Init => Alone
<1> SUFFICES ASSUME Init PROVE Alone
  OBVIOUS
<1>1. customer = NoCheckout /\ customers = {}
  BY DEF Init
<1>2. \A c \in Checkouts : checkout[c].step = "new"
  BY DEF Init
<1> QED BY <1>1, <1>2 DEF Alone, Running

(* Only a checkout and nothing of Stripe's moves what Alone is about.      *)
LEMMA NextAlone ==
  ASSUME TypeOK, ~ troubled => Alone, [Next]_vars, ~ troubled'
  PROVE  Alone'
<1> USE DEF Running
<1>0. NoCheckout \notin customers
  BY BillingAssumption DEF TypeOK
<1>1. CASE UNCHANGED <<customer, checkout, customers, troubled>>
  BY <1>1 DEF Alone
<1>2. ASSUME NEW c \in Checkouts, NEW p \in PaidPlans, BeginCheckout(c, p)
      PROVE  Alone'
  <2>1. /\ ~ troubled /\ \A d \in Checkouts \ {c} : ~ Running(d)
        /\ checkout[c].step = "new" /\ UNCHANGED <<customer, customers>>
    BY <1>2 DEF BeginCheckout, rowVars, stripeVars
  <2>2. Alone /\ \A d \in Checkouts : ~ Running(d)
    BY <2>1
  <2>3. /\ checkout'[c].step = IF customer = NoCheckout THEN "customer" ELSE "session"
        /\ checkout'[c].customer = customer
        /\ \A d \in Checkouts \ {c} : checkout'[d] = checkout[d]
    BY <1>2 DEF BeginCheckout, TypeOK
  <2> QED BY <2>1, <2>2, <2>3 DEF Alone
<1>3. ASSUME NEW c \in Checkouts, CreateOrGetCustomer(c) PROVE Alone'
  <2>1. /\ ~ troubled /\ customers' = customers \cup {c} /\ customer' = customer
        /\ checkout[c].step = "customer"
        /\ checkout' = [checkout EXCEPT ![c].step = "save", ![c].customer = c]
    BY <1>3 DEF CreateOrGetCustomer, Fail, rowVars
  <2>2. /\ checkout'[c].step = "save" /\ checkout'[c].customer = c
        /\ \A d \in Checkouts \ {c} : checkout'[d] = checkout[d]
    BY <2>1 DEF TypeOK
  <2>3. Alone /\ Running(c) /\ \A d \in Checkouts \ {c} : ~ Running(d)
    BY <2>1 DEF Alone
  <2>4. customers' = {c} /\ customer' = NoCheckout
    BY <2>1, <2>3 DEF Alone
  <2> QED BY <2>1, <2>2, <2>3, <2>4 DEF Alone
<1>4. ASSUME NEW c \in Checkouts, SetStripeCustomerID(c) PROVE Alone'
  <2>1. /\ ~ troubled /\ customers' = customers
        /\ customer' = checkout[c].customer
        /\ checkout[c].step = "save"
        /\ checkout' = [checkout EXCEPT ![c].step = "session"]
    BY <1>4 DEF SetStripeCustomerID, Goto, stripeVars
  <2>2. /\ checkout'[c].step = "session"
        /\ checkout'[c].customer = checkout[c].customer
        /\ \A d \in Checkouts \ {c} : checkout'[d] = checkout[d]
    BY <2>1 DEF TypeOK
  <2>3. Alone /\ Running(c) /\ \A d \in Checkouts \ {c} : ~ Running(d)
    BY <2>1 DEF Alone
  <2>4. /\ customers' = {customer'} /\ customer' # NoCheckout
        /\ customer = NoCheckout
    BY <2>1, <2>3 DEF Alone, TypeOK
  <2>5. \A d \in Checkouts \ {c} :
          checkout'[d].step \notin {"customer", "save", "session", "url"}
    BY <2>2, <2>3, <2>4 DEF Alone
  <2>6. \A d \in Checkouts : Running(d)' => d = c
    BY <2>5
  <2>7. checkout'[c].customer = customer'
    BY <2>1, <2>2
  <2>8. \A d \in Checkouts : /\ checkout'[d].step \notin {"customer", "save"}
                             /\ checkout'[d].step \in {"session", "url"} => d = c
    BY <2>2, <2>5
  <2> QED BY <2>4, <2>6, <2>7, <2>8 DEF Alone
<1>5. ASSUME NEW c \in Checkouts, CreateCheckoutSession(c) PROVE Alone'
  <2>1. /\ ~ troubled /\ UNCHANGED <<customer, customers>>
        /\ checkout[c].step = "session"
        /\ checkout' = [checkout EXCEPT ![c].step = "url"]
    BY <1>5 DEF CreateCheckoutSession, Goto, Fail, rowVars, stripeVars
  <2>2. /\ checkout'[c].step = "url"
        /\ checkout'[c].customer = checkout[c].customer
        /\ \A d \in Checkouts \ {c} : checkout'[d] = checkout[d]
    BY <2>1 DEF TypeOK
  <2> QED BY <2>1, <2>2 DEF Alone
<1>6. ASSUME NEW c \in Checkouts, Stripe(c) PROVE Alone'
  BY <1>1, <1>6, StripeSteps DEF StripeOnly, rowVars
<1>7. ASSUME NEW i \in DOMAIN events, Webhook(i) PROVE Alone'
  BY <1>1, <1>7 DEF Webhook, stripeVars
<1> QED
  BY <1>1, <1>2, <1>3, <1>4, <1>5, <1>6, <1>7
  DEF Next, Checkout, vars, rowVars, stripeVars

(* Checkouts that neither overlap nor lose a call leave one customer at    *)
(* most, and every session is the row's customer's.                        *)
THEOREM OneCustomerUnlessTroubledHolds == Spec => []OneCustomerUnlessTroubled
<1> DEFINE Inv == ~ troubled => Alone
<1>1. Init => Inv
  BY InitAlone
<1>2. TypeOK /\ Inv /\ [Next]_vars => Inv'
  BY NextAlone
<1>3. Inv => OneCustomerUnlessTroubled
  <2> SUFFICES ASSUME Alone PROVE OneCustomerUnlessTroubled
    BY DEF OneCustomerUnlessTroubled
  <2>1. customers = {} \/ \E x : customers = {x}
    BY DEF Alone
  <2>2. Cardinality(customers) <= 1
    <3>1. CASE customers = {}
      BY <3>1, FS_EmptySet
    <3>2. ASSUME NEW x, customers = {x} PROVE Cardinality(customers) = 1
      BY <3>2, FS_Singleton
    <3> QED BY <2>1, <3>1, <3>2
  <2> QED BY <2>2 DEF Alone, OneCustomerUnlessTroubled
<1> HIDE DEF Inv
<1> QED BY <1>1, <1>2, <1>3, TypeCorrect, PTL DEF Spec

-----------------------------------------------------------------------------
(* The plan follows Stripe.                                                *)

(* The last event of a tagged subscription tells what it is now, and       *)
(* without disturbance the row has what the last delivered event says.     *)
Followed ==
  /\ \A c \in Checkouts :
       Bought = {c} /\ subscription[c].tagged =>
         /\ Len(events) \in DOMAIN events
         /\ events[Len(events)].tagged
         /\ PlanOf(events[Len(events)]) = StripePlan(c)
  /\ ~ disturbed =>
       \A i \in delivered :
         (\A j \in delivered : j <= i) /\ events[i].tagged =>
           plan = PlanOf(events[i])

LEMMA InitFollowed == Init => Followed
<1> SUFFICES ASSUME Init PROVE Followed
  OBVIOUS
<1>1. \A c \in Checkouts : subscription[c].tagged = FALSE
  BY DEF Init
<1>2. delivered = {}
  BY DEF Init
<1> QED BY <1>1, <1>2 DEF Followed

LEMMA NextFollowed == TypeOK /\ Followed /\ [Next]_vars => Followed'
<1> SUFFICES ASSUME TypeOK, Followed, [Next]_vars PROVE Followed'
  OBVIOUS
<1> USE DEF Bought, StripePlan
<1>1. CASE UNCHANGED <<plan, subscription, events, delivered, disturbed>>
  BY <1>1 DEF Followed
<1>2. ASSUME NEW c \in Checkouts, Checkout(c) PROVE Followed'
  BY <1>1, <1>2, CheckoutStep
<1>3. ASSUME NEW c \in Checkouts, Stripe(c) PROVE Followed'
  <2>1. StripeOnly /\ StripeStep(c)
    BY <1>3, StripeSteps
  <2>2. PICK s, e : /\ Emitted(c, s, e)
                    /\ e.tagged <=> s.tagged
                    /\ s.tagged =>
                         PlanOf(e) = IF s.state = "deleted" THEN "free"
                                     ELSE PlanFromPriceID(s.price)
    BY <2>1 DEF StripeStep
  <2>3. subscription'[c] = s /\ s.state # "none"
    BY <2>2 DEF Emitted, TypeOK
  <2>4. ASSUME NEW d \in Checkouts, Bought' = {d}, subscription'[d].tagged
        PROVE  /\ Len(events') \in DOMAIN events'
               /\ events'[Len(events')].tagged
               /\ PlanOf(events'[Len(events')]) = StripePlan(d)'
    <3>1. d = c
      BY <2>3, <2>4
    <3>2. Len(events') \in DOMAIN events' /\ events'[Len(events')] = e
      BY <2>2, EmittedEvents
    <3> QED BY <2>2, <2>3, <2>4, <3>1, <3>2
  <2>5. ASSUME ~ disturbed', NEW i \in delivered',
               \A j \in delivered' : j <= i, events'[i].tagged
        PROVE  plan' = PlanOf(events'[i])
    <3>1. UNCHANGED <<plan, delivered, disturbed>>
      BY <2>1 DEF StripeOnly, rowVars
    <3>2. events'[i] = events[i]
      BY <2>2, <2>5, <3>1, EmittedEvents DEF TypeOK
    <3> QED BY <2>5, <3>1, <3>2 DEF Followed
  <2> QED BY <2>4, <2>5 DEF Followed
<1>4. ASSUME NEW i \in DOMAIN events, Webhook(i) PROVE Followed'
  <2>1. UNCHANGED <<subscription, events>> /\ delivered' = delivered \cup {i}
    BY <1>4 DEF Webhook, stripeVars
  <2>2. ASSUME ~ disturbed', NEW k \in delivered',
               \A j \in delivered' : j <= k, events[k].tagged
        PROVE  plan' = PlanOf(events[k])
    <3>1. events[i].tagged => SetSubscription(events[i], TRUE)
      BY <1>4, <2>2 DEF Webhook
    <3>2. \A j \in delivered : ~ (j > i)
      BY <1>4, <2>2 DEF Webhook
    <3>3. delivered \subseteq Nat /\ i \in Nat
      <4>1. events \in Seq(Events) /\ delivered \subseteq DOMAIN events
        BY DEF TypeOK
      <4>2. DOMAIN events = 1 .. Len(events) /\ Len(events) \in Nat
        BY <4>1
      <4> QED BY <4>1, <4>2
    <3>4. k = i
      BY <2>1, <2>2, <3>2, <3>3
    <3> QED BY <2>2, <3>1, <3>4 DEF SetSubscription
  <2> QED BY <2>1, <2>2 DEF Followed
<1> QED BY <1>1, <1>2, <1>3, <1>4 DEF Next, vars, rowVars, stripeVars

(* Once every event was delivered, in order and stored, a workspace that   *)
(* bought one tagged subscription has its plan, however often events were  *)
(* delivered.                                                              *)
THEOREM StalePlanHasReasonHolds == Spec => []StalePlanHasReason
<1>1. Init => Followed BY InitFollowed
<1>2. TypeOK /\ Followed /\ [Next]_vars => Followed' BY NextFollowed
<1>3. TypeOK /\ Followed => StalePlanHasReason
  <2> SUFFICES ASSUME TypeOK, Followed, NEW c \in Checkouts, Bought = {c},
                      subscription[c].tagged, ~ disturbed,
                      delivered = DOMAIN events
               PROVE  plan = StripePlan(c)
    BY DEF StalePlanHasReason
  <2>1. events \in Seq(Events)
    BY DEF TypeOK
  <2>2. \A j \in delivered : j <= Len(events)
    BY <2>1
  <2> QED BY <2>2 DEF Followed
<1> QED BY <1>1, <1>2, <1>3, TypeCorrect, PTL DEF Spec
=============================================================================
