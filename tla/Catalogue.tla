------------------------------- MODULE Catalogue -------------------------------
(***************************************************************************)
(* Which plan a Grow callback paid for, and for how long: the plans and    *)
(* the prices the admin lays over them (packages/billing/src/plans.ts,     *)
(* catalog.ts, admin/actions.ts), the reading of a callback (grow.ts) and  *)
(* the products a payer buys on Grow's page, whose prices somebody keeps   *)
(* by hand in step with the catalogue.                                     *)
(*                                                                         *)
(* Amounts are agorot and compared exactly; the code compares floating     *)
(* point shekels.  A description is the set of products it names.  Limits  *)
(* are saved with a price and left out: Usage and Numbers are checked for  *)
(* a given one.                                                            *)
(***************************************************************************)
EXTENDS Integers, Sequences, FiniteSetsExt

CONSTANTS
  Typed,       \* what the admin types as a price, in tenths of agorot
  PagePrices,  \* prices of products on Grow's page
  Orders,      \* payments a standing order may be opened for
  Noise        \* nonsense Grow may send as a count instead, or besides

ASSUME CatalogueAssumption ==
  /\ Typed \subseteq Int /\ PagePrices \subseteq Nat \ {0}
  /\ Orders \subseteq 1..12 /\ Noise \subseteq {n \in Int : n < 1}

VARIABLES
  override,  \* PlanConfig.priceIls of each plan, or NoRow
  sale,      \* a standing order: the plan, its price then, and its payments
  heard      \* how the last of its deliveries was read

catalogueVars == <<override, sale, heard>>

-------------------------------------------------------------------------------
(* The catalogue *)

PAID_PLANS == <<"STARTER", "PRO">>
PaidPlan == {"STARTER", "PRO"}
NoPlan == "none"
MAX_PAYMENTS == 12
NoRow == -1
Defaults == [STARTER |-> 4956, PRO |-> 8900]

\* mergePlans: a plan with no row keeps its default.
Price(p) == IF override[p] = NoRow THEN Defaults[p] ELSE override[p]

\* What is stored of what was typed; a negative one is no price.
Saved(p, typed) == IF typed < 0 THEN Defaults[p] ELSE (typed + 5) \div 10

-------------------------------------------------------------------------------
(* grow.ts *)

Absent == -1   \* a key that is missing or empty

\* The first of several keys that has a value.
Pick(values) ==
  LET given == {i \in DOMAIN values : values[i] # Absent}
  IN  IF given = {} THEN Absent ELSE values[Min(given)]

\* Missing, nonsense and less than one are one month.
GrowPayments(counts) ==
  LET n == Pick(counts) IN IF n < 1 THEN 1 ELSE Min({n, MAX_PAYMENTS})

GrowChargeIls(sums) == LET n == Pick(sums) IN IF n > 0 THEN n ELSE Absent

\* A charge within 1% or half a shekel of num / den.
Within(charge, num, den) ==
  LET off == charge * den - num
  IN  100 * Max({off, -off}) <= Max({5000 * den, num})

\* (mutant) the page is taken to report what was paid, VAT included
IsPriceShown(price, charge) == price > 0 /\ Within(charge, price, 1)

\* Whichever side of the VAT of 18% the page reports.
IsPrice(price, charge) ==
  /\ price > 0
  /\ \/ Within(charge, price, 1)
     \/ Within(charge, 118 * price, 100)
     \/ Within(charge, 100 * price, 118)

\* The product named, else the first plan of about that amount.
GrowPlan(named, charge) ==
  LET byName == {i \in DOMAIN PAID_PLANS : PAID_PLANS[i] \in named}
      byAmount == {i \in DOMAIN PAID_PLANS : charge # Absent /\ IsPrice(Price(PAID_PLANS[i]), charge)}
      first == IF byName # {} THEN byName ELSE byAmount
  IN  IF first = {} THEN NoPlan ELSE PAID_PLANS[Min(first)]

\* Grow says in several ways that a charge succeeded.
IsGrowSuccess(cb) == cb.statusCode = "2" \/ cb.status \in {"1", "success"}

-------------------------------------------------------------------------------
(* The admin, the payer and Grow *)

NoSale == [plan |-> NoPlan, price |-> 0, months |-> 0]
Unheard == [there |-> FALSE, plan |-> NoPlan, months |-> 0, named |-> FALSE, counted |-> FALSE]

CatalogueInit ==
  /\ override = [p \in PaidPlan |-> NoRow]
  /\ sale = NoSale /\ heard = Unheard

SavePlanConfig(p, typed) ==
  /\ override' = [override EXCEPT ![p] = Saved(p, typed)]
  /\ heard' = Unheard /\ UNCHANGED sale

\* A payer opens a standing order; its payments stay at the price of that day.
Buy(p, price, n) ==
  /\ sale' = [plan |-> p, price |-> price, months |-> n]
  /\ heard' = Unheard /\ UNCHANGED override

\* The price, with the VAT added to it, or taken off.
Sums(price) == {price, (118 * price + 50) \div 100, (100 * price + 59) \div 118}

\* Under which of its names Grow sends the count, if any; the next may be noise.
Counts == {<<Absent, Absent>>} \cup {<<n, m>> : n \in Noise, m \in {Absent}}
            \cup {<<sale.months, m>> : m \in Noise \cup {Absent}} \cup {<<Absent, sale.months>>}

\* A delivery for this order, its first or a renewal, and how it is read.
Read(cb) ==
  /\ sale # NoSale
  /\ heard' = IF IsGrowSuccess(cb)
              THEN [there |-> TRUE, plan |-> GrowPlan(cb.named, GrowChargeIls(cb.sums)),
                    months |-> GrowPayments(cb.counts), named |-> cb.named # {},
                    counted |-> Pick(cb.counts) = sale.months]
              ELSE heard
  /\ UNCHANGED <<override, sale>>

Says == {[status |-> "1", statusCode |-> ""], [status |-> "", statusCode |-> "2"],
         [status |-> "0", statusCode |-> "3"]}

CatalogueNext ==
  \/ \E p \in PaidPlan, typed \in Typed : SavePlanConfig(p, typed)
  \/ \E p \in PaidPlan, price \in PagePrices, n \in Orders : Buy(p, price, n)
  \/ \E says \in Says, named \in {{}, {sale.plan}}, counts \in Counts, sum \in Sums(sale.price), k \in 0..1 :
       Read([status |-> says.status, statusCode |-> says.statusCode, named |-> named, counts |-> counts,
             sums |-> [i \in 1..k |-> Absent] \o <<sum>>])

CatalogueSpec == CatalogueInit /\ [][CatalogueNext]_catalogueVars

-------------------------------------------------------------------------------
\* A price is more than half as high again as the other, and a shekel.
Apart(a, b) == 2 * a > 3 * b + 200 \/ 2 * b > 3 * a + 200

\* A delivery opens the plan that was bought, for the months that were bought,
\* or one month when Grow does not say: always when it names the product, and by
\* the amount alone, on whichever side of the VAT, with whatever price the admin
\* has laid over the plan, as long as the order was opened at that price and the
\* two plans' prices lie well apart (grow.ts:148-178, plans.ts:14-19).
PlanPaidFor ==
  heard.there =>
    /\ heard.months = IF heard.counted THEN sale.months ELSE 1
    /\ \/ heard.plan = sale.plan
       \/ /\ ~heard.named
          /\ Price(sale.plan) # sale.price \/ ~Apart(Price("STARTER"), Price("PRO"))
=============================================================================
