-------------------------------- MODULE Pricing --------------------------------
(***************************************************************************)
(* Rental rate templates, their bindings to rooms, and the quote computed  *)
(* from them (rental_rate_template_service, rental_rate_service,           *)
(* rental_repository, pricing_service).                                    *)
(*                                                                         *)
(* Administrators work at the same time: an operation that first looks at  *)
(* other rows and then writes is two steps, the look recorded in checked.  *)
(* Amounts are cents, hours hundredths of an hour, and a product of the    *)
(* two hundredths of a cent.                                               *)
(***************************************************************************)
EXTENDS Integers, FiniteSets, Sequences, SequencesExt

CONSTANTS TemplateIds,  \* numbered in the order of their names
          PricedRooms,
          Forms,        \* what an administrator may enter for a template
          NoRow,
          Hours,        \* billed_hours of a line
          Percents,     \* percent_off of the active discount rule, whole percents, 0 for none
          Surcharges    \* surcharge_amount of a request, hundredths of a cent

ASSUME PricingAssumption ==
  /\ TemplateIds \subseteq Nat
  /\ Hours \subseteq Nat \ {0} /\ Percents \subseteq 0 .. 100 /\ Surcharges \subseteq Nat
  /\ NoRow \notin Forms
  /\ \A f \in Forms : f.unit_amount \in Nat /\ f.is_default \in BOOLEAN /\ f.is_active \in BOOLEAN

VARIABLES
  form,         \* FacilityRentalRateTemplate rows
  withdrawn,    \* templates with is_deleted
  binding,      \* FacilityRentalRate rows by room and template: NoRow or is_active
  unbound,      \* bindings with is_deleted
  checked       \* operations between their checks and their write

pricingVars == <<form, withdrawn, binding, unbound, checked>>

Keys == PricedRooms \X TemplateIds

\* get_template_by_id hides deleted rows.
Visible(t) == form[t] # NoRow /\ t \notin withdrawn

-----------------------------------------------------------------------------
(* Rate templates.                                                         *)

create_rate_template(t, f) ==
  /\ form[t] = NoRow
  /\ form' = [form EXCEPT ![t] = f]
  /\ UNCHANGED <<withdrawn, binding, unbound, checked>>

update_rate_template(t, f) ==
  /\ Visible(t)
  /\ form' = [form EXCEPT ![t] = f]
  /\ UNCHANGED <<withdrawn, binding, unbound, checked>>

count_rates_for_template(t) == Cardinality({k \in Keys : k[2] = t /\ binding[k] # NoRow /\ k \notin unbound})

delete_rate_template_check(t) ==
  /\ Visible(t) /\ count_rates_for_template(t) = 0
  /\ checked' = checked \cup {<<"delete", t>>}
  /\ UNCHANGED <<form, withdrawn, binding, unbound>>

delete_rate_template_soft(t) ==
  /\ <<"delete", t>> \in checked
  /\ checked' = checked \ {<<"delete", t>>}
  /\ withdrawn' = withdrawn \cup {t}
  /\ UNCHANGED <<form, binding, unbound>>

restore_rate_template(t) ==
  /\ form[t] # NoRow
  /\ withdrawn' = withdrawn \ {t}
  /\ UNCHANGED <<form, binding, unbound, checked>>

-----------------------------------------------------------------------------
(* Room bindings.                                                          *)

_validate_template_for_bind(t) == Visible(t) /\ form[t].is_active

bind_check(k) ==
  /\ _validate_template_for_bind(k[2])
  /\ checked' = checked \cup {<<"bind", k>>}
  /\ UNCHANGED <<form, withdrawn, binding, unbound>>

\* uq_rental_rate_facility_template also counts deleted rows: the insert of a
\* binding that exists fails and leaves everything as it was.
create_rate(k, active) ==
  /\ <<"bind", k>> \in checked
  /\ checked' = checked \ {<<"bind", k>>}
  /\ binding' = IF binding[k] = NoRow THEN [binding EXCEPT ![k] = active] ELSE binding
  /\ UNCHANGED <<form, withdrawn, unbound>>

\* update_rate with the facility and template of the row.
update_rate(k, active) ==
  /\ <<"bind", k>> \in checked
  /\ checked' = checked \ {<<"bind", k>>}
  /\ binding[k] # NoRow /\ k \notin unbound
  /\ binding' = [binding EXCEPT ![k] = active]
  /\ UNCHANGED <<form, withdrawn, unbound>>

delete_rate(k, permanent) ==
  /\ binding[k] # NoRow
  /\ binding' = IF permanent THEN [binding EXCEPT ![k] = NoRow] ELSE binding
  /\ unbound' = IF permanent THEN unbound \ {k} ELSE unbound \cup {k}
  /\ UNCHANGED <<form, withdrawn, checked>>

\* No look at the template, which may be deleted by now.
restore_rate(k) ==
  /\ k \in unbound
  /\ unbound' = unbound \ {k}
  /\ UNCHANGED <<form, withdrawn, binding, checked>>

-----------------------------------------------------------------------------
(* The rate of a room line.                                                *)

\* Mutation: the join does not look at the template's deletion.
list_active_rates_for_facilityDeleted(room) ==
  {t \in TemplateIds : /\ binding[<<room, t>>] = TRUE /\ <<room, t>> \notin unbound
                       /\ form[t] # NoRow /\ form[t].is_active}

list_active_rates_for_facility(room) ==
  {t \in TemplateIds : /\ binding[<<room, t>>] = TRUE /\ <<room, t>> \notin unbound
                       /\ Visible(t) /\ form[t].is_active}

\* list_templates(active_only=True)
list_templates == {t \in TemplateIds : Visible(t) /\ form[t].is_active}

\* A rule is the set of hours it accepts; every template without a rule does.
matches_applicability(t, hours) == ~form[t].has_rule \/ hours \in form[t].rule

\* The candidates pick_rate_for_line may return, {} for none: a matching rate,
\* with a rule before without, then a default before the others; failing that a
\* default, failing that the first.  Bindings come in no order.
pick_rate_for_line(rates, hours, allow_first_active) ==
  LET eligible == {t \in rates : matches_applicability(t, hours)}
      rank(t) == (IF form[t].has_rule THEN 0 ELSE 2) + (IF form[t].is_default THEN 0 ELSE 1)
      defaults == {t \in rates : form[t].is_default} IN
  IF eligible # {} THEN {t \in eligible : \A u \in eligible : rank(t) <= rank(u)}
  ELSE IF defaults # {} THEN defaults
  ELSE IF allow_first_active THEN {t \in rates : \A u \in rates : t <= u} ELSE {}

_resolve_rate_for_room(room, hours) ==
  LET bound == pick_rate_for_line(list_active_rates_for_facility(room), hours, FALSE) IN
  IF bound # {} THEN bound ELSE pick_rate_for_line(list_templates, hours, TRUE)

-----------------------------------------------------------------------------
(* The quote.  Hundredths of a cent.                                       *)

\* _quantize: to the cent, halves away from zero.
_quantize(x) == IF x >= 0 THEN 100 * ((x + 50) \div 100) ELSE -100 * ((50 - x) \div 100)

_compute_line_subtotal(t, hours) ==
  IF form[t].billing_unit = "hourly" THEN form[t].unit_amount * hours ELSE 100 * form[t].unit_amount

\* subtotal * percent / 100, rounded: hundredths of a cent over 100.
discount_amount(subtotal, percent) == 100 * ((subtotal * percent + 5000) \div 10000)

\* evaluate: Ministry Bookings of its members are free, recurring ones have the
\* percentage of the active rule, 0 without one.
evaluate(kind, percent) == [free |-> kind = "ministry", percent |-> IF kind = "recurring" THEN percent ELSE 0]

\* subtotal += line_subtotal, line by line.
Subtotal(each) == FoldLeft(LAMBDA acc, x : acc + x, 0, each)

\* The amounts of PreviewQuoteResult for lines <<template, hours>>.
preview_quote(lines, kind, percent, surcharge) ==
  LET eligibility == evaluate(kind, percent)
      each == [i \in DOMAIN lines |-> _compute_line_subtotal(lines[i][1], lines[i][2])]
      subtotal == Subtotal(each)
      discount == discount_amount(subtotal, eligibility.percent) IN
  IF eligibility.free
  THEN [line_subtotals |-> [i \in DOMAIN lines |-> 0], subtotal_amount |-> 0, discount_amount |-> 0,
        surcharge_amount |-> 0, quoted_amount |-> 0]
  ELSE [line_subtotals |-> [i \in DOMAIN lines |-> _quantize(each[i])], subtotal_amount |-> _quantize(subtotal),
        discount_amount |-> discount, surcharge_amount |-> _quantize(surcharge),
        quoted_amount |-> _quantize(subtotal - discount + surcharge)]

-----------------------------------------------------------------------------
PricingInit ==
  /\ form = [t \in TemplateIds |-> NoRow] /\ withdrawn = {}
  /\ binding = [k \in Keys |-> NoRow] /\ unbound = {}
  /\ checked = {}

PricingNext ==
  \/ \E t \in TemplateIds :
       \/ \E f \in Forms : create_rate_template(t, f) \/ update_rate_template(t, f)
       \/ delete_rate_template_check(t) \/ delete_rate_template_soft(t) \/ restore_rate_template(t)
  \/ \E k \in Keys :
       \/ bind_check(k) \/ restore_rate(k)
       \/ \E yes \in BOOLEAN : create_rate(k, yes) \/ update_rate(k, yes) \/ delete_rate(k, yes)

PricingSpec == PricingInit /\ [][PricingNext]_pricingVars

-----------------------------------------------------------------------------
(* Properties.                                                             *)

\* A room line is never priced by a template that was deleted or switched off,
\* also when a binding slipped in beside the deletion or was restored after it,
\* and it has a price whenever any template is on
\* (_resolve_rate_for_room, delete_template, restore_rate).
PricedByLiveTemplate ==
  \A room \in PricedRooms, hours \in Hours :
    LET picked == _resolve_rate_for_room(room, hours) IN
    /\ \A t \in picked : Visible(t) /\ form[t].is_active
    /\ (\E t \in TemplateIds : Visible(t) /\ form[t].is_active) => picked # {}

\* The amounts shown add up: subtotal minus discount plus surcharges is the
\* quoted amount to the cent, the lines are the subtotal to a cent for each, and
\* a discount takes off at most the subtotal shown, a full one exactly that
\* (preview_quote; FacilityBooking.quoted_amount).
QuoteAddsUp ==
  \A t, u \in list_templates, h, k \in Hours, percent \in Percents, surcharge \in Surcharges,
     kind \in {"one_time", "recurring", "ministry"} :
    LET q == preview_quote(<<<<t, h>>, <<u, k>>>>, kind, percent, surcharge)
        sum == q.subtotal_amount - q.discount_amount + q.surcharge_amount IN
    /\ sum - q.quoted_amount \in {-100, 0, 100}
    /\ q.line_subtotals[1] + q.line_subtotals[2] - q.subtotal_amount \in {-100, 0, 100}
    /\ q.discount_amount <= q.subtotal_amount
    /\ (kind = "recurring" /\ percent = 100) => q.discount_amount = q.subtotal_amount

\* A quote is made from templates in force, and what it shows adds up.
QuotesAreSound == PricedByLiveTemplate /\ QuoteAddsUp
=============================================================================
