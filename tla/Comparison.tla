----------------------------- MODULE Comparison ------------------------------
(***************************************************************************)
(* What the comparison publishes: every policy's booking billed on the     *)
(* sites' tariffs (policies/cost.py), beside the model's with a battery    *)
(* and beside the connection it must fit under (forward.py), and the deck  *)
(* that sets the unmanaged site against the shaped one (deck_run.py).      *)
(* books gives each policy's book of one lot, fifo's among them; "model"   *)
(* is what the solver planned.                                             *)
(***************************************************************************)
EXTENDS PolicyHarness, SiteBilling

BilledDays == 30

(* One policy on one site.  The lot has no past year of bills: a policy's  *)
(* own peak stands for the history of the ratchet.                         *)
PolicyRow(report, curve, tariff, month) ==
  [tardy |-> report.tardy, peak |-> report.peak, total |-> Bill(curve, tariff, month, BilledDays, report.peak, None)]
Row(lot, book, tariff, month, step, end) ==
  PolicyRow(RunPolicy(lot, book), SiteLoadCurve(lot, book, step, end), tariff, month)

(* Every policy on every site, each total against fifo's there; the first  *)
(* site's totals against the tardiness give the frontier.                  *)
Frontier(row) == Pareto([p \in DOMAIN row |-> row[p].tardy], [p \in DOMAIN row |-> row[p].total])
SitesReport(rows) ==
  [sites |-> rows,
   delta |-> [s \in DOMAIN rows |-> [p \in DOMAIN rows[s] |-> rows[s][p].total - rows[s]["fifo"].total]],
   frontier |-> Frontier(rows[1]), dominated |-> DOMAIN rows[1] \ Frontier(rows[1])]
CostComparison(lot, books, tariffs, month, step, end) ==
  SitesReport([s \in DOMAIN tariffs |-> [p \in DOMAIN books |-> Row(lot, books[p], tariffs[s], month, step, end)]])

(* A day with a battery that has seen it beforehand: the grid never above  *)
(* the ceiling, and the steps below it filled evenly with what the battery *)
(* takes back, losses included (to the whole kW here).                     *)
GridCurve(curve, step, storage, ceiling) ==
  LET taken == Deficit(curve, step, ceiling) * 100
      room == storage.efficiency * Slack(curve, step, ceiling)
      Filled(kw) == IF kw >= ceiling THEN ceiling ELSE kw + ((ceiling - kw) * taken) \div room
  IN  [i \in DOMAIN curve |-> IF i = Len(curve) THEN curve[i] ELSE [curve[i] EXCEPT !.kw = Filled(@)]]
Stored(curve, grid, ceiling, step, tariff, month) ==
  [peak |-> ceiling, deficit |-> Deficit(curve, step, ceiling), gridPeak |-> InstantPeak(grid),
   total |-> Bill(grid, tariff, month, BilledDays, ceiling, None)]
WithStorage(curve, site, month, step) ==
  LET ceiling == DispatchCeiling(curve, step, site.storage)
  IN  Stored(curve, GridCurve(curve, step, site.storage, ceiling), ceiling, step, site.tariff, month)
ForwardComparison(lot, books, tariff, site, month, step, end) ==
  [policies |-> [p \in DOMAIN books |-> Row(lot, books[p], tariff, month, step, end)],
   bound |-> PeakLowerBound(lot),
   stored |-> WithStorage(SiteLoadCurve(lot, books["model"], step, end), site, month, step)]

(* A schedule that peaks above the service cannot run at all.              *)
MultimodalComparison(lot, books) ==
  [p \in DOMAIN books |->
     LET peak == BookedPeakKw(lot, books[p])
     IN  [exceeds |-> Most(0, peak - lot.site.powerCap), runnable |-> peak <= lot.site.powerCap]]

(* The deck: what the shaped site avoids of the unmanaged one, and the     *)
(* battery that would make the unmanaged site look like it.                *)
Derived(a, b, curve, step, unit, efficiency) ==
  [shapedPeak |-> b.peak, battery |-> BessToMatch(curve, step, b.peak, efficiency), avoided |-> a.peak - b.peak,
   interconnect |-> InterconnectKw(a.peak, unit) - InterconnectKw(b.peak, unit),
   total |-> a.total - b.total]
Derive(lot, unmanaged, shaped, tariff, month, step, end, unit, efficiency) ==
  Derived(Row(lot, unmanaged, tariff, month, step, end), Row(lot, shaped, tariff, month, step, end),
          SiteLoadCurve(lot, unmanaged, step, end), step, unit, efficiency)
=============================================================================
