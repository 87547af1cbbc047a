-------------------------------- MODULE Wear --------------------------------
(***************************************************************************)
(* Battery wear from completed charges (wear/degradation.py): cycles, the  *)
(* calendar fade of the park between shifts, and cold charging as a regime *)
(* and not a coefficient.  Rates are in hundredths of C, multipliers in    *)
(* hundredths; the Arrhenius factor is any increasing one (warmth).        *)
(***************************************************************************)
EXTENDS Integers, Sequences, FiniteSets, FiniteSetsExt

Chemistry(name) ==
  IF name = "NMC"
  THEN [plating |-> 100, table |-> <<<<30, 100>>, <<50, 100>>, <<70, 175>>, <<80, 175>>, <<90, 200>>, <<100, 400>>>>]
  ELSE [plating |-> 75, table |-> <<<<30, 100>>, <<50, 100>>, <<70, 125>>, <<80, 150>>, <<90, 175>>, <<100, 200>>>>]
IsChemistry(name) == name \in {"NMC", "LFP"}

(* Linear between the tabulated points, flat beyond them.                  *)
FSocBackwards(chem, soc) ==
  LET t == chem.table
      i == Max({1} \cup {k \in DOMAIN t : t[k][1] <= soc})
  IN  IF soc <= t[1][1] THEN t[1][2]
      ELSE IF soc >= t[Len(t)][1] THEN t[Len(t)][2]
      ELSE t[i + 1][2] - ((t[i + 1][2] - t[i][2]) * (soc - t[i][1])) \div (t[i + 1][1] - t[i][1])
FSoc(chem, soc) ==
  LET t == chem.table
      i == Max({1} \cup {k \in DOMAIN t : t[k][1] <= soc})
  IN  IF soc <= t[1][1] THEN t[1][2]
      ELSE IF soc >= t[Len(t)][1] THEN t[Len(t)][2]
      ELSE t[i][2] + ((t[i + 1][2] - t[i][2]) * (soc - t[i][1])) \div (t[i + 1][1] - t[i][1])
SocParkSaving(chem, from, upto) == (100 * FSoc(chem, from)) \div FSoc(chem, upto)

(* The regimes, temperatures in tenths of a degree.                        *)
PlatingRisk(chem, temp, rate) ==
  IF rate <= 0 THEN "none"
  ELSE IF temp < 0 /\ rate >= 20 THEN "severe"
  ELSE IF temp < chem.plating /\ rate >= 50 THEN "elevated"
  ELSE "none"
CRate(r) == IF r.kwh = 0 THEN 0 ELSE (100 * r.peakKw) \div r.kwh

(* Per asset, given the indices of its own records: the first of them      *)
(* names the chemistry, the last the charge it parks at unless the caller  *)
(* states one.                                                             *)
AssessAsset(records, own, parkedHours, parkedSoc, temp, warmth) ==
  LET name == records[Min(own)].chemistry
      chem == Chemistry(name)
      soc == IF parkedSoc = -1 THEN records[Max(own)].socEnd ELSE parkedSoc
      Events(regime) ==
        Cardinality({i \in own : PlatingRisk(chem, records[i].temp, CRate(records[i])) = regime})
  IN  IF ~IsChemistry(name) THEN [refused |-> TRUE]
      ELSE [refused |-> FALSE,
            cycles |-> MapThenSumSet(LAMBDA i : IF records[i].kwh = 0 THEN 0
                                                ELSE (100 * records[i].energy) \div records[i].kwh, own),
            fade |-> IF parkedHours > 0 THEN warmth[temp] * FSoc(chem, soc) * parkedHours ELSE 0,
            elevated |-> Events("elevated"), severe |-> Events("severe"), inferred |-> parkedHours > 0]
Assess(records, parkedHours, parkedSoc, temp, warmth) ==
  LET assets == {records[i].asset : i \in DOMAIN records}
      Own(a) == {i \in DOMAIN records : records[i].asset = a}
      each == [a \in assets |-> AssessAsset(records, Own(a), parkedHours, parkedSoc, temp, warmth)]
  IN  IF \E a \in assets : each[a].refused THEN [refused |-> TRUE] ELSE [refused |-> FALSE, assets |-> each]
=============================================================================
