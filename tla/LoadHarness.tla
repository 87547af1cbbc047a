----------------------------- MODULE LoadHarness -----------------------------
(***************************************************************************)
(* load/harness.py: a floor and a target measured by pgbench, the probes   *)
(* for a certification pair before, between and after, and the result.     *)
(* Latencies are integers.  The day's minutes count from the first probe.  *)
(***************************************************************************)
EXTENDS Integers, Sequences, SequencesExt, FiniteSetsExt

CONSTANTS MinSamplesForTail,   \* below it a tail percentile names a transaction
          Unsaid               \* a figure the result does not hold

LOCAL Ceiling(a, b) == -((-a) \div b)

(* The catalog: what a target needs bound, and whether it writes.          *)
Targets ==
  [floor |-> [params |-> {}, writes |-> FALSE], running_run |-> [params |-> {"depot"}, writes |-> FALSE],
   charger_load_kw |-> [params |-> {"depot", "clock"}, writes |-> FALSE], kpi_five |-> [params |-> {"run"}, writes |-> FALSE],
   cert_matrix |-> [params |-> {"since"}, writes |-> FALSE]]

(* Nearest rank: a percentile is a latency that happened.                  *)
AtRank(sorted, p) ==
  LET k == Ceiling(p * Len(sorted), 100)
  IN  sorted[IF k < 1 THEN 1 ELSE k]
Percentiles(samples) ==
  LET s == SortSeq(samples, <)
  IN  IF samples = <<>> THEN [n |-> 0]
      ELSE [n |-> Len(s), min |-> s[1], max |-> Last(s), p50 |-> AtRank(s, 50), p90 |-> AtRank(s, 90),
            p95 |-> AtRank(s, 95), p99 |-> AtRank(s, 99), tail |-> Len(s) >= MinSamplesForTail]

(* One pgbench run.  Its logs go to a directory and are read back by the   *)
(* target's name, so a directory that holds some is refused.               *)
LogsOf(dir, name) == SelectSeq(dir, LAMBDA log : log.target = name)
MayRun(dir, name, bound) == Targets[name].params \subseteq bound /\ LogsOf(dir, name) = <<>>
RunPgbench(dir, name, samples) ==
  LET after == Append(dir, [target |-> name, samples |-> samples])
      logs == LogsOf(after, name)
  IN  [dir |-> after, latency |-> Percentiles(FlattenSeq([i \in DOMAIN logs |-> logs[i].samples])),
       transactions |-> Len(samples)]

(* The probe counts the pairs running at a minute; -1 when it is not       *)
(* answered.                                                               *)
ProbePair(pairs, minute, answered) ==
  IF answered THEN Cardinality({p \in pairs : p.from <= minute /\ minute < p.upto}) ELSE -1

FloorTime(duration) == IF duration < 15 THEN duration ELSE 15
Begins(call) ==
  /\ call.url
  /\ call.target \in DOMAIN Targets
  /\ Targets[call.target].writes => call.admitsWrites
Directories == [floor |-> <<>>, target |-> <<>>]
MeasureInOneDirectory(call, dirs) ==
  LET between == FloorTime(call.duration)
      probes == << ProbePair(call.pairs, 0, call.answered[1]), ProbePair(call.pairs, between, call.answered[2]),
                   ProbePair(call.pairs, between + call.duration, call.answered[3]) >>
      floor == RunPgbench(dirs.floor, "floor", call.floorSamples)
      main == RunPgbench(floor.dir, call.target, call.samples)
      contaminated == \E i \in 1..3 : probes[i] > 0
  IN  [floor |-> floor, main |-> main, probes |-> probes, contaminated |-> contaminated,
       share |-> IF floor.latency.n = 0 \/ main.latency.n = 0 THEN Unsaid ELSE main.latency.p50 - floor.latency.p50,
       note |-> IF contaminated THEN "active" ELSE IF \E i \in 1..3 : probes[i] < 0 THEN "unknown" ELSE "none"]
Measure(call, dirs) ==
  LET between == FloorTime(call.duration)
      probes == << ProbePair(call.pairs, 0, call.answered[1]), ProbePair(call.pairs, between, call.answered[2]),
                   ProbePair(call.pairs, between + call.duration, call.answered[3]) >>
      floor == RunPgbench(dirs.floor, "floor", call.floorSamples)
      main == RunPgbench(dirs.target, call.target, call.samples)
      contaminated == \E i \in 1..3 : probes[i] > 0
  IN  [floor |-> floor, main |-> main, probes |-> probes, contaminated |-> contaminated,
       share |-> IF floor.latency.n = 0 \/ main.latency.n = 0 THEN Unsaid ELSE main.latency.p50 - floor.latency.p50,
       note |-> IF contaminated THEN "active" ELSE IF \E i \in 1..3 : probes[i] < 0 THEN "unknown" ELSE "none"]
(* The two runs have a directory each.                                     *)
Load(call) ==
  IF ~Begins(call) \/ ~MayRun(Directories.target, call.target, call.bound) THEN Unsaid ELSE Measure(call, Directories)
=============================================================================
