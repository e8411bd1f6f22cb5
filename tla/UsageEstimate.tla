---------------------------- MODULE UsageEstimate ----------------------------
(***************************************************************************)
(* What a DeepSeek security scan is said to cost, in                       *)
(* src/main/providers/deepseekPricing.ts: DeepSeekUsageAccumulator prices  *)
(* the growth of the engine's token counters since its last report, at the *)
(* tariff of the hour it hears of them.  The engine has no meter of its    *)
(* own for this provider, so nothing else tells the user.                  *)
(*                                                                         *)
(* Money is counted in rates of millionths of a dollar for a million       *)
(* tokens.  The reports are external: counters that grow, of which that of *)
(* the cache may come late, or that begin again.                           *)
(***************************************************************************)
EXTENDS Integers

CONSTANTS
    Models,      \* DEEPSEEK_SECURITY_MODELS
    Tariff,      \* Tariff[model][tier]: the rates for a cache hit, a miss and an output token
    ObservedAt,  \* hours at which reports may come, counted from a midnight, UTC
    PeakStart,   \* PEAK_PRICING_START, the hour the tariff changes
    MaxReported, \* bound: tokens of each kind in a report
    MaxReports   \* bound: reports of one scan

Tiers == {"current", "peak", "off_peak"}

Rates == [hit : Nat, miss : Nat, output : Nat]

\* What the official price lists have in common: a hit is never dearer than a miss.
ASSUME UsageAssumption ==
    /\ Tariff \in [Models -> [Tiers -> Rates]]
    /\ \A m \in Models, t \in Tiers : Tariff[m][t].hit <= Tariff[m][t].miss
    /\ ObservedAt \subseteq Nat /\ PeakStart \in Nat
    /\ MaxReported \in Nat /\ MaxReports \in Nat

VARIABLES
    model,     \* the model of the scan
    hour,      \* the clock
    previous,  \* #previous, counters at zero when there is none
    estimate,  \* #estimatedUsd
    reports,   \* reports so far
    due,       \* history: what the use that was reported costs, each report at its hour
    unbilled,  \* history: the part of it that counters which began again may have hidden
    uneven     \* history: the counters began again, or the cache's grew past the input's

usageVars == <<model, hour, previous, estimate, reports, due, unbilled, uneven>>

Usage == [input : Nat, cached : Nat, output : Nat]

NoUse == [input |-> 0, cached |-> 0, output |-> 0]

UsageTypeOK ==
    /\ model \in Models /\ hour \in ObservedAt
    /\ previous \in Usage
    /\ estimate \in Nat /\ due \in Int /\ unbilled \in Nat
    /\ reports \in 0 .. MaxReports
    /\ uneven \in BOOLEAN

UsageInit ==
    /\ model \in Models /\ hour \in ObservedAt
    /\ previous = NoUse
    /\ estimate = 0 /\ reports = 0 /\ due = 0 /\ unbilled = 0 /\ uneven = FALSE

-----------------------------------------------------------------------------
(* The prices.                                                             *)

HourOfDay(h) == h % 24

IsPeak(h) == HourOfDay(h) \in 1 .. 3 \cup 6 .. 9

PricingAt(h) ==
    IF h < PeakStart THEN "current"
    ELSE IF IsPeak(h) THEN "peak" ELSE "off_peak"

RatesAt(m, h) == Tariff[m][PricingAt(h)]

Price(rates, hit, miss, output) ==
    hit * rates.hit + miss * rates.miss + output * rates.output

-----------------------------------------------------------------------------
(* The accumulator.                                                        *)

\* Fault: counters that fall are taken back from the estimate.
Fault_GrowthMayFall(current, before) == current - before

\* delta
Growth(current, before) == IF current > before THEN current - before ELSE 0

Clamp(n, bound) == IF n < bound THEN n ELSE bound

\* update: hits are at most the growth of the input; the rest of it are misses.
Billed(usage) ==
    LET input == Growth(usage.input, previous.input)
        hit == Clamp(Growth(usage.cached, previous.cached), input)
    IN Price(RatesAt(model, hour), hit, input - hit,
             Growth(usage.output, previous.output))

Grew(usage) ==
    /\ usage.input >= previous.input /\ usage.cached >= previous.cached
    /\ usage.output >= previous.output

\* What the use since the counters stood at base costs, all of the cache's taken for hits.
Owed(usage, base) ==
    LET hit == usage.cached - base.cached
    IN Price(RatesAt(model, hour), hit, (usage.input - base.input) - hit,
             usage.output - base.output)

\* Use that is new, below what the counters stood at before they began again.
BelowPrevious(usage) ==
    Price(RatesAt(model, hour), 0, Clamp(usage.input, previous.input),
          Clamp(usage.output, previous.output))

\* A report of counters that go on, or of counters that began again at zero.
Report(usage, again) ==
    /\ reports < MaxReports /\ usage.cached <= usage.input
    /\ ~Grew(usage) => again
    /\ estimate' = estimate + Billed(usage)
    /\ previous' = usage /\ reports' = reports + 1
    /\ due' = due + Owed(usage, IF again THEN NoUse ELSE previous)
    /\ unbilled' = IF again THEN unbilled + BelowPrevious(usage) ELSE unbilled
    /\ uneven' = \/ uneven \/ again
                 \/ usage.cached - previous.cached > usage.input - previous.input
    /\ UNCHANGED <<model, hour>>

HourPasses ==
    /\ \E h \in ObservedAt : h > hour /\ hour' = h
    /\ UNCHANGED <<model, previous, estimate, reports, due, unbilled, uneven>>

Reports == [input : 0 .. MaxReported, cached : 0 .. MaxReported, output : 0 .. MaxReported]

UsageNext ==
    \/ HourPasses
    \/ \E usage \in Reports, again \in BOOLEAN : Report(usage, again)

UsageSpec == UsageInit /\ [][UsageNext]_usageVars

-----------------------------------------------------------------------------
(* Properties.                                                             *)

\* The estimate is what the reported use costs at the hours it was heard of, across the
\* change of the tariff and of the tier; when the cache's counter comes late it is more.
\* When the counters begin again it falls short (delta bills nothing below what they
\* stood at), by no more than the price of what is hidden there.
EstimateCoversUse ==
    /\ estimate + unbilled >= due
    /\ ~uneven => estimate = due
=============================================================================
