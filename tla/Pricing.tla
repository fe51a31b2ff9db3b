------------------------------ MODULE Pricing ------------------------------
(***************************************************************************)
(* backend/pricing.py and backend/api_rates.py: what a request costs at    *)
(* the rates of its own time, and how a breakdown is priced again from     *)
(* token sums that may straddle a change of rates.                         *)
(*                                                                         *)
(* Costs are integers, in half a rate's unit, so that the long-context     *)
(* meter (input twice, output one and a half times) stays whole.  They are *)
(* exact: that a record's cost is rounded to six decimals, and a breakdown *)
(* to four, is left out.                                                   *)
(***************************************************************************)
EXTENDS Integers, Sequences, FiniteSets, SequencesExt, FiniteSetsExt, Functions

CONSTANTS
    None,           \* a NULL, or a parameter left out
    ModelRates,     \* MODEL_RATES: current rates, per model known
    DatedRates,     \* DATED_RATES: per model known, windows <<[until, rates]>>
    DefaultRates    \* DEFAULT_RATES

Buckets == {"fresh", "create", "read", "output"}

IsRates(rates) == \A b \in Buckets : rates[b] \in Nat

ASSUME PricingAssumption ==
    /\ DOMAIN DatedRates = DOMAIN ModelRates /\ IsFiniteSet(DOMAIN ModelRates)
    /\ IsRates(DefaultRates) /\ \A m \in DOMAIN ModelRates : IsRates(ModelRates[m])
    /\ \A m \in DOMAIN DatedRates :
          /\ IsFiniteSet(DOMAIN DatedRates[m]) /\ DOMAIN DatedRates[m] \subseteq Nat
          /\ \A i \in DOMAIN DatedRates[m] : /\ DatedRates[m][i].until \in Int
                                             /\ IsRates(DatedRates[m][i].rates)
    /\ \A m \in DOMAIN DatedRates : \A i \in 2 .. Len(DatedRates[m]) :
            DatedRates[m][i - 1].until < DatedRates[m][i].until

(* Seeded fault: the instant of a cut still has the old price.             *)
CutIsLate(model, ts) ==
    LET open == {i \in DOMAIN DatedRates[model] :
                   ts # None /\ ts <= DatedRates[model][i].until}
    IN IF open = {} THEN ModelRates[model] ELSE DatedRates[model][Min(open)].rates

(* _dated: the first window that ends after ts, or the current rates: the  *)
(* price of a request whose time is not known, too.                        *)
Dated(model, ts) ==
    LET open == {i \in DOMAIN DatedRates[model] :
                   ts # None /\ ts < DatedRates[model][i].until}
    IN IF open = {} THEN ModelRates[model] ELSE DatedRates[model][Min(open)].rates

(* resolve and rate_for: an id the table does not name has the default.    *)
RateFor(model, ts) ==
    IF model \in DOMAIN ModelRates THEN Dated(model, ts) ELSE DefaultRates

(* compute_cost *)
ComputeCost(model, toks, long, ts) ==
    LET r == RateFor(model, ts)
        input == toks.fresh * r.fresh + toks.create * r.create + toks.read * r.read
        output == toks.output * r.output
    IN IF long THEN 4 * input + 3 * output ELSE 2 * input + 2 * output

(* RATE_EPOCHS: every instant at which some rate changes.                  *)
RateEpochs ==
    UNION {{DatedRates[m][i].until : i \in DOMAIN DatedRates[m]} : m \in DOMAIN DatedRates}

(* rate_epoch_sql: how many of the changes a row is at or after.           *)
RateEpoch(ts) == Cardinality({e \in RateEpochs : e <= ts})

(* epoch_ts: an instant inside a rate epoch: the change it begins with, or *)
(* one before them all.                                                    *)
EpochTs(index) ==
    IF RateEpochs = {} THEN 0
    ELSE IF index <= 0 THEN Min(RateEpochs) - 1
    ELSE CHOOSE e \in RateEpochs :
            RateEpoch(e) = IF index < Cardinality(RateEpochs) THEN index
                           ELSE Cardinality(RateEpochs)

SumOver(S, value(_)) == SumFunction([x \in S |-> value(x)])

(* fold_per_model: one component of a model's cost, priced per epoch from  *)
(* the epoch's token sum.                                                  *)
CostBucket(rows, model, bucket) ==
    SumOver(0 .. Cardinality(RateEpochs),
            LAMBDA epoch :
                2 * RateFor(model, EpochTs(epoch))[bucket]
                  * SumOver({r \in rows : r.model = model /\ RateEpoch(r.ts) = epoch},
                            LAMBDA r : r.toks[bucket]))

(* The breakdown that /api/cache shows: cache writes are left out of it.   *)
CostBuckets(rows, model) ==
    [b \in {"fresh", "read", "output"} |-> CostBucket(rows, model, b)]

CostTotal(rows, model) ==
    SumOver({r \in rows : r.model = model}, LAMBDA r : r.cost)
=============================================================================
