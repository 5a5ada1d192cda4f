------------------------------ MODULE CostData ------------------------------
(***************************************************************************)
(* Synchronising the costs of one account (server/sync/cost-sync.ts,       *)
(* aws/cost-explorer.ts, aws/aws-failure.ts) and what readers are told of  *)
(* them (services/cost-service.ts).                                        *)
(*                                                                         *)
(* A run decides from what is stored how far back it fetches, fetches one  *)
(* series after the other while AWS goes on preparing and restating its    *)
(* figures, and replaces the windows it fetched in one fenced transaction. *)
(* An amount is a small number, a group key and its row are one row of the *)
(* series, and a period is counted from 0.  Who runs the job, and when it  *)
(* is tried again, is in JobQueue.                                         *)
(***************************************************************************)
EXTENDS Integers, Sequences, FiniteSets
LOCAL INSTANCE Functions

CONSTANTS
    CostPlan,       \* sequence of [g, d]: the series fetched, in order
    MonthStart,     \* MonthStart[m]: the first day of month m; months differ in length
    ShortBack,      \* ShortBack[g]: periods a later run goes back
    LongBack,       \* LongBack[g]: periods a backfill goes back
    Restatable,     \* external: Restatable[g]: periods back AWS still restates
    MaxGap,         \* days between two runs after which costs have lapsed
    CostErrors,     \* [says, class]: errors of GetCostAndUsage
    FirstDay, LastDay,  \* bound: the days of the model
    MaxRestates,    \* bound
    MaxCostRuns     \* bound: runs ever started

VARIABLES
    today,
    prepared,       \* AWS has prepared the cost data of the account
    bill,           \* bill[g][p]: what AWS charges for a period
    costRows,       \* costRows[s][p]: CostRecord
    scope,          \* AwsAccount.costScopeVersion, invoiceSyncError, invoices
    run,            \* the run in progress
    costJob,        \* status of the last job, day the last good one ended
    told            \* history of the rows (see the properties) and the bounds

costVars == <<today, prepared, bill, costRows, scope, run, costJob, told>>

Granularities == {"DAILY", "MONTHLY"}
Series == {CostPlan[i] : i \in 1..Len(CostPlan)}
DailyTotal == [g |-> "DAILY", d |-> "TOTAL"]
MonthOf(d) == CHOOSE m \in 1..Len(MonthStart) - 1 : MonthStart[m] <= d /\ d < MonthStart[m + 1]
PeriodOf(g, d) == IF g = "DAILY" THEN d ELSE MonthOf(d)
Periods(g) == PeriodOf(g, 0)..PeriodOf(g, LastDay)
NoDay == -1

ASSUME CostAssumption ==
    /\ CostPlan \in Seq([g : Granularities, d : STRING])
    /\ DailyTotal \in Series
    /\ MaxGap \in Nat /\ FirstDay \in Nat /\ LastDay \in Nat /\ FirstDay <= LastDay
    /\ {ShortBack, LongBack, Restatable} \subseteq [Granularities -> Nat]
    \* the calendar: months follow each other, and every day is in one
    /\ MonthStart \in Seq(Nat)
    /\ \A m, n \in 1..Len(MonthStart) : m < n => MonthStart[m] < MonthStart[n]
    /\ \A d \in 0..LastDay : \E m \in 1..Len(MonthStart) - 1 :
         MonthStart[m] <= d /\ d < MonthStart[m + 1]
    \* 395 days hold this month and the last one
    /\ \A d \in FirstDay..LastDay :
         MonthOf(d) > 1 /\ d - LongBack["DAILY"] <= MonthStart[MonthOf(d) - 1]
    /\ \A g \in Granularities :
         /\ ShortBack[g] <= LongBack[g]
         /\ PeriodOf(g, FirstDay) >= PeriodOf(g, 0) + LongBack[g]
         \* 45 days and 2 months leave time between a charge and its last change
         /\ \A d, e \in FirstDay..LastDay :
              d <= e /\ e - d <= MaxGap => PeriodOf(g, e) - PeriodOf(g, d) + Restatable[g] <= ShortBack[g]

NoCostRun == [step |-> "idle", back |-> [g \in Granularities |-> 0], backfill |-> FALSE, day |-> NoDay,
              out |-> <<>>, invoices |-> "kept", changed |-> {}, flipped |-> FALSE, ready |-> FALSE]

\* Rows of an account whose costs were stored before they had a scope.
Legacy == [p \in {PeriodOf("DAILY", FirstDay)} |-> 9]

CostInit ==
    /\ today = FirstDay /\ prepared \in BOOLEAN
    /\ bill = [g \in Granularities |-> [p \in Periods(g) |-> 1]]
    /\ costRows \in {[s \in Series |-> IF s.g = "DAILY" THEN rows ELSE <<>>] : rows \in {<<>>, Legacy}}
    /\ scope = [version |-> 0, invoiceError |-> FALSE, invoices |-> FALSE]
    /\ run = NoCostRun
    /\ costJob = [status |-> "none", okDay |-> NoDay]
    /\ told = [since |-> [g \in Granularities |-> 0], asOf |-> NoDay, unseen |-> {}, split |-> FALSE,
               ready |-> FALSE, lapsed |-> FALSE, restates |-> 0, runs |-> 0]

-----------------------------------------------------------------------------
(* AWS.                                                                    *)

NextDay ==
    /\ today < LastDay
    /\ today' = today + 1
    /\ UNCHANGED <<prepared, bill, costRows, scope, run, costJob, told>>

Prepare ==
    /\ ~prepared /\ prepared' = TRUE
    /\ run' = [run EXCEPT !.flipped = run.step # "idle"]
    /\ UNCHANGED <<today, bill, costRows, scope, costJob, told>>

Restate(g, p) ==
    /\ told.restates < MaxRestates
    /\ p \in Periods(g) /\ p <= PeriodOf(g, today) /\ p >= PeriodOf(g, today) - Restatable[g]
    /\ bill' = [bill EXCEPT ![g][p] = @ + 1]
    /\ run' = IF run.step = "idle" THEN run ELSE [run EXCEPT !.changed = @ \cup {<<g, p>>}]
    /\ told' = [told EXCEPT !.restates = @ + 1, !.unseen = @ \cup {<<g, p>>}]
    /\ UNCHANGED <<today, prepared, costRows, scope, costJob>>

-----------------------------------------------------------------------------
(* runCostSync().                                                          *)

\* There is usable history: a daily amount that is not zero.
\* Mutant: a row of any amount counts.
HasHistoryOfAnyAmount ==
    scope.version = 1 /\ \E s \in Series : s.g = "DAILY" /\ DOMAIN costRows[s] # {}
HasHistory ==
    scope.version = 1
    /\ \E s \in Series : s.g = "DAILY" /\ \E p \in DOMAIN costRows[s] : costRows[s][p] # 0

\* costWindows(): how many periods back, from the day the run begins.
Back(history) == IF history THEN ShortBack ELSE LongBack

BeginCostRun ==
    /\ told.runs < MaxCostRuns
    /\ run.step = "idle"
    /\ run' = [NoCostRun EXCEPT !.step = "fetch", !.back = Back(HasHistory), !.backfill = ~HasHistory,
                                 !.day = today, !.ready = prepared]
    /\ costJob' = [costJob EXCEPT !.status = "RUNNING"]
    /\ told' = [told EXCEPT !.runs = @ + 1]
    /\ UNCHANGED <<today, prepared, bill, costRows, scope>>

WindowOf(r, g) == PeriodOf(g, r.day) - r.back[g] .. PeriodOf(g, r.day)

\* fetchCosts(): every period has a total, zero while AWS prepares the data;
\* groups come only once it has.
RowsNow(s) ==
    CASE prepared -> [p \in WindowOf(run, s.g) |-> bill[s.g][p]]
      [] ~prepared /\ s.d = "TOTAL" -> [p \in WindowOf(run, s.g) |-> 0]
      [] OTHER -> <<>>

FetchSeries ==
    /\ run.step = "fetch"
    /\ LET out == Append(run.out, RowsNow(CostPlan[Len(run.out) + 1]))
       IN run' = [run EXCEPT !.out = out,
                             !.step = IF Len(out) = Len(CostPlan) THEN "invoices" ELSE "fetch"]
    /\ UNCHANGED <<today, prepared, bill, costRows, scope, costJob, told>>

\* describeAwsFailure(): AWS's wording first, then the class of the error.
ReasonOf(err) ==
    CASE err.says # "nothing" -> err.says
      [] err.class = "access_denied" -> "permission_denied"
      [] err.class = "not_enabled" -> "service_not_enabled"
      [] err.class = "throttled" -> "throttled"
      [] err.class \in {"invalid_credentials", "expired"} -> "credentials"
      [] err.class = "validation" -> "invalid_request"
      [] err.class = "service_unavailable" -> "unavailable"
      [] OTHER -> "unknown"
Blocked == {"service_not_enabled", "permission_denied", "explicit_deny", "scp_denied"}

\* A blocked account fails the job at once; any other error is thrown, and
\* the queue tries again or gives up.
FetchFails(err) ==
    /\ run.step = "fetch"
    /\ \E status \in IF ReasonOf(err) \in Blocked THEN {"FAILED"} ELSE {"QUEUED", "FAILED"} :
         costJob' = [costJob EXCEPT !.status = status]
    /\ run' = NoCostRun
    /\ UNCHANGED <<today, prepared, bill, costRows, scope, told>>

\* fetchInvoices() may fail without failing the run; only that it failed is kept
\* here, not the wording of the two reasons, nor the day of the last summaries.
FetchInvoices ==
    /\ run.step = "invoices"
    /\ \E found \in {"fetched", "failed"} :
         run' = [run EXCEPT !.invoices = found, !.step = "commit"]
    /\ UNCHANGED <<today, prepared, bill, costRows, scope, costJob, told>>

\* The rows after the transaction: each window replaced, older rows kept
\* unless they are of another scope.
Replaced(s, rows) ==
    LET old == {p \in DOMAIN costRows[s] :
                  scope.version = 1 /\ p < PeriodOf(s.g, run.day) - run.back[s.g]}
    IN [p \in old \cup DOMAIN rows |-> IF p \in DOMAIN rows THEN rows[p] ELSE costRows[s][p]]

CommitCosts ==
    /\ run.step = "commit"
    /\ costRows' = [s \in Series |-> Replaced(s, run.out[CHOOSE i \in 1..Len(CostPlan) : CostPlan[i] = s])]
    /\ scope' = [version |-> 1,
                 invoiceError |-> run.invoices = "failed",
                 invoices |-> run.invoices = "fetched" \/ scope.invoices]
    /\ costJob' = [status |-> "SUCCEEDED", okDay |-> today]
    /\ run' = NoCostRun
    /\ told' = [told EXCEPT
         !.since = IF run.backfill THEN [g \in Granularities |-> PeriodOf(g, run.day) - run.back[g]] ELSE @,
         !.lapsed = ~run.backfill /\ (@ \/ run.day - told.asOf > MaxGap),
         !.split = run.flipped \/ (@ /\ ~run.backfill),
         !.asOf = run.day, !.unseen = run.changed, !.ready = run.ready]
    /\ UNCHANGED <<today, prepared, bill>>

\* The fence finds that the lease is gone, or the worker dies: nothing is
\* written and the job runs again.
CostRunLost ==
    /\ run.step # "idle"
    /\ run' = NoCostRun
    /\ costJob' = [costJob EXCEPT !.status = "QUEUED"]
    /\ UNCHANGED <<today, prepared, bill, costRows, scope, told>>

CostNext ==
    \/ NextDay
    \/ Prepare
    \/ \E g \in Granularities : \E p \in Periods(g) : Restate(g, p)
    \/ BeginCostRun
    \/ FetchSeries
    \/ \E err \in CostErrors : FetchFails(err)
    \/ FetchInvoices
    \/ CommitCosts
    \/ CostRunLost

CostSpec == CostInit /\ [][CostNext]_costVars

-----------------------------------------------------------------------------
(* What readers are told: coverage().                                      *)

Charged == \E s \in Series : \E p \in DOMAIN costRows[s] : costRows[s][p] # 0
Coverage ==
    CASE scope.version = 1 /\ costJob.okDay # NoDay /\ ~Charged -> "pending"
      [] scope.version = 1 /\ costJob.okDay # NoDay /\ Charged ->
           IF costJob.status = "FAILED" \/ today - costJob.okDay > 1 THEN "stale" ELSE "available"
      [] OTHER -> IF costJob.status = "FAILED" THEN "unavailable" ELSE "pending"

\* Rows of another scope are not read.
DailyTotals == IF scope.version = 1 THEN costRows[DailyTotal] ELSE <<>>

AmountOf(figures) == SumFunction(figures)

\* sumOver(): the amount of the days that have a row, and how many they are.
SumOver(first, last) ==
    LET days == {p \in DOMAIN DailyTotals : first <= p /\ p <= last}
    IN [amount |-> AmountOf([p \in days |-> DailyTotals[p]]), days |-> Cardinality(days)]

\* summary(): the month up to yesterday, and as many days of last month, or all
\* of last month if it has fewer.
ThisMonth == MonthStart[MonthOf(today)]
LastMonth == MonthStart[MonthOf(today) - 1]
CostSummary ==
    LET elapsed == today - ThisMonth
        prevEnd == ThisMonth - 1
        sameEnd == LastMonth + elapsed - 1
    IN [mtdComplete |-> SumOver(ThisMonth, today - 1), comparedDays |-> elapsed,
        prevSame |-> SumOver(LastMonth, IF sameEnd <= prevEnd THEN sameEnd ELSE prevEnd)]

-----------------------------------------------------------------------------
(* Properties.                                                             *)

\* What AWS charges for the days from first to last.
Charges(first, last) == AmountOf([p \in first..last |-> bill["DAILY"][p]])

\* Costs reported as available are complete: every series has a row for every
\* period since the last backfill, with the amount AWS charges, except the
\* periods AWS restated since the run began.  If the run began yesterday or
\* today, the overview compares all complete days of this month with the first
\* days of the last, at the amounts AWS charges: with equally many as long as
\* last month has them, and with the whole of last month once it has fewer,
\* though the number of days shown stays that of this month.  Not when two good
\* runs lay further apart than the windows allow for, nor when AWS finished
\* preparing the data while a run fetched it (see NoMisleadingZero).
AvailableIsComplete ==
    Coverage = "available" /\ ~told.lapsed /\ ~told.split =>
        /\ \A s \in Series : \A p \in told.since[s.g]..PeriodOf(s.g, told.asOf) :
             <<s.g, p>> \notin told.unseen =>
               p \in DOMAIN costRows[s] /\ costRows[s][p] = bill[s.g][p]
        /\ told.asOf >= today - 1 =>
             /\ CostSummary.mtdComplete.days = CostSummary.comparedDays
             /\ CostSummary.comparedDays <= ThisMonth - LastMonth =>
                  CostSummary.prevSame.days = CostSummary.comparedDays
             /\ CostSummary.comparedDays > ThisMonth - LastMonth =>
                  CostSummary.prevSame.days = ThisMonth - LastMonth
             /\ told.unseen = {} =>
                  /\ CostSummary.mtdComplete.amount = Charges(ThisMonth, today - 1)
                  /\ CostSummary.prevSame.amount =
                       Charges(LastMonth, LastMonth + CostSummary.prevSame.days - 1)

\* Costs reported as available, by a run that began when AWS had prepared
\* them, hold no zero left over from the time it had not.
NoMisleadingZero ==
    Coverage = "available" /\ told.ready =>
        \A s \in Series : \A p \in DOMAIN costRows[s] : costRows[s][p] # 0

=============================================================================
