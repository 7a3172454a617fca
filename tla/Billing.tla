------------------------------- MODULE Billing -------------------------------
(***************************************************************************)
(* Subscription, usage meters and invoices of one organization, changed by *)
(* concurrent transactions (requests, plan changes, billing cycles) at     *)
(* READ COMMITTED.  A session writes the columns it changed with the       *)
(* values it computed from what it loaded, keeps the rows it wrote locked  *)
(* until it commits, and never looks again.                                *)
(* Billing periods are numbered like the months they cover.                *)
(***************************************************************************)
EXTENDS Integers, FiniteSets

CONSTANTS Sessions,    \* concurrent transactions
          Plans,       \* rows of plan_definitions
          Default,     \* DEFAULT_PLAN_CODE
          NoPlan,      \* pending_plan_definition_id IS NULL
          Cap,         \* Cap[p]: monthly_generation_cap of plan p
          LastMonth,   \* bound: months of a behaviour
          MaxRequests, \* bound: generation requests and plan changes
          MaxFailures  \* bound: transactions that fail for other reasons

ASSUME PlansAssumption == Default \in Plans /\ NoPlan \notin Plans
ASSUME CapAssumption == Cap \in [Plans -> Nat]
ASSUME BoundsAssumption ==
  LastMonth \in Nat \ {0} /\ MaxRequests \in Nat /\ MaxFailures \in Nat

Months == 1..LastMonth
Columns == {"period", "plan", "pending"}
NoMeter == -1
Kinds == {"generate", "change", "cycle", "other"}
Phases == {"idle", "provisioning", "rolling", "invoicing", "renewing", "creating",
           "metered", "committing"}

VARIABLES
  month,     \* the present
  row,       \* organization_plans; period 0 when there is no row
  invoices,  \* billing_invoices
  meters,    \* organization_usage_meters: generation_count, NoMeter if no row
  accepted,  \* history: generation requests committed in each period
  tx,        \* the sessions
  requests,  \* requests so far
  failures   \* failures so far

vars == <<month, row, invoices, meters, accepted, tx, requests, failures>>

NoRow == [period |-> 0, plan |-> Default, pending |-> NoPlan]

\* A session: what it loaded (seen, count), what it wrote and not committed
\* (dirty columns of seen, drafts, wrote) and the date its snapshot goes by.
Closed == [phase |-> "idle", kind |-> "other", born |-> 0, asof |-> 0, seen |-> NoRow,
           dirty |-> {}, drafts |-> {}, wrote |-> [p \in Months |-> NoMeter],
           count |-> 0, checked |-> FALSE]

Init ==
  /\ month = 1
  /\ row = NoRow
  /\ invoices = {}
  /\ meters = [p \in Months |-> NoMeter]
  /\ accepted = [p \in Months |-> 0]
  /\ tx = [s \in Sessions |-> Closed]
  /\ requests = 0
  /\ failures = 0

Invoices == [period : Months, plan : Plans, count : Nat]
Rows == [period : 0..LastMonth, plan : Plans, pending : Plans \cup {NoPlan}]

Transactions ==
  [phase : Phases, kind : Kinds, born : 0..LastMonth, asof : 0..LastMonth, seen : Rows,
   dirty : SUBSET Columns, drafts : SUBSET Invoices,
   wrote : [Months -> Nat \cup {NoMeter}], count : Nat, checked : BOOLEAN]

TypeOK ==
  /\ month \in Months
  /\ row \in Rows
  /\ invoices \subseteq Invoices
  /\ meters \in [Months -> Nat \cup {NoMeter}]
  /\ accepted \in [Months -> Nat]
  /\ tx \in [Sessions -> Transactions]
  /\ requests \in 0..MaxRequests
  /\ failures \in 0..MaxFailures

-----------------------------------------------------------------------------
(* Sessions *)

Phase(s) == tx[s].phase
Period(s) == tx[s].seen.period

\* What a SELECT of s finds: its own writes over what is committed.
Overlay(cols, mine) ==
  [period  |-> IF "period"  \in cols THEN mine.period  ELSE row.period,
   plan    |-> IF "plan"    \in cols THEN mine.plan    ELSE row.plan,
   pending |-> IF "pending" \in cols THEN mine.pending ELSE row.pending]

Row(s) == Overlay(tx[s].dirty, tx[s].seen)
Meter(s, p) == IF tx[s].wrote[p] # NoMeter THEN tx[s].wrote[p] ELSE meters[p]

BilledIn(set) == {i.period : i \in set}

\* Locks of other sessions: the subscription row, the unique key of the invoice
\* of p, the meter row of p or its unique key.
RowFree(s) == \A v \in Sessions \ {s} : tx[v].dirty = {}
InvoiceFree(s, p) == \A v \in Sessions \ {s} : p \notin BilledIn(tx[v].drafts)
MeterFree(s, p) == \A v \in Sessions \ {s} : tx[v].wrote[p] = NoMeter

Become(s, phase) == tx' = [tx EXCEPT ![s].phase = phase]
Rollback(s) == tx' = [tx EXCEPT ![s] = Closed]

dbVars == <<row, invoices, meters, accepted>>

\* The session sets attributes of the subscription, flushes the ones that
\* changed and refreshes the others from the row.
Write(s, new, phase) ==
  LET d == tx[s].dirty \cup {c \in Columns : new[c] # tx[s].seen[c]} IN
  /\ d # {} => RowFree(s)
  /\ tx' = [tx EXCEPT ![s].dirty = d, ![s].phase = phase, ![s].seen = Overlay(d, new)]

-----------------------------------------------------------------------------
(* The snapshot every operation starts with: _ensure_snapshot *)

\* The subscription is loaded, or has to be provisioned; the snapshot goes by
\* today's date.
Snapshot(s, loaded) ==
  [loaded EXCEPT !.asof = month, !.seen = Row(s),
                 !.phase = IF Row(s).period = 0 THEN "provisioning" ELSE "rolling"]

\* Mutant of Open: the cycle looks for periods that ended a month ago.
OpenLate(s, k) ==
  /\ Phase(s) = "idle"
  /\ IF k = "cycle" THEN row.period \in 1..(month - 2) /\ UNCHANGED requests
                    ELSE requests < MaxRequests /\ requests' = requests + 1
  /\ tx' = [tx EXCEPT ![s] = Snapshot(s, [Closed EXCEPT !.kind = k, !.born = month])]
  /\ UNCHANGED <<month, dbVars, failures>>

\* A request, a plan change or a billing cycle begins; the cycle looks for a
\* subscription that is due.
Open(s, k) ==
  /\ Phase(s) = "idle"
  /\ IF k = "cycle" THEN row.period \in 1..(month - 1) /\ UNCHANGED requests
                    ELSE requests < MaxRequests /\ requests' = requests + 1
  /\ tx' = [tx EXCEPT ![s] = Snapshot(s, [Closed EXCEPT !.kind = k, !.born = month])]
  /\ UNCHANGED <<month, dbVars, failures>>

\* No subscription: the default plan is assigned (organization_id is UNIQUE).
Provision(s) ==
  /\ Phase(s) = "provisioning"
  /\ RowFree(s)
  /\ IF row.period # 0
     THEN Rollback(s)
     ELSE tx' = [tx EXCEPT ![s].phase = "rolling", ![s].dirty = Columns,
                           ![s].seen = [NoRow EXCEPT !.period = month]]
  /\ UNCHANGED <<month, dbVars, requests, failures>>

\* Mutant of Due: a period ends when its last month begins.
DueEarly(s) == Period(s) <= tx[s].asof

Due(s) == Period(s) < tx[s].asof

\* The period has ended: is there an invoice?  If not, the usage is read.
FindInvoice(s) ==
  /\ Phase(s) = "rolling"
  /\ Due(s)
  /\ IF Period(s) \in BilledIn(invoices)
     THEN Become(s, "renewing")
     ELSE tx' = [tx EXCEPT ![s].phase = "invoicing",
                           ![s].count = IF Meter(s, Period(s)) = NoMeter
                                        THEN 0 ELSE Meter(s, Period(s))]
  /\ UNCHANGED <<month, dbVars, requests, failures>>

Invoice(s) == [period |-> Period(s), plan |-> tx[s].seen.plan, count |-> tx[s].count]

\* Mutant of InsertInvoice: uq_billing_invoices_org_period is missing.
InsertWithoutKey(s) ==
  /\ Phase(s) = "invoicing"
  /\ tx' = [tx EXCEPT ![s].phase = "renewing", ![s].drafts = @ \cup {Invoice(s)}]
  /\ UNCHANGED <<month, dbVars, requests, failures>>

\* Mutant of InsertInvoice: a period without usage is not invoiced.
InsertIfUsed(s) ==
  /\ Phase(s) = "invoicing"
  /\ InvoiceFree(s, Period(s))
  /\ IF Period(s) \in BilledIn(invoices)
     THEN Rollback(s)
     ELSE tx' = [tx EXCEPT ![s].phase = "renewing",
                           ![s].drafts = IF tx[s].count = 0 THEN @ ELSE @ \cup {Invoice(s)}]
  /\ UNCHANGED <<month, dbVars, requests, failures>>

\* The insert waits for a transaction that holds the same key and fails when
\* that one commits.
InsertInvoice(s) ==
  /\ Phase(s) = "invoicing"
  /\ InvoiceFree(s, Period(s))
  /\ IF Period(s) \in BilledIn(invoices)
     THEN Rollback(s)
     ELSE tx' = [tx EXCEPT ![s].phase = "renewing", ![s].drafts = @ \cup {Invoice(s)}]
  /\ UNCHANGED <<month, dbVars, requests, failures>>

\* update_period: the next period begins, with the pending plan if there is one.
Renew(s) ==
  LET old == tx[s].seen IN
  /\ Phase(s) = "renewing"
  /\ Write(s, [period  |-> old.period + 1,
               plan    |-> IF old.pending = NoPlan THEN old.plan ELSE old.pending,
               pending |-> NoPlan], "rolling")
  /\ UNCHANGED <<month, dbVars, requests, failures>>

\* Mutant of LoadMeter: generations are counted before the period is rolled forward.
LoadOldMeter(s) ==
  /\ Phase(s) = "rolling"
  /\ tx[s].kind # "cycle"
  /\ IF Meter(s, Period(s)) = NoMeter
     THEN Become(s, "creating")
     ELSE tx' = [tx EXCEPT ![s].phase = "metered", ![s].count = Meter(s, Period(s))]
  /\ UNCHANGED <<month, dbVars, requests, failures>>

\* The subscription is up to date; the meter of its period is loaded ...
LoadMeter(s) ==
  /\ Phase(s) = "rolling"
  /\ ~Due(s)
  /\ tx[s].kind # "cycle"
  /\ IF Meter(s, Period(s)) = NoMeter
     THEN Become(s, "creating")
     ELSE tx' = [tx EXCEPT ![s].phase = "metered", ![s].count = Meter(s, Period(s))]
  /\ UNCHANGED <<month, dbVars, requests, failures>>

\* ... or created (uq_organization_usage_meters_org_period).
CreateMeter(s) ==
  /\ Phase(s) = "creating"
  /\ MeterFree(s, Period(s))
  /\ IF meters[Period(s)] # NoMeter
     THEN Rollback(s)
     ELSE tx' = [tx EXCEPT ![s].phase = "metered", ![s].count = 0,
                           ![s].wrote[Period(s)] = 0]
  /\ UNCHANGED <<month, dbVars, requests, failures>>

-----------------------------------------------------------------------------
(* The operations *)

Metered(s, k, checked) ==
  Phase(s) = "metered" /\ tx[s].kind = k /\ tx[s].checked = checked

\* enforce_generation_allowed: over the cap the request is refused, else
\* record_generation_request takes a snapshot of its own.
Enforce(s) ==
  /\ Metered(s, "generate", FALSE)
  /\ IF tx[s].count >= Cap[tx[s].seen.plan]
     THEN Rollback(s)
     ELSE tx' = [tx EXCEPT ![s] = Snapshot(s, [@ EXCEPT !.checked = TRUE])]
  /\ UNCHANGED <<month, dbVars, requests, failures>>

\* Mutant of Record: the meter is changed in a transaction of its own.
RecordAutocommits(s) ==
  /\ Metered(s, "generate", TRUE)
  /\ MeterFree(s, Period(s))
  /\ meters' = [meters EXCEPT ![Period(s)] = tx[s].count + 1]
  /\ tx' = [tx EXCEPT ![s].phase = "committing", ![s].wrote[Period(s)] = tx[s].count + 1]
  /\ UNCHANGED <<month, row, invoices, accepted, requests, failures>>

\* increment_generation writes the loaded count plus one.
Record(s) ==
  /\ Metered(s, "generate", TRUE)
  /\ MeterFree(s, Period(s))
  /\ tx' = [tx EXCEPT ![s].phase = "committing", ![s].wrote[Period(s)] = tx[s].count + 1]
  /\ UNCHANGED <<month, dbVars, requests, failures>>

\* schedule_plan_change; asking for the plan one has, with nothing pending,
\* changes nothing.
Schedule(s, target) ==
  LET old == tx[s].seen IN
  /\ Metered(s, "change", FALSE)
  /\ IF old.plan = target /\ old.pending = NoPlan
     THEN Become(s, "committing")
     ELSE Write(s, [old EXCEPT !.pending = target], "committing")
  /\ UNCHANGED <<month, dbVars, requests, failures>>

\* The answer to a plan change is made from a second snapshot.
Reload(s) ==
  /\ Phase(s) = "committing"
  /\ tx[s].kind = "change"
  /\ ~tx[s].checked
  /\ tx' = [tx EXCEPT ![s] = Snapshot(s, [@ EXCEPT !.checked = TRUE])]
  /\ UNCHANGED <<month, dbVars, requests, failures>>

Ready(s) ==
  \/ Phase(s) = "rolling" /\ ~Due(s) /\ tx[s].kind = "cycle"
  \/ Metered(s, "other", FALSE) \/ Metered(s, "change", TRUE)
  \/ Phase(s) = "committing" /\ tx[s].kind = "generate"

Commit(s) ==
  /\ Ready(s)
  /\ row' = Row(s)
  /\ invoices' = invoices \cup tx[s].drafts
  /\ meters' = [p \in Months |-> Meter(s, p)]
  /\ accepted' = IF tx[s].kind = "generate"
                 THEN [accepted EXCEPT ![Period(s)] = @ + 1] ELSE accepted
  /\ Rollback(s)
  /\ UNCHANGED <<month, requests, failures>>

\* The rest of the request fails, the process dies or the broker refuses.
Fail(s) ==
  /\ Phase(s) # "idle"
  /\ failures < MaxFailures
  /\ failures' = failures + 1
  /\ Rollback(s)
  /\ UNCHANGED <<month, dbVars, requests>>

\* s waits for a lock of v.
BlockedBy(s, v) ==
  /\ v # s
  /\ \/ /\ \/ Phase(s) \in {"provisioning", "renewing"}
           \/ Metered(s, "change", FALSE)
        /\ tx[v].dirty # {}
     \/ Phase(s) = "invoicing" /\ Period(s) \in BilledIn(tx[v].drafts)
     \/ /\ Phase(s) = "creating" \/ Metered(s, "generate", TRUE)
        /\ tx[v].wrote[Period(s)] # NoMeter

\* PostgreSQL ends a deadlock by failing one of the transactions.
BreakDeadlock(s) ==
  /\ \E S \in SUBSET Sessions :
       s \in S /\ \A u \in S : \E v \in S : BlockedBy(u, v)
  /\ Rollback(s)
  /\ UNCHANGED <<month, dbVars, requests, failures>>

\* The next month begins.  No transaction lasts longer than a month.
NextMonth ==
  /\ month < LastMonth
  /\ \A s \in Sessions : Phase(s) # "idle" => tx[s].born = month
  /\ month' = month + 1
  /\ UNCHANGED <<dbVars, tx, requests, failures>>

-----------------------------------------------------------------------------
Step(s) ==
  \/ Provision(s) \/ FindInvoice(s) \/ InsertInvoice(s) \/ Renew(s)
  \/ LoadMeter(s) \/ CreateMeter(s)
  \/ Enforce(s) \/ Record(s) \/ (\E p \in Plans : Schedule(s, p)) \/ Reload(s)
  \/ Commit(s) \/ BreakDeadlock(s)

Next ==
  \/ \E s \in Sessions : (\E k \in Kinds : Open(s, k)) \/ Step(s) \/ Fail(s)
  \/ NextMonth

Spec == Init /\ [][Next]_vars

(* The scheduler of celery_app.py runs the billing cycle for ever, and       *)
(* transactions that may go on do so.                                        *)
Fairness ==
  /\ \A s \in Sessions : WF_vars(Step(s))
  /\ WF_vars(\E s \in Sessions : Open(s, "cycle"))

FairSpec == Spec /\ Fairness

-----------------------------------------------------------------------------
(* Properties *)

\* A period is invoiced once, however many transactions find it ended
\* (_issue_invoice_for_period, uq_billing_invoices_org_period).
OneInvoicePerPeriod ==
  \A i, j \in invoices : i.period = j.period => i = j

\* The subscription never leaves a period without an invoice for it
\* (_roll_subscription_forward_if_needed), even when it catches up months.
NoPeriodUnbilled ==
  [][\A p \in Months :
       row.period # 0 /\ row.period <= p /\ p < row'.period => p \in BilledIn(invoices')]_vars

\* Meters and invoices never count more generations than were accepted in the
\* period; lost updates make them count less, failures leave no trace.
NeverOverbilled ==
  /\ \A p \in Months : meters[p] <= accepted[p]
  /\ \A i \in invoices : i.count <= accepted[i.period]

Ledger == INSTANCE BillingLedger WITH period <- row.period

\* Overlapping transactions on stale rows amount to whole ones on a ledger, one
\* at a time (_ensure_snapshot, run_billing_cycle).
KeepsLedger == Ledger!Spec

\* A period that has ended is invoiced in the end.
EventuallyBilled ==
  \A p \in Months : row.period = p /\ month > p ~> p \in BilledIn(invoices)
=============================================================================
