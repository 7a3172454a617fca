---------------------------- MODULE BillingProofs ----------------------------
(***************************************************************************)
(* Proofs about Billing for any sessions, plans, caps and bounds.          *)
(***************************************************************************)
EXTENDS Billing, TLAPS

-----------------------------------------------------------------------------
(* Rows and sessions *)

\* A subscription row put together from two has the shape of a row.
LEMMA OverlayType ==
  ASSUME row \in Rows, NEW cols, NEW mine \in Rows
  PROVE  /\ Overlay(cols, mine) \in Rows
         /\ Overlay(cols, mine).period = IF "period" \in cols THEN mine.period ELSE row.period
BY DEF Overlay, Rows

\* Constants of a session have the shape of a session.
LEMMA ClosedType == Closed \in Transactions
<1>1. NoRow \in Rows
  BY PlansAssumption, BoundsAssumption DEF NoRow, Rows
<1>2. 0 \in 0..LastMonth
  BY BoundsAssumption
<1> QED
  BY <1>1, <1>2 DEF Closed, Transactions, Phases, Kinds, NoMeter

\* A snapshot keeps the shape of a session and goes by the row.
LEMMA SnapshotType ==
  ASSUME TypeOK, NEW s \in Sessions, NEW loaded \in Transactions
  PROVE  /\ Snapshot(s, loaded) \in Transactions
         /\ Row(s) \in Rows
<1>1. Row(s) \in Rows
  BY OverlayType DEF Row, TypeOK, Transactions
<1>2. month \in 0..LastMonth
  BY BoundsAssumption DEF TypeOK, Months
<1> QED
  BY <1>1, <1>2 DEF Snapshot, Transactions, Phases

\* What the current session becomes in a step.
LEMMA StepType ==
  ASSUME TypeOK, NEW s \in Sessions, NEW t \in Transactions, tx' = [tx EXCEPT ![s] = t]
  PROVE  tx' \in [Sessions -> Transactions]
BY DEF TypeOK

-----------------------------------------------------------------------------
(* The inductive invariant *)

\* A session that got past the provisioning works on a real period, and only
\* an ended one is invoiced.
PeriodInv(s) ==
  /\ Phase(s) = "idle" => tx[s].dirty = {}
  /\ "period" \in tx[s].dirty => Period(s) # 0
  /\ Phase(s) \notin {"idle", "provisioning"} =>
       Period(s) # 0 /\ (row.period # 0 \/ "period" \in tx[s].dirty)
  /\ Phase(s) \in {"invoicing", "renewing"} => Due(s)

\* The invoices a session has written are for periods it has left (or is just
\* leaving), one each, none of them committed by another session.
DraftInv(s) ==
  /\ tx[s].drafts # {} =>
       /\ Phase(s) \notin {"idle", "provisioning"}
       /\ "period" \in tx[s].dirty \/ Phase(s) = "renewing"
  /\ \A d \in tx[s].drafts :
       /\ d.period < Period(s) \/ (Phase(s) = "renewing" /\ d.period = Period(s))
       /\ d.count <= accepted[d.period]
       /\ \A e \in tx[s].drafts : d.period = e.period => d = e
       /\ \A i \in invoices : d.period # i.period

\* Its meter counts one generation more than were accepted only when it is
\* about to commit that one.
MeterInv(s) ==
  /\ \A p \in Months :
       tx[s].wrote[p] <= accepted[p]
         + IF tx[s].kind = "generate" /\ Phase(s) = "committing" /\ Period(s) = p
           THEN 1 ELSE 0
  /\ Phase(s) \in {"invoicing", "metered"} => tx[s].count <= accepted[Period(s)]

\* Two sessions never hold an invoice of the same period.
Apart(s, v) == \A d \in tx[s].drafts, e \in tx[v].drafts : d.period # e.period

SessionInv(s) ==
  /\ PeriodInv(s) /\ DraftInv(s) /\ MeterInv(s)
  /\ \A v \in Sessions \ {s} : Apart(s, v)

BillingInv ==
  /\ TypeOK
  /\ OneInvoicePerPeriod
  /\ NeverOverbilled
  /\ \A s \in Sessions : SessionInv(s)

-----------------------------------------------------------------------------
(* The initial states *)

\* No session has begun, nothing is written.
LEMMA InvInit == Init => BillingInv
<1> SUFFICES ASSUME Init PROVE BillingInv
  OBVIOUS
<1>1. TypeOK
  <2>1. NoRow \in Rows /\ month \in Months
    BY PlansAssumption, BoundsAssumption DEF Init, NoRow, Rows, Months
  <2>2. tx \in [Sessions -> Transactions]
    BY ClosedType DEF Init
  <2> QED
    BY <2>1, <2>2, BoundsAssumption DEF Init, TypeOK, NoMeter
<1>2. OneInvoicePerPeriod /\ NeverOverbilled
  BY DEF Init, OneInvoicePerPeriod, NeverOverbilled, NoMeter
<1>3. ASSUME NEW s \in Sessions PROVE SessionInv(s)
  BY <1>3 DEF Init, SessionInv, PeriodInv, DraftInv, MeterInv, Apart, Closed, NoRow, NoMeter, Phase, Period
<1> QED
  BY <1>1, <1>2, <1>3 DEF BillingInv

-----------------------------------------------------------------------------
(* Steps inside a transaction *)

\* What committed rows and the other sessions satisfy survives a step that
\* changes one session only.
LEMMA Frame ==
  ASSUME BillingInv, NEW s \in Sessions, UNCHANGED dbVars,
         month' \in Months, requests' \in 0..MaxRequests, failures' \in 0..MaxFailures,
         tx' \in [Sessions -> Transactions], \A v \in Sessions \ {s} : tx'[v] = tx[v],
         PeriodInv(s)', DraftInv(s)', MeterInv(s)',
         \A v \in Sessions \ {s} : Apart(s, v)'
  PROVE  BillingInv'
<1>1. TypeOK'
  BY DEF BillingInv, TypeOK, dbVars
<1>2. OneInvoicePerPeriod' /\ NeverOverbilled'
  BY DEF BillingInv, OneInvoicePerPeriod, NeverOverbilled, dbVars
<1>3. ASSUME NEW v \in Sessions \ {s} PROVE SessionInv(v)'
  <2>1. SessionInv(v) /\ tx'[v] = tx[v]
    BY DEF BillingInv
  <2>2. PeriodInv(v)' /\ DraftInv(v)' /\ MeterInv(v)'
    BY <2>1 DEF SessionInv, PeriodInv, DraftInv, MeterInv, Phase, Period, Due, dbVars
  <2>3. ASSUME NEW u \in Sessions \ {v} PROVE Apart(v, u)'
    BY <2>1 DEF SessionInv, Apart
  <2> QED
    BY <2>2, <2>3 DEF SessionInv
<1> QED
  BY <1>1, <1>2, <1>3 DEF BillingInv, SessionInv

\* A session that forgets everything disturbs nothing.
LEMMA RollbackStep ==
  ASSUME BillingInv, NEW s \in Sessions, Rollback(s), UNCHANGED dbVars,
         month' \in Months, requests' \in 0..MaxRequests, failures' \in 0..MaxFailures
  PROVE  BillingInv'
<1>1. tx' \in [Sessions -> Transactions]
  BY ClosedType DEF Rollback, BillingInv, TypeOK
<1>2. tx'[s] = Closed /\ \A v \in Sessions \ {s} : tx'[v] = tx[v]
  BY DEF Rollback, BillingInv, TypeOK
<1>3. PeriodInv(s)' /\ DraftInv(s)' /\ \A v \in Sessions \ {s} : Apart(s, v)'
  BY <1>2 DEF PeriodInv, DraftInv, Apart, Closed, Phase, Period
<1>4. MeterInv(s)'
  BY <1>2 DEF MeterInv, Closed, NoMeter, Phase, Period, BillingInv, TypeOK, dbVars
<1> QED
  BY <1>1, <1>2, <1>3, <1>4, Frame

\* A step of s that keeps its invoices keeps them apart from the others'.
LEMMA SameDrafts ==
  ASSUME BillingInv, NEW s \in Sessions, UNCHANGED dbVars, month' = month,
         requests' = requests, failures' = failures,
         tx' \in [Sessions -> Transactions], \A v \in Sessions \ {s} : tx'[v] = tx[v],
         tx'[s].drafts = tx[s].drafts,
         PeriodInv(s)', DraftInv(s)', MeterInv(s)'
  PROVE  BillingInv'
<1>1. month' \in Months /\ requests' \in 0..MaxRequests /\ failures' \in 0..MaxFailures
  BY DEF BillingInv, TypeOK
<1>2. \A v \in Sessions \ {s} : Apart(s, v)'
  BY DEF BillingInv, SessionInv, Apart
<1> QED
  BY <1>1, <1>2, Frame

\* A transaction begins: it works on a committed period or has to provision.
LEMMA OpenStep ==
  ASSUME BillingInv, NEW s \in Sessions, NEW k \in Kinds, Open(s, k)
  PROVE  BillingInv'
<1> DEFINE new == [Closed EXCEPT !.kind = k, !.born = month]
           t == Snapshot(s, new)
<1>1. month \in Months /\ month' \in Months /\ requests' \in 0..MaxRequests
      /\ failures' \in 0..MaxFailures /\ UNCHANGED dbVars
  BY BoundsAssumption DEF Open, BillingInv, TypeOK
<1>2. new \in Transactions
  <2>1. month \in 0..LastMonth
    BY <1>1, BoundsAssumption DEF Months
  <2> QED
    BY <2>1, ClosedType DEF Transactions, Closed
<1>3. t \in Transactions /\ Row(s) \in Rows
  BY <1>2, SnapshotType DEF BillingInv
<1>4. tx' = [tx EXCEPT ![s] = t]
  BY DEF Open
<1>5. tx' \in [Sessions -> Transactions] /\ tx'[s] = t
      /\ \A v \in Sessions \ {s} : tx'[v] = tx[v]
  BY <1>3, <1>4 DEF BillingInv, TypeOK
<1>6. /\ t.dirty = {} /\ t.drafts = {} /\ t.wrote = [p \in Months |-> NoMeter]
      /\ t.phase = IF Row(s).period = 0 THEN "provisioning" ELSE "rolling"
      /\ t.seen = Row(s)
  BY DEF Snapshot, Closed
<1>7. tx[s].dirty = {} => Row(s).period = row.period
  BY DEF Row, Overlay
<1>8. PeriodInv(s)' /\ DraftInv(s)' /\ \A v \in Sessions \ {s} : Apart(s, v)'
  <2>1. tx[s].dirty = {}
    BY DEF Open, BillingInv, SessionInv, PeriodInv
  <2> QED
    BY <1>1, <1>5, <1>6, <1>7, <2>1 DEF PeriodInv, DraftInv, Apart, Phase, Period, dbVars
<1>9. MeterInv(s)'
  <2>1. \A p \in Months : tx'[s].wrote[p] = -1
    BY <1>5, <1>6 DEF NoMeter
  <2>2. tx'[s].phase \in {"provisioning", "rolling"}
    BY <1>5, <1>6
  <2>3. accepted' \in [Months -> Nat]
    BY <1>1 DEF BillingInv, TypeOK, dbVars
  <2> QED
    BY <2>1, <2>2, <2>3 DEF MeterInv, Phase
<1> QED
  BY <1>1, <1>5, <1>8, <1>9, Frame

\* The default plan is assigned from this month on.
LEMMA ProvisionStep ==
  ASSUME BillingInv, NEW s \in Sessions, Provision(s)
  PROVE  BillingInv'
<1> DEFINE new == [NoRow EXCEPT !.period = month]
           t == [tx[s] EXCEPT !.phase = "rolling", !.dirty = Columns, !.seen = new]
<1>1. UNCHANGED dbVars /\ month' = month /\ requests' = requests /\ failures' = failures
      /\ month \in 1..LastMonth /\ requests \in 0..MaxRequests /\ failures \in 0..MaxFailures
  BY DEF Provision, BillingInv, TypeOK, Months
<1>2. CASE row.period # 0
  BY <1>1, <1>2, RollbackStep DEF Provision, Months
<1>3. CASE row.period = 0
  <2>1. tx' = [tx EXCEPT ![s] = t]
    BY <1>3 DEF Provision, BillingInv, TypeOK, Transactions
  <2>2. new \in Rows /\ new.period = month
    BY <1>1, PlansAssumption DEF NoRow, Rows
  <2>3. t \in Transactions
    BY ZenonT(60), <2>2 DEF BillingInv, TypeOK, Transactions, Phases
  <2>4. tx' \in [Sessions -> Transactions] /\ tx'[s] = t
        /\ \A v \in Sessions \ {s} : tx'[v] = tx[v]
    BY <2>1, <2>3 DEF BillingInv, TypeOK
  <2>5. /\ t.phase = "rolling" /\ t.seen = new /\ t.drafts = tx[s].drafts
        /\ t.wrote = tx[s].wrote /\ t.dirty = Columns
    BY DEF BillingInv, TypeOK, Transactions
  <2>6. PeriodInv(s)'
    <3>1. tx'[s].phase = "rolling" /\ tx'[s].seen.period = month /\ "period" \in tx'[s].dirty
      BY <2>2, <2>4, <2>5 DEF Columns
    <3>2. month # 0
      BY <1>1, BoundsAssumption
    <3> QED
      BY <3>1, <3>2 DEF PeriodInv, Phase, Period
  <2>7. DraftInv(s)'
    BY <2>4, <2>5 DEF BillingInv, SessionInv, DraftInv, Phase, Provision
  <2>8. MeterInv(s)'
    BY <1>1, <2>4, <2>5 DEF BillingInv, SessionInv, MeterInv, Phase, Provision, dbVars
  <2> QED
    BY <1>1, <2>4, <2>5, <2>6, <2>7, <2>8, SameDrafts
<1> QED
  BY <1>2, <1>3



\* A step that only moves a session on keeps its type and the others'.
LEMMA BecomeType ==
  ASSUME TypeOK, NEW s \in Sessions, NEW phase \in Phases, NEW n \in Nat,
         tx' = [tx EXCEPT ![s].phase = phase, ![s].count = n]
  PROVE  /\ tx' \in [Sessions -> Transactions]
         /\ \A v \in Sessions \ {s} : tx'[v] = tx[v]
         /\ tx'[s] = [tx[s] EXCEPT !.phase = phase, !.count = n]
<1>1. tx[s] \in Transactions
  BY DEF TypeOK
<1>2. [tx[s] EXCEPT !.phase = phase, !.count = n] \in Transactions
  BY <1>1 DEF Transactions
<1>3. tx' = [tx EXCEPT ![s] = [tx[s] EXCEPT !.phase = phase, !.count = n]]
  BY DEF TypeOK, Transactions
<1> QED
  BY <1>2, <1>3 DEF TypeOK

\* Moving on to another phase with another count, between writes.
LEMMA MoveOn ==
  ASSUME BillingInv, NEW s \in Sessions, NEW phase \in Phases, NEW n \in Nat,
         Phase(s) \in {"rolling", "creating", "metered", "invoicing"},
         phase \in {"renewing", "invoicing", "creating", "metered", "committing"},
         phase \in {"invoicing", "renewing"} => Due(s),
         phase \in {"invoicing", "metered"} => n <= accepted[Period(s)],
         tx' = [tx EXCEPT ![s].phase = phase, ![s].count = n],
         UNCHANGED <<month, dbVars, requests, failures>>
  PROVE  BillingInv'
<1>1. /\ tx' \in [Sessions -> Transactions]
      /\ \A v \in Sessions \ {s} : tx'[v] = tx[v]
      /\ tx'[s] = [tx[s] EXCEPT !.phase = phase, !.count = n]
  BY BecomeType DEF BillingInv
<1>2. tx[s] \in Transactions /\ SessionInv(s)
  BY DEF BillingInv, TypeOK
<1>3. /\ tx'[s].phase = phase /\ tx'[s].count = n
      /\ tx'[s].seen = tx[s].seen /\ tx'[s].dirty = tx[s].dirty /\ tx'[s].asof = tx[s].asof
      /\ tx'[s].drafts = tx[s].drafts /\ tx'[s].wrote = tx[s].wrote
      /\ tx'[s].kind = tx[s].kind
  BY <1>1, <1>2 DEF Transactions
<1>4. PeriodInv(s)'
  BY <1>2, <1>3 DEF SessionInv, PeriodInv, Phase, Period, Due, dbVars
<1>5. DraftInv(s)'
  BY <1>2, <1>3 DEF SessionInv, DraftInv, Phase, Period, dbVars
<1>6. MeterInv(s)'
  <2>1. ASSUME NEW p \in Months
        PROVE  tx[s].wrote[p] <= accepted[p] /\ tx[s].wrote[p] \in Int /\ accepted[p] \in Nat
    BY <1>2 DEF SessionInv, MeterInv, Phase, Transactions, NoMeter, BillingInv, TypeOK
  <2> QED
    BY <1>3, <2>1 DEF MeterInv, Phase, Period, dbVars
<1> QED
  BY <1>1, <1>3, <1>4, <1>5, <1>6, SameDrafts DEF dbVars

\* What a session reads of a meter was accepted.
LEMMA MeterBound ==
  ASSUME BillingInv, NEW s \in Sessions, Phase(s) # "committing", NEW p \in Months,
         Meter(s, p) # NoMeter
  PROVE  Meter(s, p) \in Nat /\ Meter(s, p) <= accepted[p]
<1>1. tx[s] \in Transactions /\ SessionInv(s)
  BY DEF BillingInv, TypeOK
<1>2. tx[s].wrote[p] <= accepted[p]
  BY <1>1 DEF SessionInv, MeterInv, BillingInv, TypeOK
<1>3. tx[s].wrote[p] \in Nat \cup {NoMeter} /\ meters[p] \in Nat \cup {NoMeter}
  BY <1>1 DEF Transactions, BillingInv, TypeOK
<1>4. meters[p] <= accepted[p]
  BY DEF BillingInv, NeverOverbilled
<1> QED
  BY <1>2, <1>3, <1>4 DEF Meter

\* A session at work knows which period it works on.
LEMMA PeriodType ==
  ASSUME BillingInv, NEW s \in Sessions, Phase(s) \notin {"idle", "provisioning"}
  PROVE  Period(s) \in Months /\ accepted[Period(s)] \in Nat
<1>1. tx[s] \in Transactions /\ Period(s) # 0
  BY DEF BillingInv, TypeOK, SessionInv, PeriodInv
<1>2. Period(s) \in 0..LastMonth
  BY <1>1 DEF Transactions, Rows, Period
<1> QED
  BY <1>1, <1>2, BoundsAssumption DEF Months, BillingInv, TypeOK

\* An ended period: its invoice exists or its usage is read.
LEMMA FindInvoiceStep ==
  ASSUME BillingInv, NEW s \in Sessions, FindInvoice(s)
  PROVE  BillingInv'
<1>1. Phase(s) = "rolling" /\ Due(s) /\ UNCHANGED <<month, dbVars, requests, failures>>
  BY DEF FindInvoice
<1>2. Period(s) \in Months /\ accepted[Period(s)] \in Nat /\ tx[s] \in Transactions
  BY <1>1, PeriodType DEF BillingInv, TypeOK
<1>3. CASE Period(s) \in BilledIn(invoices)
  <2>1. tx' = [tx EXCEPT ![s].phase = "renewing", ![s].count = tx[s].count]
    BY <1>2, <1>3 DEF FindInvoice, Become, BillingInv, TypeOK, Transactions
  <2>2. tx[s].count \in Nat
    BY <1>2 DEF Transactions
  <2> QED
    BY <1>1, <2>1, <2>2, MoveOn DEF Phases
<1>4. CASE Period(s) \notin BilledIn(invoices)
  <2> DEFINE n == IF Meter(s, Period(s)) = NoMeter THEN 0 ELSE Meter(s, Period(s))
  <2>1. tx' = [tx EXCEPT ![s].phase = "invoicing", ![s].count = n]
    BY <1>4 DEF FindInvoice
  <2>2. n \in Nat /\ n <= accepted[Period(s)]
    BY <1>1, <1>2, MeterBound
  <2> QED
    BY <1>1, <2>1, <2>2, MoveOn DEF Phases
<1> QED
  BY <1>3, <1>4

\* The meter of the period is loaded, or has to be created.
LEMMA LoadMeterStep ==
  ASSUME BillingInv, NEW s \in Sessions, LoadMeter(s)
  PROVE  BillingInv'
<1>1. Phase(s) = "rolling" /\ UNCHANGED <<month, dbVars, requests, failures>>
  BY DEF LoadMeter
<1>2. Period(s) \in Months /\ accepted[Period(s)] \in Nat /\ tx[s] \in Transactions
  BY <1>1, PeriodType DEF BillingInv, TypeOK
<1>3. CASE Meter(s, Period(s)) = NoMeter
  <2>1. tx' = [tx EXCEPT ![s].phase = "creating", ![s].count = tx[s].count]
    BY <1>2, <1>3 DEF LoadMeter, Become, BillingInv, TypeOK, Transactions
  <2>2. tx[s].count \in Nat
    BY <1>2 DEF Transactions
  <2> QED
    BY <1>1, <2>1, <2>2, MoveOn DEF Phases
<1>4. CASE Meter(s, Period(s)) # NoMeter
  <2>1. tx' = [tx EXCEPT ![s].phase = "metered", ![s].count = Meter(s, Period(s))]
    BY <1>4 DEF LoadMeter
  <2>2. Meter(s, Period(s)) \in Nat /\ Meter(s, Period(s)) <= accepted[Period(s)]
    BY <1>1, <1>2, <1>4, MeterBound
  <2> QED
    BY <1>1, <2>1, <2>2, MoveOn DEF Phases
<1> QED
  BY <1>3, <1>4


\* A step that writes the meter of the period the session works on.
LEMMA WriteMeter ==
  ASSUME BillingInv, NEW s \in Sessions, NEW phase \in Phases, NEW n \in Nat, NEW w \in Nat,
         Phase(s) \in {"creating", "metered"},
         phase \in {"metered", "committing"},
         n <= accepted[Period(s)],
         w <= accepted[Period(s)]
                + IF tx[s].kind = "generate" /\ phase = "committing" THEN 1 ELSE 0,
         tx' = [tx EXCEPT ![s].phase = phase, ![s].count = n, ![s].wrote[Period(s)] = w],
         UNCHANGED <<month, dbVars, requests, failures>>
  PROVE  BillingInv'
<1> DEFINE t == [tx[s] EXCEPT !.phase = phase, !.count = n,
                              !.wrote = [@ EXCEPT ![Period(s)] = w]]
<1>1. tx[s] \in Transactions /\ SessionInv(s) /\ Period(s) \in Months
  BY PeriodType DEF BillingInv, TypeOK
<1>2. tx' = [tx EXCEPT ![s] = t]
  BY <1>1 DEF BillingInv, TypeOK, Transactions
<1>3. [tx[s].wrote EXCEPT ![Period(s)] = w] \in [Months -> Nat \cup {NoMeter}]
  BY <1>1 DEF Transactions
<1>4. t \in Transactions
  BY <1>1, <1>3 DEF Transactions
<1>5. tx' \in [Sessions -> Transactions] /\ tx'[s] = t
      /\ \A v \in Sessions \ {s} : tx'[v] = tx[v]
  BY <1>2, <1>4 DEF BillingInv, TypeOK
<1>6. /\ t.phase = phase /\ t.count = n /\ t.wrote = [tx[s].wrote EXCEPT ![Period(s)] = w]
      /\ t.seen = tx[s].seen /\ t.dirty = tx[s].dirty /\ t.asof = tx[s].asof
      /\ t.drafts = tx[s].drafts /\ t.kind = tx[s].kind
  BY <1>1 DEF Transactions
<1>7. PeriodInv(s)' /\ DraftInv(s)'
  BY <1>1, <1>5, <1>6 DEF SessionInv, PeriodInv, DraftInv, Phase, Period, dbVars
<1>8. MeterInv(s)'
  <2>1. ASSUME NEW p \in Months
        PROVE  tx[s].wrote[p] <= accepted[p] /\ tx[s].wrote[p] \in Int /\ accepted[p] \in Nat
    BY <1>1 DEF SessionInv, MeterInv, Phase, Transactions, NoMeter, BillingInv, TypeOK
  <2>2. ASSUME NEW p \in Months
        PROVE  t.wrote[p] = IF p = Period(s) THEN w ELSE tx[s].wrote[p]
    BY <1>1, <1>6 DEF Transactions
  <2>3. tx'[s].seen.period = tx[s].seen.period /\ accepted' = accepted
    BY <1>5, <1>6 DEF dbVars
  <2> HIDE DEF t
  <2>4. ASSUME NEW p \in Months
        PROVE  tx'[s].wrote[p] <= accepted[p]
                 + IF tx[s].kind = "generate" /\ phase = "committing" /\ Period(s) = p
                   THEN 1 ELSE 0
    BY <1>5, <2>1, <2>2
  <2> QED
    BY <1>5, <1>6, <2>3, <2>4 DEF MeterInv, Phase, Period
<1> QED
  BY <1>5, <1>6, <1>7, <1>8, SameDrafts DEF dbVars

\* A meter is created with no generation in it.
LEMMA CreateMeterStep ==
  ASSUME BillingInv, NEW s \in Sessions, CreateMeter(s)
  PROVE  BillingInv'
<1>1. Phase(s) = "creating" /\ UNCHANGED <<month, dbVars, requests, failures>>
  BY DEF CreateMeter
<1>2. Period(s) \in Months /\ accepted[Period(s)] \in Nat
  BY <1>1, PeriodType
<1>3. CASE meters[Period(s)] # NoMeter
  BY <1>1, <1>3, RollbackStep DEF CreateMeter, dbVars, BillingInv, TypeOK
<1>4. CASE meters[Period(s)] = NoMeter
  <2>1. tx' = [tx EXCEPT ![s].phase = "metered", ![s].count = 0, ![s].wrote[Period(s)] = 0]
    BY <1>4 DEF CreateMeter
  <2> QED
    <3>1. /\ 0 <= accepted[Period(s)]
          /\ 0 <= accepted[Period(s)]
                    + IF tx[s].kind = "generate" /\ "metered" = "committing" THEN 1 ELSE 0
      BY <1>2
    <3>2. "metered" \in Phases /\ 0 \in Nat
      BY DEF Phases
    <3> QED
      BY <1>1, <2>1, <3>1, <3>2, WriteMeter
<1> QED
  BY <1>3, <1>4

\* A generation is counted on top of what was read.
LEMMA RecordStep ==
  ASSUME BillingInv, NEW s \in Sessions, Record(s)
  PROVE  BillingInv'
<1>1. Phase(s) = "metered" /\ tx[s].kind = "generate"
      /\ UNCHANGED <<month, dbVars, requests, failures>>
  BY DEF Record, Metered
<1>2. Period(s) \in Months /\ accepted[Period(s)] \in Nat /\ tx[s] \in Transactions
  BY <1>1, PeriodType DEF BillingInv, TypeOK
<1>3. tx[s].count \in Nat /\ tx[s].count <= accepted[Period(s)]
  BY <1>1, <1>2 DEF BillingInv, SessionInv, MeterInv, Transactions
<1>4. tx' = [tx EXCEPT ![s].phase = "committing", ![s].count = tx[s].count,
                       ![s].wrote[Period(s)] = tx[s].count + 1]
  BY <1>2 DEF Record, BillingInv, TypeOK, Transactions
<1> QED
  <2>1. /\ tx[s].count + 1 \in Nat
        /\ tx[s].count + 1 <= accepted[Period(s)]
             + IF tx[s].kind = "generate" /\ "committing" = "committing" THEN 1 ELSE 0
    BY <1>1, <1>2, <1>3
  <2>2. "committing" \in Phases
    BY DEF Phases
  <2> QED
    BY <1>1, <1>3, <1>4, <2>1, <2>2, WriteMeter

\* The invoice of an ended period is written, unless somebody else's is there.
LEMMA InsertInvoiceStep ==
  ASSUME BillingInv, NEW s \in Sessions, InsertInvoice(s)
  PROVE  BillingInv'
<1> DEFINE new == tx[s].drafts \cup {Invoice(s)}
           t == [tx[s] EXCEPT !.phase = "renewing", !.drafts = new]
<1>1. Phase(s) = "invoicing" /\ UNCHANGED <<month, dbVars, requests, failures>>
      /\ InvoiceFree(s, Period(s))
  BY DEF InsertInvoice
<1>2. Period(s) \in Months /\ tx[s] \in Transactions /\ SessionInv(s)
  BY <1>1, PeriodType DEF BillingInv, TypeOK
<1>3. CASE Period(s) \in BilledIn(invoices)
  BY <1>1, <1>3, RollbackStep DEF InsertInvoice, dbVars, BillingInv, TypeOK
<1>4. CASE Period(s) \notin BilledIn(invoices)
  <2>1. Invoice(s) \in Invoices /\ Invoice(s).period = Period(s)
        /\ Invoice(s).count = tx[s].count
    BY <1>2 DEF Invoice, Invoices, Transactions, Rows
  <2>2. tx' = [tx EXCEPT ![s] = t]
    BY <1>2, <1>4 DEF InsertInvoice, BillingInv, TypeOK, Transactions
  <2>3. t \in Transactions
    BY <1>2, <2>1 DEF Transactions, Phases
  <2>4. tx' \in [Sessions -> Transactions] /\ tx'[s] = t
        /\ \A v \in Sessions \ {s} : tx'[v] = tx[v]
    BY <2>2, <2>3 DEF BillingInv, TypeOK
  <2>5. /\ t.phase = "renewing" /\ t.drafts = new /\ t.wrote = tx[s].wrote
        /\ t.seen = tx[s].seen /\ t.dirty = tx[s].dirty /\ t.asof = tx[s].asof
        /\ t.kind = tx[s].kind
    BY <1>2 DEF Transactions
  <2>6. PeriodInv(s)'
    BY <1>1, <1>2, <2>4, <2>5 DEF SessionInv, PeriodInv, Phase, Period, Due, dbVars
  <2>7. DraftInv(s)'
    <3>1. \A d \in tx[s].drafts : d.period < Period(s) /\ d.period \in Months
      BY <1>1, <1>2 DEF SessionInv, DraftInv, Transactions, Invoices
    <3>2. tx[s].count <= accepted[Period(s)]
      BY <1>1, <1>2 DEF SessionInv, MeterInv
    <3>3. \A i \in invoices : Period(s) # i.period
      BY <1>4 DEF BilledIn
    <3>4. ASSUME NEW d \in new
          PROVE  /\ d.period < Period(s) \/ d.period = Period(s)
                 /\ d.count <= accepted[d.period]
                 /\ \A e \in new : d.period = e.period => d = e
                 /\ \A i \in invoices : d.period # i.period
      <4>1. CASE d \in tx[s].drafts
        BY <1>2, <2>1, <3>1, <4>1 DEF SessionInv, DraftInv, Months
      <4>2. CASE d = Invoice(s)
        BY <1>2, <2>1, <3>1, <3>2, <3>3, <4>2 DEF Months
      <4> QED
        BY <4>1, <4>2
    <3> QED
      BY <1>1, <2>4, <2>5, <3>4 DEF DraftInv, Phase, Period, dbVars
  <2>8. MeterInv(s)'
    BY <1>1, <1>2, <2>4, <2>5 DEF SessionInv, MeterInv, Phase, Period, dbVars
  <2>9. ASSUME NEW v \in Sessions \ {s} PROVE Apart(s, v)'
    BY <1>1, <1>2, <2>1, <2>4, <2>5 DEF SessionInv, Apart, InvoiceFree, BilledIn
  <2> QED
    BY <1>1, <2>4, <2>6, <2>7, <2>8, <2>9, Frame DEF dbVars, BillingInv, TypeOK
<1> QED
  BY <1>3, <1>4


\* What a flush of the subscription leaves in the session.
LEMMA WriteType ==
  ASSUME BillingInv, NEW s \in Sessions, NEW new \in Rows, NEW phase \in Phases,
         Phase(s) \in {"renewing", "metered"}, Write(s, new, phase)
  PROVE  /\ tx' \in [Sessions -> Transactions]
         /\ \A v \in Sessions \ {s} : tx'[v] = tx[v]
         /\ tx'[s].phase = phase /\ tx'[s].kind = tx[s].kind /\ tx'[s].asof = tx[s].asof
         /\ tx'[s].born = tx[s].born
         /\ tx'[s].drafts = tx[s].drafts /\ tx'[s].wrote = tx[s].wrote
         /\ tx'[s].count = tx[s].count
         /\ "period" \in tx'[s].dirty <=>
              "period" \in tx[s].dirty \/ new.period # Period(s)
         /\ tx'[s].seen.period =
              IF "period" \in tx'[s].dirty THEN new.period ELSE row.period
<1> DEFINE d == tx[s].dirty \cup {c \in Columns : new[c] # tx[s].seen[c]}
           t == [tx[s] EXCEPT !.dirty = d, !.phase = phase, !.seen = Overlay(d, new)]
<1>1. tx[s] \in Transactions /\ row \in Rows
  BY DEF BillingInv, TypeOK
<1>2. tx' = [tx EXCEPT ![s] = t]
  BY <1>1 DEF Write, BillingInv, TypeOK, Transactions
<1>3. Overlay(d, new) \in Rows
      /\ Overlay(d, new).period = IF "period" \in d THEN new.period ELSE row.period
  BY <1>1, OverlayType
<1>4. d \in SUBSET Columns
  BY <1>1 DEF Transactions
<1>5. t \in Transactions
  BY <1>1, <1>3, <1>4 DEF Transactions
<1>6. tx' \in [Sessions -> Transactions] /\ tx'[s] = t
      /\ \A v \in Sessions \ {s} : tx'[v] = tx[v]
  BY <1>2, <1>5 DEF BillingInv, TypeOK
<1>7. /\ t.phase = phase /\ t.kind = tx[s].kind /\ t.asof = tx[s].asof
      /\ t.born = tx[s].born
      /\ t.drafts = tx[s].drafts /\ t.wrote = tx[s].wrote /\ t.count = tx[s].count
      /\ t.dirty = d /\ t.seen = Overlay(d, new)
  BY <1>1 DEF Transactions
<1>8. "period" \in d <=> "period" \in tx[s].dirty \/ new.period # Period(s)
  BY DEF Columns, Period
<1> QED
  BY <1>3, <1>6, <1>7, <1>8

\* The subscription enters the period after the one it was loaded in.
LEMMA RenewStep ==
  ASSUME BillingInv, NEW s \in Sessions, Renew(s)
  PROVE  BillingInv'
<1> DEFINE old == tx[s].seen
           new == [period  |-> old.period + 1,
                   plan    |-> IF old.pending = NoPlan THEN old.plan ELSE old.pending,
                   pending |-> NoPlan]
<1>1. Phase(s) = "renewing" /\ Write(s, new, "rolling")
      /\ UNCHANGED <<month, dbVars, requests, failures>>
  BY DEF Renew
<1>2. tx[s] \in Transactions /\ SessionInv(s) /\ Period(s) \in Months /\ Due(s)
  BY <1>1, PeriodType DEF BillingInv, TypeOK, SessionInv, PeriodInv
<1>3. new \in Rows /\ new.period = Period(s) + 1 /\ new.period # 0 /\ new.period # Period(s)
  BY <1>2, BoundsAssumption DEF Transactions, Rows, Due, Period, Months
<1>4. "rolling" \in Phases
  BY DEF Phases
<1> HIDE DEF new
<1>5. /\ tx' \in [Sessions -> Transactions]
      /\ \A v \in Sessions \ {s} : tx'[v] = tx[v]
      /\ tx'[s].phase = "rolling" /\ tx'[s].drafts = tx[s].drafts
      /\ tx'[s].wrote = tx[s].wrote
      /\ "period" \in tx'[s].dirty /\ tx'[s].seen.period = Period(s) + 1
  BY <1>1, <1>3, <1>4, WriteType
<1>6. PeriodInv(s)'
  BY <1>2, <1>5 DEF PeriodInv, Phase, Period, Months
<1>7. DraftInv(s)'
  <2>1. \A d \in tx[s].drafts : d.period < Period(s) + 1
    BY <1>2 DEF SessionInv, DraftInv, Transactions, Invoices, Months
  <2> QED
    BY <1>1, <1>2, <1>5, <2>1 DEF SessionInv, DraftInv, Phase, Period, dbVars
<1>8. MeterInv(s)'
  BY <1>1, <1>2, <1>5 DEF SessionInv, MeterInv, Phase, dbVars
<1> QED
  BY <1>1, <1>5, <1>6, <1>7, <1>8, SameDrafts DEF dbVars

\* A plan change touches the pending plan only.
LEMMA ScheduleStep ==
  ASSUME BillingInv, NEW s \in Sessions, NEW target \in Plans, Schedule(s, target)
  PROVE  BillingInv'
<1> DEFINE new == [tx[s].seen EXCEPT !.pending = target]
<1>1. Phase(s) = "metered" /\ tx[s].kind = "change"
      /\ UNCHANGED <<month, dbVars, requests, failures>>
  BY DEF Schedule, Metered
<1>2. tx[s] \in Transactions /\ SessionInv(s) /\ Period(s) \in Months
  BY <1>1, PeriodType DEF BillingInv, TypeOK
<1>3. "committing" \in Phases /\ tx[s].count \in Nat
  BY <1>2 DEF Phases, Transactions
<1>4. CASE tx[s].seen.plan = target /\ tx[s].seen.pending = NoPlan
  <2>1. tx' = [tx EXCEPT ![s].phase = "committing", ![s].count = tx[s].count]
    BY <1>2, <1>4 DEF Schedule, Become, BillingInv, TypeOK, Transactions
  <2> QED
    BY <1>1, <1>3, <2>1, MoveOn
<1>5. CASE ~(tx[s].seen.plan = target /\ tx[s].seen.pending = NoPlan)
  <2>1. Write(s, new, "committing")
    BY <1>5 DEF Schedule
  <2>2. new \in Rows /\ new.period = Period(s)
    BY <1>2 DEF Transactions, Rows, Period
  <2> HIDE DEF new
  <2>3. /\ tx' \in [Sessions -> Transactions]
        /\ \A v \in Sessions \ {s} : tx'[v] = tx[v]
        /\ tx'[s].phase = "committing" /\ tx'[s].drafts = tx[s].drafts
        /\ tx'[s].wrote = tx[s].wrote /\ tx'[s].kind = "change"
        /\ "period" \in tx'[s].dirty <=> "period" \in tx[s].dirty
        /\ tx'[s].seen.period = IF "period" \in tx[s].dirty THEN Period(s) ELSE row.period
    BY <1>1, <1>3, <2>1, <2>2, WriteType
  <2>4. PeriodInv(s)'
    BY <1>1, <1>2, <2>3 DEF SessionInv, PeriodInv, Phase, Period, dbVars
  <2>5. DraftInv(s)'
    BY <1>1, <1>2, <2>3 DEF SessionInv, DraftInv, Phase, Period, dbVars
  <2>6. MeterInv(s)'
    BY <1>1, <1>2, <2>3 DEF SessionInv, MeterInv, Phase, dbVars
  <2> QED
    BY <1>1, <2>3, <2>4, <2>5, <2>6, SameDrafts DEF dbVars
<1> QED
  BY <1>4, <1>5

\* A second snapshot in a transaction sees the transaction's own period.
LEMMA SecondSnapshot ==
  ASSUME BillingInv, NEW s \in Sessions, Phase(s) \in {"metered", "committing"},
         tx[s].kind # "generate" \/ Phase(s) = "metered",
         tx' = [tx EXCEPT ![s] = Snapshot(s, [@ EXCEPT !.checked = TRUE])],
         UNCHANGED <<month, dbVars, requests, failures>>
  PROVE  BillingInv'
<1> DEFINE loaded == [tx[s] EXCEPT !.checked = TRUE]
           t == Snapshot(s, loaded)
<1>1. tx[s] \in Transactions /\ SessionInv(s) /\ Period(s) \in Months
  BY PeriodType DEF BillingInv, TypeOK
<1>2. loaded \in Transactions
  BY <1>1 DEF Transactions
<1>3. t \in Transactions
  BY <1>2, SnapshotType DEF BillingInv
<1>4. tx' = [tx EXCEPT ![s] = t]
  BY DEF BillingInv, TypeOK
<1>5. tx' \in [Sessions -> Transactions] /\ tx'[s] = t
      /\ \A v \in Sessions \ {s} : tx'[v] = tx[v]
  BY <1>3, <1>4 DEF BillingInv, TypeOK
<1>6. /\ t.phase = IF Row(s).period = 0 THEN "provisioning" ELSE "rolling"
      /\ t.seen = Row(s) /\ t.dirty = tx[s].dirty /\ t.drafts = tx[s].drafts
      /\ t.wrote = tx[s].wrote
  BY <1>1 DEF Snapshot, Transactions
<1>7. Row(s).period = IF "period" \in tx[s].dirty THEN Period(s) ELSE row.period
  BY DEF Row, Overlay, Period
<1>8. Row(s).period # 0
  BY <1>1, <1>7 DEF SessionInv, PeriodInv
<1> HIDE DEF t
<1>9. PeriodInv(s)'
  BY <1>1, <1>5, <1>6, <1>7, <1>8 DEF SessionInv, PeriodInv, Phase, Period, dbVars
<1>10. DraftInv(s)'
  BY <1>1, <1>5, <1>6, <1>7, <1>8 DEF SessionInv, DraftInv, Phase, Period, dbVars
<1>11. MeterInv(s)'
  BY <1>1, <1>5, <1>6, <1>8 DEF SessionInv, MeterInv, Phase, dbVars
<1> QED
  BY <1>5, <1>6, <1>9, <1>10, <1>11, SameDrafts DEF dbVars

\* A request over the cap is refused, another goes on.
LEMMA EnforceStep ==
  ASSUME BillingInv, NEW s \in Sessions, Enforce(s)
  PROVE  BillingInv'
<1>1. Phase(s) = "metered" /\ UNCHANGED <<month, dbVars, requests, failures>>
  BY DEF Enforce, Metered
<1>2. CASE tx[s].count >= Cap[tx[s].seen.plan]
  BY <1>1, <1>2, RollbackStep DEF Enforce, dbVars, BillingInv, TypeOK
<1>3. CASE ~(tx[s].count >= Cap[tx[s].seen.plan])
  BY <1>1, <1>3, SecondSnapshot DEF Enforce
<1> QED
  BY <1>2, <1>3


-----------------------------------------------------------------------------
(* Commit *)

\* What a session may commit: a real period, and counts that were accepted.
LEMMA CommitBounds ==
  ASSUME BillingInv, NEW s \in Sessions, Commit(s)
  PROVE  /\ Row(s) \in Rows /\ Row(s).period # 0
         /\ accepted' \in [Months -> Nat]
         /\ \A p \in Months : accepted[p] <= accepted'[p]
         /\ \A p \in Months : tx[s].wrote[p] <= accepted'[p]
<1>1. tx[s] \in Transactions /\ SessionInv(s) /\ Ready(s)
  BY DEF BillingInv, TypeOK, Commit
<1>2. Phase(s) \notin {"idle", "provisioning"}
  BY <1>1 DEF Ready, Metered
<1>3. Period(s) \in Months /\ row \in Rows /\ accepted \in [Months -> Nat]
  BY <1>2, PeriodType DEF BillingInv, TypeOK
<1>4. Row(s) \in Rows
  BY <1>1, SnapshotType DEF BillingInv
<1>5. Row(s).period # 0
  BY <1>1, <1>2 DEF SessionInv, PeriodInv, Row, Overlay, Period
<1>6. accepted' = IF tx[s].kind = "generate"
                  THEN [accepted EXCEPT ![Period(s)] = @ + 1] ELSE accepted
  BY DEF Commit
<1>7. accepted' \in [Months -> Nat] /\ \A p \in Months : accepted[p] <= accepted'[p]
  BY <1>3, <1>6
<1>8. ASSUME NEW p \in Months PROVE tx[s].wrote[p] <= accepted'[p]
  <2>1. tx[s].wrote[p] \in Int /\ accepted[p] \in Nat
    BY <1>1, <1>3 DEF Transactions, NoMeter
  <2>2. tx[s].wrote[p] <= accepted[p]
          + IF tx[s].kind = "generate" /\ Phase(s) = "committing" /\ Period(s) = p
            THEN 1 ELSE 0
    BY <1>1 DEF SessionInv, MeterInv
  <2>3. CASE tx[s].kind = "generate" /\ Period(s) = p
    BY <1>3, <1>6, <2>1, <2>2, <2>3
  <2>4. CASE ~(tx[s].kind = "generate" /\ Period(s) = p)
    BY <1>3, <1>7, <2>1, <2>2, <2>4
  <2> QED
    BY <2>3, <2>4
<1> QED
  BY <1>4, <1>5, <1>7, <1>8

\* The shape of the state after a commit.
LEMMA CommitType ==
  ASSUME BillingInv, NEW s \in Sessions, Commit(s)
  PROVE  TypeOK' /\ tx'[s] = Closed /\ \A v \in Sessions \ {s} : tx'[v] = tx[v]
<1>1. /\ row' = Row(s) /\ invoices' = invoices \cup tx[s].drafts
      /\ meters' = [p \in Months |-> Meter(s, p)]
      /\ UNCHANGED <<month, requests, failures>> /\ Rollback(s)
  BY DEF Commit
<1>2. tx[s] \in Transactions /\ TypeOK
  BY DEF BillingInv, TypeOK
<1>3. meters' \in [Months -> Nat \cup {NoMeter}]
  BY <1>1, <1>2 DEF TypeOK, Meter, Transactions
<1>4. invoices' \subseteq Invoices
  BY <1>1, <1>2 DEF TypeOK, Transactions
<1>5. tx' = [tx EXCEPT ![s] = Closed]
  BY <1>1 DEF Rollback
<1>6. tx' \in [Sessions -> Transactions]
  BY <1>2, <1>5, ClosedType DEF TypeOK
<1> QED
  BY <1>1, <1>2, <1>3, <1>4, <1>5, <1>6, CommitBounds DEF TypeOK

\* The invoices and meters a commit publishes are right.
LEMMA CommitKeepsBills ==
  ASSUME BillingInv, NEW s \in Sessions, Commit(s)
  PROVE  OneInvoicePerPeriod' /\ NeverOverbilled'
<1>1. invoices' = invoices \cup tx[s].drafts /\ meters' = [p \in Months |-> Meter(s, p)]
  BY DEF Commit
<1>2. SessionInv(s) /\ invoices \subseteq Invoices /\ tx[s].drafts \subseteq Invoices
      /\ tx[s].wrote \in [Months -> Nat \cup {NoMeter}]
      /\ meters \in [Months -> Nat \cup {NoMeter}] /\ accepted \in [Months -> Nat]
  BY DEF BillingInv, TypeOK, Transactions
<1>3. /\ accepted' \in [Months -> Nat]
      /\ \A p \in Months : accepted[p] <= accepted'[p]
      /\ \A p \in Months : tx[s].wrote[p] <= accepted'[p]
  BY CommitBounds
<1>4. OneInvoicePerPeriod'
  BY <1>1, <1>2 DEF BillingInv, OneInvoicePerPeriod, SessionInv, DraftInv
<1>5. ASSUME NEW p \in Months PROVE meters'[p] <= accepted'[p]
  <2>1. meters[p] <= accepted[p] /\ meters[p] \in Int /\ accepted[p] \in Nat
        /\ accepted'[p] \in Nat
    BY <1>2, <1>3 DEF BillingInv, NeverOverbilled, NoMeter
  <2> QED
    BY <1>1, <1>3, <2>1 DEF Meter
<1>6. ASSUME NEW i \in invoices' PROVE i.count <= accepted'[i.period]
  <2>1. i \in Invoices /\ i.count <= accepted[i.period]
    BY <1>1, <1>2 DEF BillingInv, NeverOverbilled, SessionInv, DraftInv
  <2>2. i.period \in Months /\ i.count \in Nat
    BY <2>1 DEF Invoices
  <2> QED
    BY <1>2, <1>3, <2>1, <2>2
<1> QED
  BY <1>4, <1>5, <1>6 DEF NeverOverbilled

\* A commit by another session leaves a session consistent.
LEMMA CommitByOther ==
  ASSUME BillingInv, NEW s \in Sessions, Commit(s), NEW v \in Sessions \ {s}
  PROVE  SessionInv(v)'
<1>1. /\ row' = Row(s) /\ invoices' = invoices \cup tx[s].drafts
      /\ tx'[s] = Closed /\ \A u \in Sessions \ {s} : tx'[u] = tx[u]
  BY CommitType DEF Commit
<1>2. /\ Row(s).period # 0 /\ accepted' \in [Months -> Nat]
      /\ \A p \in Months : accepted[p] <= accepted'[p]
  BY CommitBounds
<1>3. SessionInv(v) /\ tx[v] \in Transactions /\ accepted \in [Months -> Nat]
  BY DEF BillingInv, TypeOK
<1>4. PeriodInv(v)'
  BY <1>1, <1>2, <1>3 DEF SessionInv, PeriodInv, Phase, Period, Due
<1>5. DraftInv(v)'
  <2>1. ASSUME NEW d \in tx[v].drafts
        PROVE  d.count <= accepted'[d.period] /\ \A i \in invoices' : d.period # i.period
    <3>1. d.period \in Months /\ d.count \in Nat /\ d.count <= accepted[d.period]
      BY <1>3 DEF SessionInv, DraftInv, Transactions, Invoices
    <3>2. \A i \in invoices' : d.period # i.period
      BY <1>1, <1>3 DEF SessionInv, DraftInv, Apart
    <3> QED
      BY <1>2, <1>3, <3>1, <3>2
  <2> QED
    BY <1>1, <1>3, <2>1 DEF SessionInv, DraftInv, Phase, Period
<1>6. MeterInv(v)'
  <2>1. tx'[v] = tx[v]
    BY <1>1
  <2>2. \A p \in Months : tx[v].wrote[p] \in Int /\ accepted[p] \in Nat /\ accepted'[p] \in Nat
    BY <1>2, <1>3 DEF Transactions, NoMeter
  <2>3. Phase(v) \in {"invoicing", "metered"} => tx[v].count <= accepted'[Period(v)]
    BY <1>2, <1>3, PeriodType DEF SessionInv, MeterInv, Transactions
  <2>4. ASSUME NEW p \in Months
        PROVE  tx[v].wrote[p] <= accepted'[p]
                 + IF tx[v].kind = "generate" /\ Phase(v) = "committing" /\ Period(v) = p
                   THEN 1 ELSE 0
    BY <1>2, <1>3, <2>2 DEF SessionInv, MeterInv
  <2> QED
    BY <2>1, <2>3, <2>4 DEF MeterInv, Phase, Period
<1>7. ASSUME NEW u \in Sessions \ {v} PROVE Apart(v, u)'
  BY <1>1, <1>3 DEF SessionInv, Apart, Closed
<1> QED
  BY <1>4, <1>5, <1>6, <1>7 DEF SessionInv

\* A commit keeps the invariant.
LEMMA CommitStep ==
  ASSUME BillingInv, NEW s \in Sessions, Commit(s)
  PROVE  BillingInv'
<1>1. TypeOK' /\ tx'[s] = Closed
  BY CommitType
<1>2. SessionInv(s)'
  BY <1>1 DEF SessionInv, PeriodInv, DraftInv, MeterInv, Apart, Closed, Phase, Period, NoMeter, TypeOK
<1>3. \A v \in Sessions : SessionInv(v)'
  BY <1>2, CommitByOther
<1> QED
  BY <1>1, <1>3, CommitKeepsBills DEF BillingInv

-----------------------------------------------------------------------------
(* The theorems *)

\* Every step keeps the invariant.
LEMMA InvNext == BillingInv /\ [Next]_vars => BillingInv'
<1> SUFFICES ASSUME BillingInv, [Next]_vars PROVE BillingInv'
  OBVIOUS
<1>1. month \in Months /\ requests \in 0..MaxRequests /\ failures \in 0..MaxFailures
  BY DEF BillingInv, TypeOK
<1>2. ASSUME NEW s \in Sessions, \E k \in Kinds : Open(s, k) PROVE BillingInv'
  BY <1>2, OpenStep
<1>3. ASSUME NEW s \in Sessions, Step(s) PROVE BillingInv'
  <2>1. CASE Provision(s) \/ FindInvoice(s) \/ InsertInvoice(s) \/ Renew(s)
    BY <2>1, ProvisionStep, FindInvoiceStep, InsertInvoiceStep, RenewStep
  <2>2. CASE LoadMeter(s) \/ CreateMeter(s) \/ Enforce(s) \/ Record(s)
    BY <2>2, LoadMeterStep, CreateMeterStep, EnforceStep, RecordStep
  <2>3. CASE \E p \in Plans : Schedule(s, p)
    BY <2>3, ScheduleStep
  <2>4. CASE Reload(s)
    BY <2>4, SecondSnapshot DEF Reload
  <2>5. CASE Commit(s)
    BY <2>5, CommitStep
  <2>6. CASE BreakDeadlock(s)
    BY <1>1, <2>6, RollbackStep DEF BreakDeadlock, dbVars
  <2> QED
    BY <1>3, <2>1, <2>2, <2>3, <2>4, <2>5, <2>6 DEF Step
<1>4. ASSUME NEW s \in Sessions, Fail(s) PROVE BillingInv'
  <2>1. failures' \in 0..MaxFailures
    BY <1>1, <1>4, BoundsAssumption DEF Fail
  <2> QED
    BY <1>1, <1>4, <2>1, RollbackStep DEF Fail, dbVars
<1>5. CASE NextMonth
  <2>1. month' \in Months /\ UNCHANGED <<dbVars, tx, requests, failures>>
    BY <1>1, <1>5, BoundsAssumption DEF NextMonth, Months
  <2> QED
    BY <2>1 DEF BillingInv, TypeOK, dbVars, OneInvoicePerPeriod, NeverOverbilled, SessionInv,
                PeriodInv, DraftInv, MeterInv, Apart, Phase, Period, Due
<1>6. CASE UNCHANGED vars
  BY <1>6 DEF vars, BillingInv, TypeOK, OneInvoicePerPeriod, NeverOverbilled, SessionInv,
              PeriodInv, DraftInv, MeterInv, Apart, Phase, Period, Due
<1> QED
  BY <1>2, <1>3, <1>4, <1>5, <1>6 DEF Next

\* The invariant holds in every reachable state.
THEOREM BillingInvCorrect == Spec => []BillingInv
BY InvInit, InvNext, PTL DEF Spec

\* The subscription, the meters, the invoices and the sessions keep their shape.
THEOREM BillingTypeCorrect == Spec => []TypeOK
<1>1. BillingInv => TypeOK
  BY DEF BillingInv
<1> QED
  BY <1>1, BillingInvCorrect, PTL

\* A period is invoiced once, for any number of concurrent transactions.
THEOREM OneInvoiceCorrect == Spec => []OneInvoicePerPeriod
<1>1. BillingInv => OneInvoicePerPeriod
  BY DEF BillingInv
<1> QED
  BY <1>1, BillingInvCorrect, PTL

\* Nothing is billed that was not accepted: meters and invoices never exceed
\* the generations committed in the period.
THEOREM NeverOverbilledCorrect == Spec => []NeverOverbilled
<1>1. BillingInv => NeverOverbilled
  BY DEF BillingInv
<1> QED
  BY <1>1, BillingInvCorrect, PTL


-----------------------------------------------------------------------------
(* The chain of billed periods *)

\* A session past the provisioning has a period.
AtWork(s) == Phase(s) \notin {"idle", "provisioning"}

\* The periods with an invoice, the ones s has written and not committed included.
BilledBy(s) == BilledIn(invoices) \cup BilledIn(tx[s].drafts)

\* Every period between the committed subscription's and the one s has in hand
\* is billed: by s itself where s is ahead, and committed where s is behind (a
\* stale session may still write its older period over a newer one).
Chain(s) ==
  /\ AtWork(s) /\ row.period # 0 =>
       \A q \in Months : /\ row.period <= q /\ q < Period(s) => q \in BilledBy(s)
                         /\ Period(s) <= q /\ q < row.period => q \in BilledIn(invoices)
  /\ Phase(s) = "renewing" => Period(s) \in BilledBy(s)

\* The subscription row is locked by one session at most.
OneWriter == \A s \in Sessions : \A v \in Sessions \ {s} : tx[s].dirty = {} \/ tx[v].dirty = {}

ChainInv == OneWriter /\ \A s \in Sessions : Chain(s)

\* No session is at work yet.
LEMMA ChainInit == Init => ChainInv
BY DEF Init, ChainInv, OneWriter, Chain, AtWork, Phase, Closed

\* A step of s inside its transaction concerns its own chain and the row lock.
LEMMA ChainFrame ==
  ASSUME ChainInv, NEW s \in Sessions, UNCHANGED dbVars,
         \A v \in Sessions \ {s} : tx'[v] = tx[v],
         tx'[s].dirty \in {{}, tx[s].dirty} \/ RowFree(s),
         Chain(s)'
  PROVE  ChainInv'
<1>1. ASSUME NEW v \in Sessions \ {s} PROVE Chain(v)'
  BY DEF ChainInv, Chain, AtWork, BilledBy, BilledIn, Phase, Period, dbVars
<1>2. OneWriter'
  <2>1. ASSUME NEW v \in Sessions \ {s} PROVE tx'[s].dirty = {} \/ tx'[v].dirty = {}
    BY DEF ChainInv, OneWriter, RowFree
  <2>2. ASSUME NEW u \in Sessions \ {s}, NEW v \in Sessions \ {u}
        PROVE  tx'[u].dirty = {} \/ tx'[v].dirty = {}
    BY <2>1 DEF ChainInv, OneWriter
  <2> QED
    BY <2>1, <2>2 DEF OneWriter
<1> QED
  BY <1>1, <1>2 DEF ChainInv

\* A session that forgets everything leaves no gap.
LEMMA ChainRollback ==
  ASSUME BillingInv, ChainInv, NEW s \in Sessions, Rollback(s), UNCHANGED dbVars
  PROVE  ChainInv'
<1>1. tx'[s] = Closed /\ \A v \in Sessions \ {s} : tx'[v] = tx[v]
  BY DEF Rollback, BillingInv, TypeOK
<1>2. Chain(s)'
  BY <1>1 DEF Chain, AtWork, Phase, Closed
<1> QED
  BY <1>1, <1>2, ChainFrame DEF Closed

\* A session at work that stays in its period and keeps its invoices.
LEMMA ChainStay ==
  ASSUME ChainInv, NEW s \in Sessions, UNCHANGED dbVars, AtWork(s),
         NEW t, tx'[s] = t, \A v \in Sessions \ {s} : tx'[v] = tx[v],
         t.seen = tx[s].seen, t.dirty = tx[s].dirty, tx[s].drafts \subseteq t.drafts,
         t.phase = "renewing" => Period(s) \in BilledIn(invoices) \cup BilledIn(t.drafts)
  PROVE  ChainInv'
<1>1. BilledBy(s) \subseteq BilledBy(s)'
  BY DEF BilledBy, BilledIn, dbVars
<1>2. Chain(s)'
  BY <1>1 DEF ChainInv, Chain, AtWork, BilledBy, BilledIn, Phase, Period, dbVars
<1> QED
  BY <1>2, ChainFrame

\* A session that takes the period from the row, or keeps the one it has written.
LEMMA ChainLoad ==
  ASSUME BillingInv, ChainInv, NEW s \in Sessions, UNCHANGED dbVars,
         NEW t, tx'[s] = t, \A v \in Sessions \ {s} : tx'[v] = tx[v],
         t.seen.period = IF "period" \in tx[s].dirty THEN Period(s) ELSE row.period,
         "period" \in tx[s].dirty => AtWork(s),
         t.drafts = tx[s].drafts, t.phase # "renewing",
         t.dirty \in {{}, tx[s].dirty} \/ RowFree(s)
  PROVE  ChainInv'
<1>1. BilledBy(s)' = BilledBy(s)
  BY DEF BilledBy, BilledIn, dbVars
<1>2. row.period \in Int
  BY DEF BillingInv, TypeOK, Rows
<1>3. CASE "period" \in tx[s].dirty
  <2>1. Chain(s)'
    BY <1>1, <1>3 DEF ChainInv, Chain, AtWork, Phase, Period, BilledIn, dbVars
  <2> QED
    BY <2>1, ChainFrame
<1>4. CASE "period" \notin tx[s].dirty
  <2>1. \A q \in Months : ~(row.period <= q /\ q < row.period)
    BY <1>2 DEF Months
  <2>2. Chain(s)'
    BY <1>4, <2>1 DEF Chain, AtWork, Phase, Period, dbVars
  <2> QED
    BY <2>2, ChainFrame
<1> QED
  BY <1>3, <1>4

\* A session that enters the next period has billed the one it leaves.
LEMMA ChainRenew ==
  ASSUME BillingInv, ChainInv, NEW s \in Sessions, Renew(s)
  PROVE  ChainInv'
<1> DEFINE old == tx[s].seen
           new == [period  |-> old.period + 1,
                   plan    |-> IF old.pending = NoPlan THEN old.plan ELSE old.pending,
                   pending |-> NoPlan]
<1>1. Phase(s) = "renewing" /\ Write(s, new, "rolling") /\ UNCHANGED dbVars
  BY DEF Renew
<1>2. tx[s] \in Transactions /\ Period(s) \in Months /\ Due(s) /\ row.period \in Int
  BY <1>1, PeriodType DEF BillingInv, TypeOK, SessionInv, PeriodInv, Rows
<1>3. new \in Rows /\ new.period = Period(s) + 1 /\ new.period # Period(s)
  BY <1>2, BoundsAssumption DEF Transactions, Rows, Due, Period, Months
<1>4. RowFree(s)
  <2>1. {c \in Columns : new[c] # tx[s].seen[c]} # {}
    BY <1>3 DEF Columns, Period
  <2> QED
    BY <1>1, <2>1 DEF Write
<1>5. "rolling" \in Phases
  BY DEF Phases
<1> HIDE DEF new
<1>6. /\ \A v \in Sessions \ {s} : tx'[v] = tx[v]
      /\ tx'[s].phase = "rolling" /\ tx'[s].drafts = tx[s].drafts
      /\ tx'[s].seen.period = Period(s) + 1
  BY <1>1, <1>3, <1>5, WriteType
<1>7. BilledBy(s)' = BilledBy(s)
  BY <1>1, <1>6 DEF BilledBy, BilledIn, dbVars
<1>8. Period(s) \in BilledBy(s) /\ AtWork(s)
  BY <1>1 DEF ChainInv, Chain, AtWork
<1>9. ASSUME row.period # 0, NEW q \in Months
      PROVE  /\ row.period <= q /\ q < Period(s) + 1 => q \in BilledBy(s)
             /\ Period(s) + 1 <= q /\ q < row.period => q \in BilledIn(invoices)
  <2>1. /\ row.period <= q /\ q < Period(s) => q \in BilledBy(s)
        /\ Period(s) <= q /\ q < row.period => q \in BilledIn(invoices)
    BY <1>8, <1>9 DEF ChainInv, Chain
  <2>2. q < Period(s) + 1 => q < Period(s) \/ q = Period(s)
    BY <1>2 DEF Months
  <2>3. Period(s) + 1 <= q => Period(s) <= q
    BY <1>2 DEF Months
  <2> QED
    BY <1>8, <2>1, <2>2, <2>3
<1>10. Chain(s)'
  BY <1>1, <1>6, <1>7, <1>9 DEF Chain, Phase, Period, BilledIn, dbVars
<1> QED
  BY <1>1, <1>4, <1>6, <1>10, ChainFrame

\* What a commit makes the current period: the one the session has written, or
\* the one that was there.
LEMMA CommitPeriod ==
  ASSUME BillingInv, NEW s \in Sessions, Commit(s)
  PROVE  /\ AtWork(s)
         /\ row'.period = IF "period" \in tx[s].dirty THEN Period(s) ELSE row.period
         /\ invoices' = invoices \cup tx[s].drafts
         /\ BilledIn(invoices') = BilledBy(s)
<1>1. Ready(s) /\ row' = Row(s) /\ invoices' = invoices \cup tx[s].drafts
  BY DEF Commit
<1> QED
  BY <1>1 DEF Ready, Metered, AtWork, Row, Overlay, Period, BilledIn, BilledBy

\* No step of a session but its commit changes the subscription.
LEMMA OnlyCommitsWrite ==
  ASSUME [Next]_vars, row' # row
  PROVE  \E s \in Sessions : Commit(s)
<1>1. ASSUME NEW s \in Sessions, NEW k \in Kinds, Open(s, k) PROVE FALSE
  BY <1>1 DEF Open, dbVars
<1>2. ASSUME NEW s \in Sessions, Step(s) PROVE Commit(s)
  BY <1>2 DEF Step, Provision, FindInvoice, InsertInvoice, Renew, LoadMeter, CreateMeter,
              Enforce, Record, Schedule, Reload, BreakDeadlock, dbVars
<1>3. ASSUME NEW s \in Sessions, Fail(s) PROVE FALSE
  BY <1>3 DEF Fail, dbVars
<1>4. ~NextMonth /\ ~UNCHANGED vars
  BY DEF NextMonth, dbVars, vars
<1> QED
  BY <1>1, <1>2, <1>3, <1>4 DEF Next

\* Where the subscription moves on, the session that commits has billed the
\* periods in between; where it moves back, they were billed before.
LEMMA ChainCommit ==
  ASSUME BillingInv, ChainInv, NEW s \in Sessions, Commit(s)
  PROVE  ChainInv'
<1>1. tx'[s] = Closed /\ \A v \in Sessions \ {s} : tx'[v] = tx[v]
  BY CommitType
<1>2. /\ AtWork(s) /\ Chain(s) /\ OneWriter
      /\ row'.period = IF "period" \in tx[s].dirty THEN Period(s) ELSE row.period
      /\ invoices' = invoices \cup tx[s].drafts
      /\ BilledIn(invoices') = BilledBy(s)
  BY CommitPeriod DEF ChainInv
<1>3. OneWriter'
  BY <1>1, <1>2 DEF OneWriter, Closed
<1>4. Chain(s)'
  BY <1>1 DEF Chain, AtWork, Phase, Closed
<1>5. ASSUME NEW v \in Sessions \ {s} PROVE Chain(v)'
  <2>1. tx'[v] = tx[v] /\ Chain(v)
    BY <1>1 DEF ChainInv
  <2>2. BilledIn(invoices) \subseteq BilledIn(invoices') /\ BilledBy(v) \subseteq BilledBy(v)'
    BY <1>2, <2>1 DEF BilledIn, BilledBy
  <2>3. Phase(v)' = "renewing" => Period(v)' \in BilledBy(v)'
    BY <2>1, <2>2 DEF Chain, Phase, Period
  <2>4. ASSUME AtWork(v), row'.period # 0, NEW q \in Months
        PROVE  /\ row'.period <= q /\ q < Period(v) => q \in BilledBy(v)'
               /\ Period(v) <= q /\ q < row'.period => q \in BilledIn(invoices')
    <3>1. tx[v].dirty = {} \/ tx[s].dirty = {}
      BY <1>2 DEF OneWriter
    <3>2. row.period # 0 \/ "period" \in tx[v].dirty
      BY <2>4 DEF BillingInv, SessionInv, PeriodInv, AtWork
    <3>3. row.period # 0
      BY <1>2, <2>4, <3>1, <3>2
    <3>4. /\ row.period <= q /\ q < Period(v) => q \in BilledBy(v)
          /\ Period(v) <= q /\ q < row.period => q \in BilledIn(invoices)
          /\ row.period <= q /\ q < Period(s) => q \in BilledBy(s)
          /\ Period(s) <= q /\ q < row.period => q \in BilledIn(invoices)
      BY <1>2, <2>1, <2>4, <3>3 DEF Chain
    <3>5. q \in Int /\ row.period \in Int
      BY DEF Months, BillingInv, TypeOK, Rows
    <3>6. BilledIn(invoices) \subseteq BilledBy(v)' /\ BilledBy(s) = BilledIn(invoices')
      BY <1>2, <2>2 DEF BilledBy
    <3>7. CASE "period" \in tx[s].dirty
      <4>1. row'.period = Period(s)
        BY <1>2, <3>7
      <4>2. row.period <= q \/ q < row.period
        BY <3>5
      <4> QED
        BY <2>2, <3>4, <3>6, <4>1, <4>2
    <3>8. CASE "period" \notin tx[s].dirty
      BY <1>2, <2>2, <3>4, <3>8
    <3> QED
      BY <3>7, <3>8
  <2> QED
    BY <2>1, <2>3, <2>4 DEF Chain, AtWork, Phase, Period
<1> QED
  BY <1>3, <1>4, <1>5 DEF ChainInv

\* A transaction begins, or reads the subscription again.
LEMMA ChainSnapshot ==
  ASSUME BillingInv, ChainInv, NEW s \in Sessions, NEW loaded \in Transactions,
         UNCHANGED dbVars, tx' = [tx EXCEPT ![s] = Snapshot(s, loaded)],
         loaded.dirty \in {{}, tx[s].dirty}, loaded.drafts = tx[s].drafts,
         "period" \in tx[s].dirty => AtWork(s)
  PROVE  ChainInv'
<1> DEFINE t == Snapshot(s, loaded)
<1>1. tx'[s] = t /\ \A v \in Sessions \ {s} : tx'[v] = tx[v]
  BY DEF BillingInv, TypeOK
<1>2. /\ t.dirty = loaded.dirty /\ t.drafts = tx[s].drafts /\ t.phase # "renewing"
      /\ t.seen = Row(s)
  BY DEF Snapshot, Transactions
<1>3. Row(s).period = IF "period" \in tx[s].dirty THEN Period(s) ELSE row.period
  BY DEF Row, Overlay, Period
<1> HIDE DEF t
<1> QED
  BY <1>1, <1>2, <1>3, ChainLoad

\* A transaction begins with what is committed.
LEMMA ChainOpen ==
  ASSUME BillingInv, ChainInv, NEW s \in Sessions, NEW k \in Kinds, Open(s, k)
  PROVE  ChainInv'
<1> DEFINE new == [Closed EXCEPT !.kind = k, !.born = month]
<1>1. tx' = [tx EXCEPT ![s] = Snapshot(s, new)] /\ UNCHANGED dbVars /\ Phase(s) = "idle"
  BY DEF Open
<1>2. month \in 0..LastMonth
  BY BoundsAssumption DEF BillingInv, TypeOK, Months
<1>3. new \in Transactions /\ new.dirty = {} /\ new.drafts = {}
  BY <1>2, ClosedType DEF Transactions, Closed
<1>4. tx[s].dirty = {} /\ tx[s].drafts = {}
  BY <1>1 DEF BillingInv, SessionInv, PeriodInv, DraftInv
<1> QED
  BY <1>1, <1>3, <1>4, ChainSnapshot

\* A request within the cap, or a plan change, reads the subscription again.
LEMMA ChainReload ==
  ASSUME BillingInv, ChainInv, NEW s \in Sessions, UNCHANGED dbVars, AtWork(s),
         tx' = [tx EXCEPT ![s] = Snapshot(s, [@ EXCEPT !.checked = TRUE])]
  PROVE  ChainInv'
<1> DEFINE loaded == [tx[s] EXCEPT !.checked = TRUE]
<1>1. loaded \in Transactions /\ loaded.dirty = tx[s].dirty /\ loaded.drafts = tx[s].drafts
  BY DEF BillingInv, TypeOK, Transactions
<1>2. tx' = [tx EXCEPT ![s] = Snapshot(s, loaded)]
  BY DEF BillingInv, TypeOK
<1> QED
  BY <1>1, <1>2, ChainSnapshot

\* The first subscription row: there is nothing before it to bill.
LEMMA ChainProvision ==
  ASSUME BillingInv, ChainInv, NEW s \in Sessions, Provision(s)
  PROVE  ChainInv'
<1>1. UNCHANGED dbVars /\ RowFree(s)
  BY DEF Provision
<1>2. CASE row.period # 0
  BY <1>1, <1>2, ChainRollback DEF Provision
<1>3. CASE row.period = 0
  <2>1. tx'[s].phase = "rolling" /\ \A v \in Sessions \ {s} : tx'[v] = tx[v]
    BY <1>3 DEF Provision, BillingInv, TypeOK, Transactions
  <2>2. Chain(s)'
    BY <1>1, <1>3, <2>1 DEF Chain, Phase, dbVars
  <2> QED
    BY <1>1, <2>1, <2>2, ChainFrame
<1> QED
  BY <1>2, <1>3

\* A plan change loads what it does not write from the row.
LEMMA ChainSchedule ==
  ASSUME BillingInv, ChainInv, NEW s \in Sessions, NEW target \in Plans, Schedule(s, target)
  PROVE  ChainInv'
<1> DEFINE new == [tx[s].seen EXCEPT !.pending = target]
<1>1. Phase(s) = "metered" /\ UNCHANGED dbVars /\ AtWork(s)
  BY DEF Schedule, Metered, AtWork
<1>2. tx[s] \in Transactions
  BY DEF BillingInv, TypeOK
<1>3. CASE tx[s].seen.plan = target /\ tx[s].seen.pending = NoPlan
  <2> DEFINE t == [tx[s] EXCEPT !.phase = "committing"]
  <2>1. tx'[s] = t /\ \A v \in Sessions \ {s} : tx'[v] = tx[v]
    BY <1>2, <1>3 DEF Schedule, Become, BillingInv, TypeOK, Transactions
  <2>2. /\ t.seen = tx[s].seen /\ t.dirty = tx[s].dirty /\ t.drafts = tx[s].drafts
        /\ t.phase = "committing"
    BY <1>2 DEF Transactions
  <2> HIDE DEF t
  <2> QED
    BY <1>1, <2>1, <2>2, ChainStay
<1>4. CASE ~(tx[s].seen.plan = target /\ tx[s].seen.pending = NoPlan)
  <2>1. Write(s, new, "committing") /\ "committing" \in Phases
    BY <1>4 DEF Schedule, Phases
  <2>2. new \in Rows /\ new.period = Period(s)
    BY <1>2 DEF Transactions, Rows, Period
  <2> HIDE DEF new
  <2>3. /\ \A v \in Sessions \ {s} : tx'[v] = tx[v]
        /\ tx'[s].phase = "committing" /\ tx'[s].drafts = tx[s].drafts
        /\ "period" \in tx'[s].dirty <=> "period" \in tx[s].dirty
        /\ tx'[s].seen.period = IF "period" \in tx[s].dirty THEN Period(s) ELSE row.period
    BY <1>1, <2>1, <2>2, WriteType
  <2>4. tx'[s].dirty = {} \/ RowFree(s)
    BY <1>2, <2>1 DEF Write, BillingInv, TypeOK, Transactions
  <2> QED
    BY <1>1, <2>3, <2>4, ChainLoad
<1> QED
  BY <1>3, <1>4

\* The ended period of a session is billed already, or it reads the usage.
LEMMA ChainFindInvoice ==
  ASSUME BillingInv, ChainInv, NEW s \in Sessions, FindInvoice(s)
  PROVE  ChainInv'
<1> DEFINE n == IF Meter(s, Period(s)) = NoMeter THEN 0 ELSE Meter(s, Period(s))
           found == [tx[s] EXCEPT !.phase = "renewing"]
           missing == [tx[s] EXCEPT !.phase = "invoicing", !.count = n]
<1>1. tx[s] \in Transactions /\ AtWork(s) /\ UNCHANGED dbVars
  BY DEF BillingInv, TypeOK, FindInvoice, AtWork
<1>2. \A v \in Sessions \ {s} : tx'[v] = tx[v]
  BY DEF FindInvoice, Become, BillingInv, TypeOK
<1>3. CASE Period(s) \in BilledIn(invoices)
  <2>1. tx'[s] = found
    BY <1>1, <1>3 DEF FindInvoice, Become, BillingInv, TypeOK, Transactions
  <2>2. found.seen = tx[s].seen /\ found.dirty = tx[s].dirty /\ found.drafts = tx[s].drafts
    BY <1>1 DEF Transactions
  <2> HIDE DEF found
  <2> QED
    BY <1>1, <1>2, <1>3, <2>1, <2>2, ChainStay
<1>4. CASE Period(s) \notin BilledIn(invoices)
  <2>1. tx' = [tx EXCEPT ![s].phase = "invoicing", ![s].count = n]
    BY <1>4 DEF FindInvoice
  <2>2. tx'[s] = missing
    BY <1>1, <2>1 DEF BillingInv, TypeOK, Transactions
  <2>3. /\ missing.seen = tx[s].seen /\ missing.dirty = tx[s].dirty
        /\ missing.drafts = tx[s].drafts /\ missing.phase = "invoicing"
    BY <1>1 DEF Transactions
  <2> HIDE DEF missing
  <2> QED
    BY <1>1, <1>2, <2>2, <2>3, ChainStay
<1> QED
  BY <1>3, <1>4

\* The invoice a session writes is the one of the period it leaves next.
LEMMA ChainInsertInvoice ==
  ASSUME BillingInv, ChainInv, NEW s \in Sessions, InsertInvoice(s)
  PROVE  ChainInv'
<1> DEFINE t == [tx[s] EXCEPT !.phase = "renewing", !.drafts = @ \cup {Invoice(s)}]
<1>1. tx[s] \in Transactions /\ AtWork(s) /\ UNCHANGED dbVars
  BY DEF BillingInv, TypeOK, InsertInvoice, AtWork
<1>2. CASE Period(s) \in BilledIn(invoices)
  BY <1>1, <1>2, ChainRollback DEF InsertInvoice
<1>3. CASE Period(s) \notin BilledIn(invoices)
  <2>1. tx'[s] = t /\ \A v \in Sessions \ {s} : tx'[v] = tx[v]
    BY <1>1, <1>3 DEF InsertInvoice, BillingInv, TypeOK, Transactions
  <2>2. /\ t.seen = tx[s].seen /\ t.dirty = tx[s].dirty
        /\ t.drafts = tx[s].drafts \cup {Invoice(s)}
    BY <1>1 DEF Transactions
  <2>3. Invoice(s).period = Period(s)
    BY DEF Invoice
  <2>4. Period(s) \in BilledIn(t.drafts)
    BY <2>2, <2>3 DEF BilledIn
  <2> HIDE DEF t
  <2> QED
    BY <1>1, <2>1, <2>2, <2>4, ChainStay
<1> QED
  BY <1>2, <1>3

\* Steps that concern the meters only.
LEMMA ChainMeters ==
  ASSUME BillingInv, ChainInv, NEW s \in Sessions,
         LoadMeter(s) \/ CreateMeter(s) \/ Record(s)
  PROVE  ChainInv'
<1>1. AtWork(s) /\ UNCHANGED dbVars
  BY DEF LoadMeter, CreateMeter, Record, Metered, AtWork
<1>2. CASE Rollback(s)
  BY <1>1, <1>2, ChainRollback
<1>3. CASE ~Rollback(s)
  <2>1. /\ \A v \in Sessions \ {s} : tx'[v] = tx[v]
        /\ tx'[s].seen = tx[s].seen /\ tx'[s].dirty = tx[s].dirty
        /\ tx'[s].drafts = tx[s].drafts
        /\ tx'[s].phase \in {"creating", "metered", "committing"}
    <3>1. tx[s] \in Transactions /\ tx \in [Sessions -> Transactions]
      BY DEF BillingInv, TypeOK
    <3>2. CASE LoadMeter(s)
      BY <3>1, <3>2 DEF LoadMeter, Become, Transactions
    <3>3. CASE CreateMeter(s)
      BY <1>3, <3>1, <3>3 DEF CreateMeter, Transactions
    <3>4. CASE Record(s)
      BY <3>1, <3>4 DEF Record, Transactions
    <3> QED
      BY <3>2, <3>3, <3>4
  <2> QED
    BY <1>1, <2>1, ChainStay
<1> QED
  BY <1>2, <1>3

\* Every step keeps the chain.
LEMMA ChainNext == BillingInv /\ ChainInv /\ [Next]_vars => ChainInv'
<1> SUFFICES ASSUME BillingInv, ChainInv, [Next]_vars PROVE ChainInv'
  OBVIOUS
<1>1. ASSUME NEW s \in Sessions, \E k \in Kinds : Open(s, k) PROVE ChainInv'
  BY <1>1, ChainOpen
<1>2. ASSUME NEW s \in Sessions, Step(s) PROVE ChainInv'
  <2>1. CASE Provision(s) \/ FindInvoice(s) \/ InsertInvoice(s) \/ Renew(s)
    BY <2>1, ChainProvision, ChainFindInvoice, ChainInsertInvoice, ChainRenew
  <2>2. CASE LoadMeter(s) \/ CreateMeter(s) \/ Record(s)
    BY <2>2, ChainMeters
  <2>3. CASE Enforce(s)
    BY <2>3, ChainRollback, ChainReload DEF Enforce, Metered, AtWork
  <2>4. CASE \E p \in Plans : Schedule(s, p)
    BY <2>4, ChainSchedule
  <2>5. CASE Reload(s)
    BY <2>5, ChainReload DEF Reload, AtWork
  <2>6. CASE Commit(s)
    BY <2>6, ChainCommit
  <2>7. CASE BreakDeadlock(s)
    BY <2>7, ChainRollback DEF BreakDeadlock
  <2> QED
    BY <1>2, <2>1, <2>2, <2>3, <2>4, <2>5, <2>6, <2>7 DEF Step
<1>3. ASSUME NEW s \in Sessions, Fail(s) PROVE ChainInv'
  BY <1>3, ChainRollback DEF Fail
<1>4. CASE NextMonth \/ UNCHANGED vars
  BY <1>4 DEF NextMonth, vars, dbVars, ChainInv, OneWriter, Chain, AtWork, BilledBy, Phase, Period
<1> QED
  BY <1>1, <1>2, <1>3, <1>4 DEF Next

\* The periods between what any session holds and the subscription are billed,
\* in every reachable state.
THEOREM ChainCorrect == Spec => []ChainInv
BY ChainInit, ChainNext, BillingInvCorrect, PTL DEF Spec

\* The subscription never leaves a period without an invoice for it, whatever
\* transactions roll it forward, wait for each other, fail or commit stale rows.
THEOREM NoPeriodUnbilledCorrect == Spec => NoPeriodUnbilled
<1> DEFINE Gapless == \A p \in Months :
             row.period # 0 /\ row.period <= p /\ p < row'.period => p \in BilledIn(invoices')
<1>1. BillingInv /\ ChainInv /\ [Next]_vars => [Gapless]_vars
  <2> SUFFICES ASSUME BillingInv, ChainInv, [Next]_vars, NEW p \in Months,
                      row.period # 0, row.period <= p, p < row'.period
               PROVE  p \in BilledIn(invoices')
    OBVIOUS
  <2>1. row' # row
    BY DEF Months, BillingInv, TypeOK, Rows
  <2>2. PICK s \in Sessions : Commit(s)
    BY <2>1, OnlyCommitsWrite
  <2>3. /\ AtWork(s)
        /\ row'.period = IF "period" \in tx[s].dirty THEN Period(s) ELSE row.period
        /\ BilledIn(invoices') = BilledBy(s)
    BY <2>2, CommitPeriod
  <2>4. row'.period = Period(s)
    BY <2>3 DEF Months, BillingInv, TypeOK, Rows
  <2> QED
    BY <2>3, <2>4 DEF ChainInv, Chain
<1> QED
  BY <1>1, BillingInvCorrect, ChainCorrect, PTL DEF Spec, NoPeriodUnbilled

-----------------------------------------------------------------------------
(* The dates transactions go by *)

\* A session began this month or the last one, never works on a month that has
\* not begun, has caught up with its snapshot once it touches the meter, and
\* writes invoices for months that have ended.
TimeOK(s) ==
  /\ Phase(s) # "idle" =>
       tx[s].born <= tx[s].asof /\ tx[s].asof <= month /\ month <= tx[s].born + 1
  /\ Period(s) <= month
  /\ Phase(s) \in {"creating", "metered"}
       \/ (Phase(s) = "committing" /\ tx[s].kind = "generate") => ~Due(s)
  /\ \A d \in tx[s].drafts : d.period < month

TimeInv == row.period <= month /\ \A s \in Sessions : TimeOK(s)

\* No session has begun.
LEMMA TimeInit == Init => TimeInv
BY DEF Init, TimeInv, TimeOK, Closed, NoRow, Phase, Period, Due

\* A step of s concerns its own dates.
LEMMA TimeFrame ==
  ASSUME TimeInv, NEW s \in Sessions, UNCHANGED <<month, row>>,
         \A v \in Sessions \ {s} : tx'[v] = tx[v],
         TimeOK(s)'
  PROVE  TimeInv'
BY DEF TimeInv, TimeOK, Phase, Period, Due

\* A session that forgets everything has no date.
LEMMA TimeRollback ==
  ASSUME BillingInv, TimeInv, NEW s \in Sessions, Rollback(s), UNCHANGED <<month, row>>
  PROVE  TimeInv'
<1>1. tx'[s] = Closed /\ \A v \in Sessions \ {s} : tx'[v] = tx[v]
  BY DEF Rollback, BillingInv, TypeOK
<1>2. 0 <= month
  BY DEF BillingInv, TypeOK, Months
<1>3. TimeOK(s)'
  BY <1>1, <1>2 DEF TimeOK, Phase, Period, Due, Closed, NoRow
<1> QED
  BY <1>1, <1>3, TimeFrame

\* A session at work that keeps its dates and its invoices, and comes to the
\* meter only when its period is the one of its snapshot.
LEMMA TimeStay ==
  ASSUME TimeInv, NEW s \in Sessions, UNCHANGED <<month, row>>, Phase(s) # "idle",
         NEW t, tx'[s] = t, \A v \in Sessions \ {s} : tx'[v] = tx[v],
         t.born = tx[s].born, t.asof = tx[s].asof, t.seen = tx[s].seen,
         t.drafts = tx[s].drafts,
         t.phase \in {"creating", "metered"}
           \/ (t.phase = "committing" /\ t.kind = "generate") => ~Due(s)
  PROVE  TimeInv'
<1>1. TimeOK(s)'
  BY DEF TimeInv, TimeOK, Phase, Period, Due
<1> QED
  BY <1>1, TimeFrame

\* A session that takes another period, not later than the present month, and
\* does not come to the meter with it.
LEMMA TimeLoad ==
  ASSUME TimeInv, NEW s \in Sessions, UNCHANGED <<month, row>>,
         NEW t, tx'[s] = t, \A v \in Sessions \ {s} : tx'[v] = tx[v],
         t.born <= t.asof, t.asof <= month, month <= t.born + 1,
         t.seen.period <= month, t.drafts = tx[s].drafts,
         t.phase \notin {"creating", "metered"}, t.phase = "committing" => t.kind # "generate"
  PROVE  TimeInv'
<1>1. TimeOK(s)'
  BY DEF TimeInv, TimeOK, Phase, Period
<1> QED
  BY <1>1, TimeFrame

\* What a session finds in the subscription is not later than the present month.
LEMMA RowInTime ==
  ASSUME TimeInv, NEW s \in Sessions
  PROVE  Row(s).period <= month
BY DEF TimeInv, TimeOK, Row, Overlay, Period

\* A snapshot goes by the present month.
LEMMA TimeSnapshot ==
  ASSUME BillingInv, TimeInv, NEW s \in Sessions, NEW loaded \in Transactions,
         UNCHANGED <<month, row>>, tx' = [tx EXCEPT ![s] = Snapshot(s, loaded)],
         loaded.drafts = tx[s].drafts, loaded.born <= month, month <= loaded.born + 1
  PROVE  TimeInv'
<1> DEFINE t == Snapshot(s, loaded)
<1>1. tx'[s] = t /\ \A v \in Sessions \ {s} : tx'[v] = tx[v]
  BY DEF BillingInv, TypeOK
<1>2. /\ t.born = loaded.born /\ t.asof = month /\ t.drafts = tx[s].drafts
      /\ t.phase \in {"provisioning", "rolling"} /\ t.seen = Row(s)
  BY DEF Snapshot, Transactions
<1>3. t.seen.period <= month /\ month <= month
  BY <1>2, RowInTime DEF BillingInv, TypeOK, Months
<1> HIDE DEF t
<1> QED
  BY <1>1, <1>2, <1>3, TimeLoad

\* A transaction begins in the present month.
LEMMA TimeOpen ==
  ASSUME BillingInv, TimeInv, NEW s \in Sessions, NEW k \in Kinds, Open(s, k)
  PROVE  TimeInv'
<1> DEFINE new == [Closed EXCEPT !.kind = k, !.born = month]
<1>1. /\ tx' = [tx EXCEPT ![s] = Snapshot(s, new)] /\ UNCHANGED <<month, row>>
      /\ Phase(s) = "idle"
  BY DEF Open, dbVars
<1>2. month \in Int /\ month \in 0..LastMonth
  BY BoundsAssumption DEF BillingInv, TypeOK, Months
<1>3. new \in Transactions /\ new.drafts = {} /\ new.born = month
  BY <1>2, ClosedType DEF Transactions, Closed
<1>4. tx[s].drafts = {}
  BY <1>1 DEF BillingInv, SessionInv, DraftInv
<1>5. new.born <= month /\ month <= new.born + 1
  BY <1>2, <1>3
<1> HIDE DEF new
<1> QED
  BY <1>1, <1>3, <1>4, <1>5, TimeSnapshot

\* A transaction reads the subscription again, perhaps in the month after the
\* one it began in.
LEMMA TimeReload ==
  ASSUME BillingInv, TimeInv, NEW s \in Sessions, UNCHANGED <<month, row>>,
         Phase(s) # "idle",
         tx' = [tx EXCEPT ![s] = Snapshot(s, [@ EXCEPT !.checked = TRUE])]
  PROVE  TimeInv'
<1> DEFINE loaded == [tx[s] EXCEPT !.checked = TRUE]
<1>1. /\ loaded \in Transactions /\ loaded.drafts = tx[s].drafts
      /\ loaded.born = tx[s].born /\ tx[s] \in Transactions
  BY DEF BillingInv, TypeOK, Transactions
<1>2. tx' = [tx EXCEPT ![s] = Snapshot(s, loaded)]
  BY DEF BillingInv, TypeOK
<1>3. tx[s].born <= month /\ month <= tx[s].born + 1
  <2>1. tx[s].born \in Int /\ tx[s].asof \in Int /\ month \in Int
    BY <1>1 DEF Transactions, BillingInv, TypeOK, Months
  <2> QED
    BY <2>1 DEF TimeInv, TimeOK
<1> HIDE DEF loaded
<1> QED
  BY <1>1, <1>2, <1>3, TimeSnapshot

\* The first subscription row is for the present month.
LEMMA TimeProvision ==
  ASSUME BillingInv, TimeInv, NEW s \in Sessions, Provision(s)
  PROVE  TimeInv'
<1> DEFINE new == [NoRow EXCEPT !.period = month]
           t == [tx[s] EXCEPT !.phase = "rolling", !.dirty = Columns, !.seen = new]
<1>1. Phase(s) = "provisioning" /\ UNCHANGED <<month, row>>
  BY DEF Provision, dbVars
<1>2. CASE row.period # 0
  BY <1>1, <1>2, TimeRollback DEF Provision
<1>3. CASE row.period = 0
  <2>1. tx'[s] = t /\ \A v \in Sessions \ {s} : tx'[v] = tx[v]
    BY <1>3 DEF Provision, BillingInv, TypeOK, Transactions
  <2>2. /\ t.phase = "rolling" /\ t.seen = new /\ t.drafts = tx[s].drafts
        /\ t.born = tx[s].born /\ t.asof = tx[s].asof
    BY DEF BillingInv, TypeOK, Transactions
  <2>3. new.period = month
    BY DEF NoRow
  <2>4. /\ t.born <= t.asof /\ t.asof <= month /\ month <= t.born + 1
        /\ t.seen.period <= month
    <3>1. tx[s].born <= tx[s].asof /\ tx[s].asof <= month /\ month <= tx[s].born + 1
      BY <1>1 DEF TimeInv, TimeOK
    <3>2. month <= month
      BY DEF BillingInv, TypeOK, Months
    <3> HIDE DEF new, t
    <3> QED
      BY <2>2, <2>3, <3>1, <3>2
  <2> HIDE DEF t
  <2> QED
    BY <1>1, <2>1, <2>2, <2>4, TimeLoad
<1> QED
  BY <1>2, <1>3


\* The ended period of a session has an invoice, or its usage is read.
LEMMA TimeFindInvoice ==
  ASSUME BillingInv, TimeInv, NEW s \in Sessions, FindInvoice(s)
  PROVE  TimeInv'
<1>1. UNCHANGED <<month, row>> /\ Phase(s) # "idle"
  BY DEF FindInvoice, dbVars
<1>2. /\ \A v \in Sessions \ {s} : tx'[v] = tx[v]
      /\ tx'[s].born = tx[s].born /\ tx'[s].asof = tx[s].asof /\ tx'[s].seen = tx[s].seen
      /\ tx'[s].drafts = tx[s].drafts /\ tx'[s].phase \in {"renewing", "invoicing"}
  <2>1. tx[s] \in Transactions /\ tx \in [Sessions -> Transactions]
    BY DEF BillingInv, TypeOK
  <2>2. CASE Period(s) \in BilledIn(invoices)
    BY <2>1, <2>2 DEF FindInvoice, Become, Transactions
  <2>3. CASE Period(s) \notin BilledIn(invoices)
    <3> DEFINE n == IF Meter(s, Period(s)) = NoMeter THEN 0 ELSE Meter(s, Period(s))
    <3>1. tx' = [tx EXCEPT ![s].phase = "invoicing", ![s].count = n]
      BY <2>3 DEF FindInvoice
    <3> HIDE DEF n
    <3> QED
      BY <2>1, <3>1 DEF Transactions
  <2> QED
    BY <2>2, <2>3
<1> QED
  BY <1>1, <1>2, TimeStay

\* Only a month that has ended is invoiced.
LEMMA TimeInsertInvoice ==
  ASSUME BillingInv, TimeInv, NEW s \in Sessions, InsertInvoice(s)
  PROVE  TimeInv'
<1> DEFINE t == [tx[s] EXCEPT !.phase = "renewing", !.drafts = @ \cup {Invoice(s)}]
<1>1. Phase(s) = "invoicing" /\ UNCHANGED <<month, row>>
  BY DEF InsertInvoice, dbVars
<1>2. CASE Period(s) \in BilledIn(invoices)
  BY <1>1, <1>2, TimeRollback DEF InsertInvoice
<1>3. CASE Period(s) \notin BilledIn(invoices)
  <2>1. tx[s] \in Transactions /\ Due(s) /\ Period(s) \in Months /\ month \in Months
    BY <1>1, PeriodType DEF BillingInv, TypeOK, SessionInv, PeriodInv
  <2>2. tx'[s] = t /\ \A v \in Sessions \ {s} : tx'[v] = tx[v]
    BY <1>3, <2>1 DEF InsertInvoice, BillingInv, TypeOK, Transactions
  <2>3. /\ t.phase = "renewing" /\ t.seen = tx[s].seen /\ t.born = tx[s].born
        /\ t.asof = tx[s].asof /\ t.drafts = tx[s].drafts \cup {Invoice(s)}
    BY <2>1 DEF Transactions
  <2>4. Invoice(s).period = Period(s)
    BY DEF Invoice
  <2>5. Period(s) < month
    <3>1. tx[s].asof \in Int /\ tx[s].asof <= month
      BY <1>1, <2>1 DEF Transactions, TimeInv, TimeOK
    <3> QED
      BY <2>1, <3>1 DEF Due, Months
  <2> HIDE DEF t
  <2>6. \A d \in t.drafts : d.period < month
    BY <2>3, <2>4, <2>5 DEF TimeInv, TimeOK
  <2>7. TimeOK(s)'
    BY <1>1, <2>2, <2>3, <2>6 DEF TimeInv, TimeOK, Phase, Period, Due
  <2> QED
    BY <1>1, <2>2, <2>7, TimeFrame
<1> QED
  BY <1>2, <1>3

\* The period after one that has ended has begun.
LEMMA TimeRenew ==
  ASSUME BillingInv, TimeInv, NEW s \in Sessions, Renew(s)
  PROVE  TimeInv'
<1> DEFINE old == tx[s].seen
           new == [period  |-> old.period + 1,
                   plan    |-> IF old.pending = NoPlan THEN old.plan ELSE old.pending,
                   pending |-> NoPlan]
<1>1. Phase(s) = "renewing" /\ Write(s, new, "rolling") /\ UNCHANGED <<month, row>>
  BY DEF Renew, dbVars
<1>2. tx[s] \in Transactions /\ Period(s) \in Months /\ Due(s) /\ month \in Int
  BY <1>1, PeriodType DEF BillingInv, TypeOK, SessionInv, PeriodInv, Months
<1>3. new \in Rows /\ new.period = Period(s) + 1 /\ new.period # Period(s)
  BY <1>2, BoundsAssumption DEF Transactions, Rows, Due, Period, Months
<1>4. "rolling" \in Phases
  BY DEF Phases
<1> HIDE DEF new
<1>5. /\ \A v \in Sessions \ {s} : tx'[v] = tx[v]
      /\ tx'[s].phase = "rolling" /\ tx'[s].drafts = tx[s].drafts
      /\ tx'[s].born = tx[s].born /\ tx'[s].asof = tx[s].asof
      /\ tx'[s].seen.period = Period(s) + 1
  BY <1>1, <1>3, <1>4, WriteType
<1>6. /\ tx[s].born <= tx[s].asof /\ tx[s].asof <= month /\ month <= tx[s].born + 1
  BY <1>1 DEF TimeInv, TimeOK
<1>7. Period(s) + 1 <= month
  <2>1. tx[s].asof \in Int /\ Period(s) \in Int
    BY <1>2 DEF Transactions, Months
  <2> QED
    BY <1>2, <1>6, <2>1 DEF Due
<1> QED
  BY <1>1, <1>5, <1>6, <1>7, TimeLoad

\* Steps that concern the meters only: the session is up to date.
LEMMA TimeMeters ==
  ASSUME BillingInv, TimeInv, NEW s \in Sessions,
         LoadMeter(s) \/ CreateMeter(s) \/ Record(s)
  PROVE  TimeInv'
<1>1. Phase(s) # "idle" /\ UNCHANGED <<month, row>>
  BY DEF LoadMeter, CreateMeter, Record, Metered, dbVars
<1>2. CASE Rollback(s)
  BY <1>1, <1>2, TimeRollback
<1>3. CASE ~Rollback(s)
  <2>1. /\ \A v \in Sessions \ {s} : tx'[v] = tx[v]
        /\ tx'[s].born = tx[s].born /\ tx'[s].asof = tx[s].asof
        /\ tx'[s].seen = tx[s].seen /\ tx'[s].drafts = tx[s].drafts
    <3>1. tx[s] \in Transactions /\ tx \in [Sessions -> Transactions]
      BY DEF BillingInv, TypeOK
    <3>2. CASE LoadMeter(s)
      BY <3>1, <3>2 DEF LoadMeter, Become, Transactions
    <3>3. CASE CreateMeter(s)
      BY <1>3, <3>1, <3>3 DEF CreateMeter, Transactions
    <3>4. CASE Record(s)
      BY <3>1, <3>4 DEF Record, Transactions
    <3> QED
      BY <3>2, <3>3, <3>4
  <2>2. ~Due(s)
    BY DEF LoadMeter, CreateMeter, Record, Metered, TimeInv, TimeOK
  <2> QED
    BY <1>1, <2>1, <2>2, TimeStay
<1> QED
  BY <1>2, <1>3

\* A plan change keeps its dates.
LEMMA TimeSchedule ==
  ASSUME BillingInv, TimeInv, NEW s \in Sessions, NEW target \in Plans, Schedule(s, target)
  PROVE  TimeInv'
<1> DEFINE new == [tx[s].seen EXCEPT !.pending = target]
<1>1. /\ Phase(s) = "metered" /\ tx[s].kind = "change" /\ UNCHANGED <<month, row>>
      /\ tx[s] \in Transactions
  BY DEF Schedule, Metered, dbVars, BillingInv, TypeOK
<1>2. CASE tx[s].seen.plan = target /\ tx[s].seen.pending = NoPlan
  <2> DEFINE t == [tx[s] EXCEPT !.phase = "committing"]
  <2>1. tx'[s] = t /\ \A v \in Sessions \ {s} : tx'[v] = tx[v]
    BY <1>1, <1>2 DEF Schedule, Become, BillingInv, TypeOK, Transactions
  <2>2. /\ t.seen = tx[s].seen /\ t.born = tx[s].born /\ t.asof = tx[s].asof
        /\ t.drafts = tx[s].drafts /\ t.phase = "committing" /\ t.kind = "change"
    BY <1>1 DEF Transactions
  <2> HIDE DEF t
  <2> QED
    BY <1>1, <2>1, <2>2, TimeStay
<1>3. CASE ~(tx[s].seen.plan = target /\ tx[s].seen.pending = NoPlan)
  <2>1. Write(s, new, "committing") /\ "committing" \in Phases
    BY <1>3 DEF Schedule, Phases
  <2>2. new \in Rows /\ new.period = Period(s)
    BY <1>1 DEF Transactions, Rows, Period
  <2> HIDE DEF new
  <2>3. /\ \A v \in Sessions \ {s} : tx'[v] = tx[v]
        /\ tx'[s].phase = "committing" /\ tx'[s].kind = "change"
        /\ tx'[s].drafts = tx[s].drafts
        /\ tx'[s].born = tx[s].born /\ tx'[s].asof = tx[s].asof
        /\ tx'[s].seen.period = Period(s) \/ tx'[s].seen.period = row.period
    BY <1>1, <2>1, <2>2, WriteType
  <2>4. /\ Period(s) <= month /\ row.period <= month
        /\ tx[s].born <= tx[s].asof /\ tx[s].asof <= month /\ month <= tx[s].born + 1
    BY <1>1 DEF TimeInv, TimeOK
  <2> QED
    BY <1>1, <2>3, <2>4, TimeLoad
<1> QED
  BY <1>2, <1>3

\* What is committed is not later than the present month.
LEMMA TimeCommit ==
  ASSUME BillingInv, TimeInv, NEW s \in Sessions, Commit(s)
  PROVE  TimeInv'
<1>1. tx'[s] = Closed /\ \A v \in Sessions \ {s} : tx'[v] = tx[v]
  BY CommitType
<1>2. row' = Row(s) /\ month' = month
  BY DEF Commit
<1>3. row'.period <= month
  BY <1>2, RowInTime
<1>4. TimeOK(s)'
  <2>1. 0 <= month
    BY DEF BillingInv, TypeOK, Months
  <2> QED
    BY <1>1, <1>2, <2>1 DEF TimeOK, Phase, Period, Due, Closed, NoRow
<1>5. \A v \in Sessions \ {s} : TimeOK(v)'
  BY <1>1, <1>2 DEF TimeInv, TimeOK, Phase, Period, Due
<1> QED
  BY <1>2, <1>3, <1>4, <1>5 DEF TimeInv

\* A month begins only when every transaction of the month before last is over.
LEMMA TimeNextMonth ==
  ASSUME BillingInv, TimeInv, NextMonth
  PROVE  TimeInv'
<1>1. /\ month' = month + 1 /\ tx' = tx /\ row' = row
      /\ \A s \in Sessions : Phase(s) # "idle" => tx[s].born = month
  BY DEF NextMonth, dbVars
<1>2. month \in Int /\ row.period \in Int
  BY DEF BillingInv, TypeOK, Months, Rows
<1>3. ASSUME NEW s \in Sessions PROVE TimeOK(s)'
  <2>1. /\ Period(s) \in Int /\ tx[s].asof \in Int
        /\ \A d \in tx[s].drafts : d.period \in Int
    BY DEF BillingInv, TypeOK, Transactions, Rows, Invoices, Months, Period
  <2>2. TimeOK(s)
    BY DEF TimeInv
  <2> QED
    BY <1>1, <1>2, <2>1, <2>2 DEF TimeOK, Phase, Period, Due
<1>4. row'.period <= month'
  BY <1>1, <1>2 DEF TimeInv
<1> QED
  BY <1>3, <1>4 DEF TimeInv

\* Every step keeps the dates in order.
LEMMA TimeNext == BillingInv /\ TimeInv /\ [Next]_vars => TimeInv'
<1> SUFFICES ASSUME BillingInv, TimeInv, [Next]_vars PROVE TimeInv'
  OBVIOUS
<1>1. ASSUME NEW s \in Sessions, \E k \in Kinds : Open(s, k) PROVE TimeInv'
  BY <1>1, TimeOpen
<1>2. ASSUME NEW s \in Sessions, Step(s) PROVE TimeInv'
  <2>1. CASE Provision(s) \/ FindInvoice(s) \/ InsertInvoice(s) \/ Renew(s)
    BY <2>1, TimeProvision, TimeFindInvoice, TimeInsertInvoice, TimeRenew
  <2>2. CASE LoadMeter(s) \/ CreateMeter(s) \/ Record(s)
    BY <2>2, TimeMeters
  <2>3. CASE Enforce(s)
    BY <2>3, TimeRollback, TimeReload DEF Enforce, Metered, dbVars
  <2>4. CASE \E p \in Plans : Schedule(s, p)
    BY <2>4, TimeSchedule
  <2>5. CASE Reload(s)
    BY <2>5, TimeReload DEF Reload, dbVars
  <2>6. CASE Commit(s)
    BY <2>6, TimeCommit
  <2>7. CASE BreakDeadlock(s)
    BY <2>7, TimeRollback DEF BreakDeadlock, dbVars
  <2> QED
    BY <1>2, <2>1, <2>2, <2>3, <2>4, <2>5, <2>6, <2>7 DEF Step
<1>3. ASSUME NEW s \in Sessions, Fail(s) PROVE TimeInv'
  BY <1>3, TimeRollback DEF Fail, dbVars
<1>4. CASE NextMonth
  BY <1>4, TimeNextMonth
<1>5. CASE UNCHANGED vars
  BY <1>5 DEF vars, TimeInv, TimeOK, Phase, Period, Due
<1> QED
  BY <1>1, <1>2, <1>3, <1>4, <1>5 DEF Next

\* No transaction works on a month that has not begun, or invoices one that has
\* not ended, in any reachable state.
THEOREM TimeCorrect == Spec => []TimeInv
BY TimeInit, TimeNext, BillingInvCorrect, PTL DEF Spec


-----------------------------------------------------------------------------
(* Billing implements the ledger *)

\* The invoices a commit publishes are for months that have ended, one each,
\* and for no more than was accepted.
LEMMA CommitBills ==
  ASSUME BillingInv, TimeInv, NEW s \in Sessions, Commit(s)
  PROVE  Ledger!Bill
<1>1. invoices' = invoices \cup tx[s].drafts /\ DraftInv(s) /\ TimeOK(s)
  BY DEF Commit, BillingInv, SessionInv, TimeInv
<1>2. ASSUME NEW i \in invoices' \ invoices
      PROVE  /\ i.period < month /\ i.count <= accepted[i.period]
             /\ \A j \in invoices' \ {i} : j.period # i.period
  <2>1. i \in tx[s].drafts
    BY <1>1
  <2> QED
    BY <1>1, <2>1 DEF DraftInv, TimeOK
<1> QED
  BY <1>1, <1>2 DEF Ledger!Bill

\* A commit moves the subscription past billed months only, up to the present one.
LEMMA CommitMoves ==
  ASSUME BillingInv, ChainInv, TimeInv, NEW s \in Sessions, Commit(s)
  PROVE  Ledger!Move
<1>1. row' = Row(s) /\ Row(s) \in Rows /\ Row(s).period # 0 /\ Row(s).period <= month
  BY CommitBounds, RowInTime DEF Commit
<1>2. row'.period \in 1..month
  BY <1>1 DEF Rows, BillingInv, TypeOK, Months
<1>3. ASSUME NEW p \in Months, row.period # 0, row.period <= p, p < row'.period
      PROVE  p \in Ledger!Billed(invoices')
  <2>1. /\ AtWork(s)
        /\ row'.period = IF "period" \in tx[s].dirty THEN Period(s) ELSE row.period
        /\ BilledIn(invoices') = BilledBy(s)
    BY CommitPeriod
  <2>2. row'.period = Period(s)
    BY <1>3, <2>1 DEF Months, BillingInv, TypeOK, Rows
  <2>3. p \in BilledIn(invoices')
    BY <1>3, <2>1, <2>2 DEF ChainInv, Chain
  <2> QED
    BY <2>3 DEF BilledIn, Ledger!Billed
<1> QED
  BY <1>2, <1>3 DEF Ledger!Move, Ledger!Months, Months

\* A commit accepts one generation at most, in this month or the last one.
LEMMA CommitAccepts ==
  ASSUME BillingInv, TimeInv, NEW s \in Sessions, Commit(s)
  PROVE  Ledger!Accept
<1>1. /\ Ready(s)
      /\ accepted' = IF tx[s].kind = "generate"
                     THEN [accepted EXCEPT ![Period(s)] = @ + 1] ELSE accepted
  BY DEF Commit
<1>2. CASE tx[s].kind = "generate"
  <2>1. Phase(s) = "committing"
    BY <1>1, <1>2 DEF Ready, Metered
  <2>2. Period(s) \in Months /\ tx[s] \in Transactions /\ month \in Int
    BY <2>1, PeriodType DEF BillingInv, TypeOK, Months
  <2>3. /\ ~Due(s) /\ Period(s) <= month
        /\ tx[s].born <= tx[s].asof /\ month <= tx[s].born + 1
    BY <1>2, <2>1 DEF TimeInv, TimeOK
  <2>4. tx[s].born \in Int /\ tx[s].asof \in Int /\ Period(s) \in Int
    BY <2>2 DEF Transactions, Months
  <2>5. Period(s) \in {month - 1, month}
    BY <2>2, <2>3, <2>4 DEF Due
  <2>6. accepted' = [accepted EXCEPT ![Period(s)] = @ + 1]
    BY <1>1, <1>2
  <2> QED
    BY <2>2, <2>5, <2>6 DEF Ledger!Accept, Ledger!Months, Months
<1>3. CASE tx[s].kind # "generate"
  BY <1>1, <1>3 DEF Ledger!Accept
<1> QED
  BY <1>2, <1>3

\* Every step of a session is a transaction of the ledger or changes nothing in it.
LEMMA LedgerNext ==
  BillingInv /\ ChainInv /\ TimeInv /\ [Next]_vars
    => [Ledger!Next]_<<month, row.period, invoices, accepted>>
<1> SUFFICES ASSUME BillingInv, ChainInv, TimeInv, [Next]_vars
             PROVE  [Ledger!Next]_<<month, row.period, invoices, accepted>>
  OBVIOUS
<1> DEFINE same == UNCHANGED <<month, row.period, invoices, accepted>>
<1>1. ASSUME NEW s \in Sessions, NEW k \in Kinds, Open(s, k) PROVE same
  BY <1>1 DEF Open, dbVars
<1>2. ASSUME NEW s \in Sessions, Commit(s) PROVE Ledger!Transaction
  <2>1. UNCHANGED month
    BY <1>2 DEF Commit
  <2> QED
    BY <1>2, <2>1, CommitBills, CommitMoves, CommitAccepts DEF Ledger!Transaction
<1>3. ASSUME NEW s \in Sessions, Step(s) PROVE same \/ Commit(s)
  BY <1>3 DEF Step, Provision, FindInvoice, InsertInvoice, Renew, LoadMeter, CreateMeter,
              Enforce, Record, Schedule, Reload, BreakDeadlock, dbVars
<1>4. ASSUME NEW s \in Sessions, Fail(s) PROVE same
  BY <1>4 DEF Fail, dbVars
<1>5. CASE NextMonth
  BY <1>5 DEF NextMonth, Ledger!Next, Ledger!NextMonth, dbVars
<1>6. CASE UNCHANGED vars
  BY <1>6 DEF vars
<1> QED
  BY <1>1, <1>2, <1>3, <1>4, <1>5, <1>6 DEF Next, Ledger!Next

\* Transactions that overlap, wait, fail and write stale rows amount to whole
\* ones on the ledger, one at a time.
THEOREM LedgerCorrect == Spec => KeepsLedger
<1>1. Init => Ledger!Init
  BY DEF Init, NoRow, Ledger!Init, Ledger!Months, Months
<1> QED
  BY <1>1, LedgerNext, BillingInvCorrect, ChainCorrect, TimeCorrect, PTL
     DEF Spec, KeepsLedger, Ledger!Spec


=============================================================================
