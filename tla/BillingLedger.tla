----------------------------- MODULE BillingLedger -----------------------------
(***************************************************************************)
(* What the billing of an organization promises, with no session, lock or  *)
(* stale row in sight: each transaction happens at once, billing months    *)
(* that have ended before it leaves them, and an invoice that was made is  *)
(* never changed or taken back.                                            *)
(***************************************************************************)
EXTENDS Integers

CONSTANT LastMonth

VARIABLES month,     \* the present
          period,    \* the month the subscription is in, 0 before there is one
          invoices,  \* a period and a count of generations each
          accepted   \* generations accepted in each month

Months == 1..LastMonth
Billed(set) == {i.period : i \in set}

Init == /\ month = 1
        /\ period = 0
        /\ invoices = {}
        /\ accepted = [p \in Months |-> 0]

\* Months that have ended are invoiced once, for no more than they had.
Bill ==
  /\ invoices \subseteq invoices'
  /\ \A i \in invoices' \ invoices :
       /\ i.period < month /\ i.count <= accepted[i.period]
       /\ \A j \in invoices' \ {i} : j.period # i.period

\* The subscription never skips a month that is not invoiced; a transaction that
\* was slow may put it back.
Move ==
  /\ period' \in 1..month
  /\ \A p \in Months : period # 0 /\ period <= p /\ p < period' => p \in Billed(invoices')

\* A generation is accepted in the present month or, by a transaction that began
\* before it, in the last one.
Accept ==
  \/ UNCHANGED accepted
  \/ \E p \in Months \cap {month - 1, month} : accepted' = [accepted EXCEPT ![p] = @ + 1]

Transaction == Bill /\ Move /\ Accept /\ UNCHANGED month

NextMonth == month' = month + 1 /\ UNCHANGED <<period, invoices, accepted>>

Next == Transaction \/ NextMonth

Spec == Init /\ [][Next]_<<month, period, invoices, accepted>>
=============================================================================
