---------------------------- MODULE BillingState ----------------------------
(***************************************************************************)
(* The subscriptions of one game server (services/billing.py,              *)
(* orchestrator/resources.py): their rows, the pass that expires them and  *)
(* the check that guards a start.  Database transactions are two steps, the *)
(* reads and the commit, because they interleave; RowLocks tells PostgreSQL,*)
(* where SELECT ... FOR UPDATE locks rows, from SQLite, where it does not. *)
(***************************************************************************)
EXTENDS Naturals, Sequences, FiniteSets

CONSTANTS
    Orders,      \* ids of Razorpay orders, one BillingTransaction each
    Plans,       \* ids of billing plans
    PaddleIds,   \* subscription ids of the provider Paddle
    Duration,    \* BillingPlan.duration_days
    Trial,       \* length of the free trial
    Grace,       \* settings.subscription_grace_period_days
    MaxDay,      \* bound on the clock
    RowLocks,    \* the database locks the rows of SELECT ... FOR UPDATE
    Faults,      \* what may go wrong around the handlers
    None         \* no such id, no such set

FaultKinds == { "db_error",    \* a commit raises and is rolled back
                "rpc_error" }  \* stopping the server raises

ASSUME BillingAssumption ==
    /\ None \notin Orders \cup PaddleIds \cup Plans
    /\ Duration \in Nat \ {0}
    /\ Trial \in Nat \ {0}
    /\ Grace \in Nat
    /\ MaxDay \in Nat
    /\ RowLocks \in BOOLEAN
    /\ Faults \subseteq FaultKinds

Handlers == { "verify", "webhook" }
EventKinds == { "created", "updated", "canceled", "completed" }
Events == EventKinds \X PaddleIds

SubStatus == { "active", "grace_period", "suspended", "cancelled" }
Subscription == [status : SubStatus, expires : Nat,
                 pid : PaddleIds \cup {None},      \* provider_subscription_id
                 order : Orders \cup {None}]       \* whose transaction names the row
TxStatus == { "none", "pending", "paid" }

VARIABLES
    now,        \* the day
    subs,       \* subscription rows, in the order of their created_at
    tx,         \* BillingTransaction.status
    plan,       \* target_plan_id of the transaction, or of the request before its insert
    captured,   \* orders whose payment Razorpay has captured
    acked,      \* orders whose webhook was answered with 200
    work,       \* rows an activation has read and will cancel
    sweep,      \* rows the expiration pass has read: [moved, lapsed]
    stopped,    \* the expiration pass has called stop_server
    starting,   \* a start has passed the subscription check
    running,    \* the game server process
    sent,       \* Paddle events the provider has sent
    inhand,     \* Paddle event being handled and its row: [event, row]
    processed   \* rows of ProcessedWebhookEvent

clock    == <<now>>
payments == <<tx, plan, captured, acked, work>>
expiry   == <<sweep, stopped>>
game     == <<starting, running>>
paddle   == <<sent, inhand, processed>>
bvars == <<clock, subs, payments, expiry, game, paddle>>

Rows == DOMAIN subs
SetStatus(S, status) ==
    [i \in Rows |-> IF i \in S THEN [subs[i] EXCEPT !.status = status] ELSE subs[i]]
NewRow(order, pid, days) ==
    [status |-> "active", expires |-> now + days, pid |-> pid, order |-> order]

\* The rows an activation cancels.
LiveRows == { i \in Rows : subs[i].status \in {"active", "grace_period"} }

\* active_subscription_for_server: live by status and by date.
Entitled ==
    \E i \in Rows : \/ subs[i].status = "active" /\ subs[i].expires > now
                    \/ subs[i].status = "grace_period" /\ subs[i].expires + Grace > now

\* ensure_active_subscription_for_start: no suspended row, and a live one.
StartAllowed == Entitled /\ \A i \in Rows : subs[i].status # "suspended"

\* A start, by its owner or by provisioning, checks first and runs the process
\* after the node, the port and the files are prepared.
StartCheck ==
    /\ ~starting /\ ~running
    /\ StartAllowed
    /\ starting' = TRUE
    /\ UNCHANGED <<clock, subs, payments, expiry, running, paddle>>
StartRun ==
    /\ starting
    /\ starting' = FALSE
    /\ running' = TRUE
    /\ UNCHANGED <<clock, subs, payments, expiry, paddle>>
UserStop ==
    /\ running
    /\ running' = FALSE
    /\ UNCHANGED <<clock, subs, payments, expiry, starting, paddle>>

Tick ==
    /\ now < MaxDay
    /\ now' = now + 1
    /\ UNCHANGED <<subs, payments, expiry, game, paddle>>

-----------------------------------------------------------------------------
\* process_subscription_expirations.

\* Mutant: the grace period is left out of the second query.
Lapsed_NoGrace == { i \in Rows : subs[i].status = "grace_period" /\ subs[i].expires <= now }

\* Rows past their date; the second query does not see what the first moved.
Moved == { i \in Rows : subs[i].status = "active" /\ subs[i].expires <= now }
Lapsed == { i \in Rows : subs[i].status = "grace_period" /\ subs[i].expires + Grace <= now }

ExpireLoad ==
    /\ sweep = None
    /\ Moved \cup Lapsed # {}
    /\ sweep' = [moved |-> Moved, lapsed |-> Lapsed]
    /\ stopped' = (Lapsed = {})
    /\ UNCHANGED <<clock, subs, payments, game, paddle>>

\* The server of a lapsed row is stopped; an error is logged.
ExpireStop ==
    /\ sweep # None /\ ~stopped
    /\ stopped' = TRUE
    /\ \/ running' = FALSE
       \/ "rpc_error" \in Faults /\ UNCHANGED running
    /\ UNCHANGED <<clock, subs, payments, sweep, starting, paddle>>

\* One commit for all rows; the loop rolls back and goes on after an error.
ExpireCommit ==
    /\ sweep # None /\ stopped
    /\ \/ subs' = [i \in Rows |-> IF i \in sweep.moved
                                  THEN [subs[i] EXCEPT !.status = "grace_period"]
                                  ELSE IF i \in sweep.lapsed
                                  THEN [subs[i] EXCEPT !.status = "suspended"]
                                  ELSE subs[i]]
       \/ "db_error" \in Faults /\ UNCHANGED subs
    /\ sweep' = None
    /\ stopped' = FALSE
    /\ UNCHANGED <<clock, payments, game, paddle>>

\* Rows locked by the pass.
Locked == IF RowLocks /\ sweep # None THEN sweep.moved \cup sweep.lapsed ELSE {}

Expire == ExpireLoad \/ ExpireStop \/ ExpireCommit

\* Rows, orders and events keep their types: no handler writes a status that
\* the enumerations of schema.py do not have, or an event nobody sent.
BillingTypeOK ==
    /\ now \in 0 .. MaxDay
    /\ subs \in Seq(Subscription)
    /\ tx \in [Orders -> TxStatus]
    /\ plan \in [Orders -> Plans \cup {None}]
    /\ captured \in SUBSET Orders
    /\ acked \in SUBSET Orders
    /\ work \in [Handlers \X Orders -> {None} \cup SUBSET Nat]
    /\ sweep \in {None} \cup [moved : SUBSET Nat, lapsed : SUBSET Nat]
    /\ stopped \in BOOLEAN /\ starting \in BOOLEAN /\ running \in BOOLEAN
    /\ sent \in SUBSET Events
    /\ inhand \in {None} \cup [event : sent, row : Nat]
    /\ processed \in SUBSET sent
=============================================================================
