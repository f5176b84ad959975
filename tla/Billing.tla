------------------------------ MODULE Billing ------------------------------
(***************************************************************************)
(* How payments become subscriptions of a game server: Razorpay orders,    *)
(* which the client's /verify call and Razorpay's webhook race to fulfil,  *)
(* and Paddle events, delivered at least once and in any order             *)
(* (services/billing.py, api/billing.py).                                  *)
(***************************************************************************)
EXTENDS BillingState

\* A server may begin with the free trial of create_server.
Init ==
    /\ now = 0
    /\ subs \in { <<>>, << [status |-> "active", expires |-> Trial, pid |-> None,
                            order |-> None] >> }
    /\ tx = [o \in Orders |-> "none"]
    /\ plan = [o \in Orders |-> None]
    /\ captured = {} /\ acked = {}
    /\ work = [w \in Handlers \X Orders |-> None]
    /\ sweep = None /\ stopped = FALSE
    /\ starting = FALSE /\ running = FALSE
    /\ sent = {} /\ inhand = None /\ processed = {}

-----------------------------------------------------------------------------
\* Razorpay.

\* create_upgrade_order returns a pending order of the same plan, if it sees one;
\* else it has Razorpay create an order, and inserts the transaction after that.
CheckOrder(o, p) ==
    /\ plan[o] = None
    /\ ~ \E q \in Orders : tx[q] = "pending" /\ plan[q] = p
    /\ plan' = [plan EXCEPT ![o] = p]
    /\ UNCHANGED <<clock, subs, tx, captured, acked, work, expiry, game, paddle>>
InsertOrder(o) ==
    /\ tx[o] = "none" /\ plan[o] # None
    /\ tx' = [tx EXCEPT ![o] = "pending"]
    /\ UNCHANGED <<clock, subs, plan, captured, acked, work, expiry, game, paddle>>

\* The customer pays.
Capture(o) ==
    /\ tx[o] = "pending" /\ o \notin captured
    /\ captured' = captured \cup {o}
    /\ UNCHANGED <<clock, subs, tx, plan, acked, work, expiry, game, paddle>>

\* Mutant: the webhook selects the order without locking its row.
Load_Unlocked(h, o) ==
    /\ o \in captured /\ work[<<h, o>>] = None
    /\ tx[o] = "pending"
    /\ work' = [work EXCEPT ![<<h, o>>] = LiveRows]
    /\ UNCHANGED <<clock, subs, tx, plan, captured, acked, expiry, game, paddle>>

\* verify_upgrade_payment or fulfill_webhook_payment selects the order for
\* update, and _activate_subscription the live subscriptions without locking.
Load(h, o) ==
    /\ o \in captured /\ work[<<h, o>>] = None
    /\ RowLocks => \A g \in Handlers : work[<<g, o>>] = None
    /\ tx[o] = "pending"
    /\ work' = [work EXCEPT ![<<h, o>>] = LiveRows]
    /\ UNCHANGED <<clock, subs, tx, plan, captured, acked, expiry, game, paddle>>

\* A handler that finds the order paid changes nothing; the webhook answers 200.
WebhookSkip(o) ==
    /\ o \in captured \ acked /\ tx[o] = "paid"
    /\ acked' = acked \cup {o}
    /\ UNCHANGED <<clock, subs, tx, plan, captured, work, expiry, game, paddle>>

\* _activate_subscription's commit: the rows it read are cancelled, the new one
\* inserted, the order paid.  An UPDATE waits for the pass that locked a row.
Activate(h, o) ==
    /\ work[<<h, o>>] # None
    /\ work[<<h, o>>] \cap Locked = {}
    /\ subs' = Append(SetStatus(work[<<h, o>>], "cancelled"), NewRow(o, None, Duration))
    /\ tx' = [tx EXCEPT ![o] = "paid"]
    /\ work' = [work EXCEPT ![<<h, o>>] = None]
    /\ acked' = IF h = "webhook" THEN acked \cup {o} ELSE acked
    /\ UNCHANGED <<clock, plan, captured, expiry, game, paddle>>

\* Mutant: without a database error, but with an early return that answers 200.
RollBack_Always(h, o) ==
    /\ work[<<h, o>>] # None
    /\ work' = [work EXCEPT ![<<h, o>>] = None]
    /\ acked' = IF h = "webhook" THEN acked \cup {o} ELSE acked
    /\ UNCHANGED <<clock, subs, tx, plan, captured, expiry, game, paddle>>

\* The commit raises: all is rolled back.  /verify answers with an error and the
\* client may call again; the webhook logs the error and answers 200 all the same.
RollBack(h, o) ==
    /\ "db_error" \in Faults
    /\ work[<<h, o>>] # None
    /\ work' = [work EXCEPT ![<<h, o>>] = None]
    /\ acked' = IF h = "webhook" THEN acked \cup {o} ELSE acked
    /\ UNCHANGED <<clock, subs, tx, plan, captured, expiry, game, paddle>>

-----------------------------------------------------------------------------
\* Paddle.

\* What the provider sends for a subscription p, each event once.
PaddleSend(p) ==
    /\ \/ /\ <<"created", p>> \notin sent
          /\ sent' = sent \cup { <<"created", p>>, <<"completed", p>> }
       \/ /\ <<"created", p>> \in sent /\ <<"canceled", p>> \notin sent
          /\ \E k \in {"updated", "canceled"} :
                <<k, p>> \notin sent /\ sent' = sent \cup { <<k, p>> }
    /\ UNCHANGED <<clock, subs, payments, expiry, game, inhand, processed>>

\* The row of a provider id, else the newest row of the server; 0 for none.
PaddleRow(p) ==
    IF \E i \in Rows : subs[i].pid = p
    THEN CHOOSE i \in Rows : subs[i].pid = p
    ELSE Len(subs)

\* An event that was not processed yet is delivered and its row
\* selected.  The handler is a coroutine that does not await: one at a time.
PaddleRead(k, p) ==
    /\ inhand = None
    /\ <<k, p>> \in sent \ processed
    /\ inhand' = [event |-> <<k, p>>, row |-> PaddleRow(p)]
    /\ UNCHANGED <<clock, subs, payments, expiry, game, sent, processed>>

\* Mutant: the provider's spelling of the status is stored.
PaddleApply_Spelling(k, p, i) ==
    IF i # 0
    THEN [subs EXCEPT ![i] = [@ EXCEPT !.pid = p,
                        !.status = IF k = "canceled" THEN "canceled" ELSE "active"]]
    ELSE IF k = "canceled" THEN subs
    ELSE Append(subs, NewRow(None, p, Duration))

\* The subscription rows after an event: created and updated activate the row, or
\* insert one, canceled cancels it.  The dates of a row stay as they are.
PaddleApply(k, p, i) ==
    IF i # 0
    THEN [subs EXCEPT ![i] = [@ EXCEPT !.pid = p,
                        !.status = IF k = "canceled" THEN "cancelled" ELSE "active"]]
    ELSE IF k = "canceled" THEN subs
    ELSE Append(subs, NewRow(None, p, Duration))

\* A subscription event and its effect are one commit.
PaddleCommit ==
    /\ inhand # None
    /\ inhand.event[1] # "completed"
    /\ inhand.row \notin Locked
    /\ subs' = PaddleApply(inhand.event[1], inhand.event[2], inhand.row)
    /\ processed' = processed \cup {inhand.event}
    /\ inhand' = None
    /\ UNCHANGED <<clock, payments, expiry, game, sent>>

\* An exception leaves both out, and the answer 500 has the provider send the
\* event again.  transaction.completed always ends so: its BillingTransaction is
\* given a status, success, that BillingTransactionStatus does not have.
PaddleFail ==
    /\ inhand # None
    /\ inhand.event[1] = "completed" \/ "db_error" \in Faults
    /\ inhand' = None
    /\ UNCHANGED <<clock, subs, payments, expiry, game, sent, processed>>

-----------------------------------------------------------------------------
Next ==
    \/ \E o \in Orders : \/ \E p \in Plans : CheckOrder(o, p)
                         \/ InsertOrder(o)
                         \/ Capture(o) \/ WebhookSkip(o)
                         \/ \E h \in Handlers : Load(h, o) \/ Activate(h, o) \/ RollBack(h, o)
    \/ \E p \in PaddleIds : \/ PaddleSend(p)
                            \/ \E k \in EventKinds : PaddleRead(k, p)
    \/ PaddleCommit \/ PaddleFail \/ Expire \/ StartCheck \/ StartRun \/ UserStop \/ Tick

Spec == Init /\ [][Next]_bvars

\* Razorpay delivers until it is answered with 200; handlers and the expiration
\* loop run on.  Nobody need call /verify, and nobody need pay.
Fairness ==
    /\ \A o \in Orders :
          /\ WF_bvars(o \notin acked /\ Load("webhook", o))
          /\ WF_bvars(WebhookSkip(o))
          /\ \A h \in Handlers : WF_bvars(Activate(h, o) \/ RollBack(h, o))
    /\ WF_bvars(PaddleCommit \/ PaddleFail)
    /\ WF_bvars(Expire)
    /\ WF_bvars(StartRun)

FairSpec == Spec /\ Fairness

-----------------------------------------------------------------------------
\* A payment is applied once: the client's /verify call and the webhook, retried
\* or concurrent, create one subscription for an order (_activate_subscription).
PaidOnce ==
    \A i, j \in Rows : subs[i].order = subs[j].order /\ subs[i].order # None => i = j

\* What was paid for is lost to the clock or to the provider Paddle only: no
\* activation and no expiration pass, at whatever point they interleave, leaves
\* without a live subscription a server that had one.
EntitlementKept ==
    [][Entitled /\ now' = now /\ processed' = processed => Entitled']_bvars

\* Every captured payment becomes a subscription, whether or not the client
\* calls /verify (the webhook is the safety net).
PaymentsFulfilled == \A o \in Orders : o \in captured ~> tx[o] = "paid"
=============================================================================
