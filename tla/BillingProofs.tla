--------------------------- MODULE BillingProofs ---------------------------
(***************************************************************************)
(* Billing, for any orders, plans, provider ids and lengths: rows keep     *)
(* their types, with row locks a payment is applied once, and no commit    *)
(* takes the last live subscription away.                                  *)
(***************************************************************************)
EXTENDS Billing, TLAPS

-----------------------------------------------------------------------------
\* The type invariant by groups of variables that change together.
SubsOK  == now \in 0 .. MaxDay /\ subs \in Seq(Subscription)
PayOK   == /\ tx \in [Orders -> TxStatus]
           /\ plan \in [Orders -> Plans \cup {None}]
           /\ captured \in SUBSET Orders /\ acked \in SUBSET Orders
           /\ work \in [Handlers \X Orders -> {None} \cup SUBSET Nat]
SweepOK == sweep \in {None} \cup [moved : SUBSET Nat, lapsed : SUBSET Nat]
FlagsOK == stopped \in BOOLEAN /\ starting \in BOOLEAN /\ running \in BOOLEAN
EventOK == /\ sent \in SUBSET Events
           /\ inhand \in {None} \cup [event : sent, row : Nat]
           /\ processed \in SUBSET sent

LEMMA Parts == BillingTypeOK <=> SubsOK /\ PayOK /\ SweepOK /\ FlagsOK /\ EventOK
BY DEF BillingTypeOK, SubsOK, PayOK, SweepOK, FlagsOK, EventOK

LEMMA PartsNext ==
    BillingTypeOK' <=> SubsOK' /\ PayOK' /\ SweepOK' /\ FlagsOK' /\ EventOK'
BY DEF BillingTypeOK, SubsOK, PayOK, SweepOK, FlagsOK, EventOK

LEMMA SubsKept == ASSUME SubsOK, UNCHANGED <<clock, subs>> PROVE SubsOK'
BY DEF SubsOK, clock
LEMMA PayKept == ASSUME PayOK, UNCHANGED payments PROVE PayOK'
BY DEF PayOK, payments
LEMMA SweepKept == ASSUME SweepOK, UNCHANGED sweep PROVE SweepOK'
BY DEF SweepOK
LEMMA FlagsKept == ASSUME FlagsOK, UNCHANGED <<stopped, game>> PROVE FlagsOK'
BY DEF FlagsOK, game
LEMMA EventKept == ASSUME EventOK, UNCHANGED paddle PROVE EventOK'
BY DEF EventOK, paddle

\* A row that is added or whose status is set is a subscription.
LEMMA NewRowType ==
    ASSUME SubsOK, NEW o \in Orders \cup {None}, NEW p \in PaddleIds \cup {None},
           NEW d \in Nat
    PROVE  NewRow(o, p, d) \in Subscription
BY BillingAssumption DEF SubsOK, NewRow, Subscription, SubStatus

\* Two sequences of rows agree on dates and orders up to the length of the first.
Same(s, r) == \A i \in 1..Len(s) : r[i].order = s[i].order /\ r[i].expires = s[i].expires

LEMMA SetStatusType ==
    ASSUME SubsOK, NEW S, NEW st \in SubStatus
    PROVE  /\ SetStatus(S, st) \in Seq(Subscription)
           /\ Len(SetStatus(S, st)) = Len(subs)
           /\ Same(subs, SetStatus(S, st))
<1>1. Rows = 1..Len(subs) /\ Len(subs) \in Nat  BY DEF SubsOK, Rows
<1>2. \A i \in 1..Len(subs) : subs[i] \in Subscription  BY DEF SubsOK
<1>3. \A i \in 1..Len(subs) : [subs[i] EXCEPT !.status = st] \in Subscription
  BY <1>2 DEF Subscription
<1>4. SetStatus(S, st) \in [1..Len(subs) -> Subscription]
  BY <1>1, <1>2, <1>3 DEF SetStatus
<1>5. Same(subs, SetStatus(S, st))
  BY <1>1, <1>2 DEF SetStatus, Subscription, Same
<1> QED  BY <1>1, <1>4, <1>5

LEMMA InitTypes == ASSUME Init PROVE BillingTypeOK
<1>1. SubsOK
  <2>1. CASE subs = <<>>  BY <2>1, BillingAssumption DEF Init, SubsOK
  <2>2. CASE subs = << [status |-> "active", expires |-> Trial, pid |-> None,
                        order |-> None] >>
    BY <2>2, BillingAssumption DEF Init, SubsOK, Subscription, SubStatus
  <2> QED  BY <2>1, <2>2 DEF Init
<1>2. PayOK  BY DEF Init, PayOK, TxStatus
<1>3. SweepOK  BY DEF Init, SweepOK
<1>4. FlagsOK  BY DEF Init, FlagsOK
<1>5. EventOK  BY DEF Init, EventOK
<1> QED  BY <1>1, <1>2, <1>3, <1>4, <1>5, Parts

-----------------------------------------------------------------------------
\* A row of the expiration pass and a row of a Paddle event keep their order.
LEMMA ExpiredType ==
    ASSUME BillingTypeOK, ExpireCommit
    PROVE  subs' \in Seq(Subscription) /\ Len(subs') = Len(subs) /\ Same(subs, subs')
<1>1. Rows = 1..Len(subs) /\ Len(subs) \in Nat  BY DEF BillingTypeOK, Rows
<1>2. \A i \in 1..Len(subs) : subs[i] \in Subscription  BY DEF BillingTypeOK
<1>3. CASE UNCHANGED subs  BY <1>3 DEF BillingTypeOK, Same
<1>4. CASE subs' = [i \in Rows |-> IF i \in sweep.moved
                                  THEN [subs[i] EXCEPT !.status = "grace_period"]
                                  ELSE IF i \in sweep.lapsed
                                  THEN [subs[i] EXCEPT !.status = "suspended"]
                                  ELSE subs[i]]
  <2>1. \A i \in 1..Len(subs) :
            /\ [subs[i] EXCEPT !.status = "grace_period"] \in Subscription
            /\ [subs[i] EXCEPT !.status = "suspended"] \in Subscription
    BY <1>2 DEF Subscription, SubStatus
  <2>2. subs' \in [1..Len(subs) -> Subscription]  BY <1>1, <1>2, <1>4, <2>1
  <2>3. Same(subs, subs')
    BY <1>1, <1>2, <1>4 DEF Subscription, Same
  <2> QED  BY <1>1, <2>2, <2>3
<1> QED  BY <1>3, <1>4 DEF ExpireCommit

LEMMA AppendType ==
    ASSUME NEW s \in Seq(Subscription), NEW r \in Subscription
    PROVE  /\ Append(s, r) \in Seq(Subscription)
           /\ Len(Append(s, r)) = Len(s) + 1
           /\ \A i \in 1..Len(s) : Append(s, r)[i] = s[i]
           /\ Append(s, r)[Len(s) + 1] = r
OBVIOUS

LEMMA PaddleType ==
    ASSUME SubsOK, NEW k, NEW p \in PaddleIds, NEW i \in Nat,
           PaddleApply(k, p, i) = subs' 
    PROVE  /\ subs' \in Seq(Subscription)
           /\ \/ Len(subs') = Len(subs)
              \/ Len(subs') = Len(subs) + 1 /\ subs'[Len(subs) + 1].order = None
           /\ Same(subs, subs')
<1>1. subs \in Seq(Subscription) /\ Len(subs) \in Nat  BY DEF SubsOK
<1>2. \A j \in 1..Len(subs) : subs[j] \in Subscription  BY <1>1
<1>3. CASE i = 0 /\ k = "canceled"  BY <1>1, <1>3 DEF PaddleApply, Same
<1>4. CASE i = 0 /\ k # "canceled"
  <2>1. subs' = Append(subs, NewRow(None, p, Duration))  BY <1>4 DEF PaddleApply
  <2>2. NewRow(None, p, Duration) \in Subscription  BY NewRowType, BillingAssumption
  <2>3. NewRow(None, p, Duration).order = None  BY DEF NewRow
  <2> QED  BY <1>1, <2>1, <2>2, <2>3, AppendType DEF Same
<1>5. CASE i # 0
  <2> DEFINE st == IF k = "canceled" THEN "cancelled" ELSE "active"
  <2>1. subs' = [subs EXCEPT ![i] = [@ EXCEPT !.pid = p, !.status = st]]
    BY <1>5 DEF PaddleApply
  <2>2. st \in SubStatus  BY DEF SubStatus
  <2> HIDE DEF st
  <2> DEFINE r == [subs[i] EXCEPT !.pid = p, !.status = st]
  <2>3. subs' = [subs EXCEPT ![i] = r]  BY <2>1
  <2>4. i \in 1..Len(subs) => /\ r \in Subscription
                             /\ r.order = subs[i].order /\ r.expires = subs[i].expires
    BY <1>2, <2>2 DEF Subscription
  <2> HIDE DEF r
  <2>5. CASE i \in 1..Len(subs)
    <3>1. subs' \in Seq(Subscription) /\ Len(subs') = Len(subs)
      BY <1>1, <2>3, <2>4, <2>5
    <3>2. \A j \in 1..Len(subs) : subs'[j] = IF j = i THEN r ELSE subs[j]
      BY <1>1, <2>3, <2>5
    <3> QED  BY <2>4, <2>5, <3>1, <3>2 DEF Same
  <2>6. CASE i \notin 1..Len(subs)
    <3>1. subs' = subs  BY <1>1, <2>3, <2>6
    <3> QED  BY <1>1, <3>1 DEF Same
  <2> QED  BY <2>5, <2>6
<1> QED  BY <1>3, <1>4, <1>5

-----------------------------------------------------------------------------
\* One step per action; a group of variables an action leaves alone is cited.
LEMMA StepTypes == ASSUME BillingTypeOK, [Next]_bvars PROVE BillingTypeOK'
<1> USE Parts
<1>1. ASSUME NEW o \in Orders, NEW p \in Plans, CheckOrder(o, p) PROVE BillingTypeOK'
  <2>1. PayOK'  BY <1>1 DEF CheckOrder, PayOK
  <2> QED  BY <1>1, <2>1, PartsNext, SubsKept, SweepKept, FlagsKept, EventKept DEF CheckOrder, expiry
<1>2. ASSUME NEW o \in Orders, InsertOrder(o) PROVE BillingTypeOK'
  <2>1. PayOK'  BY <1>2 DEF InsertOrder, PayOK, TxStatus
  <2> QED  BY <1>2, <2>1, PartsNext, SubsKept, SweepKept, FlagsKept, EventKept DEF InsertOrder, expiry
<1>3. ASSUME NEW o \in Orders, Capture(o) PROVE BillingTypeOK'
  <2>1. PayOK'  BY <1>3 DEF Capture, PayOK
  <2> QED  BY <1>3, <2>1, PartsNext, SubsKept, SweepKept, FlagsKept, EventKept DEF Capture, expiry
<1>4. ASSUME NEW o \in Orders, WebhookSkip(o) PROVE BillingTypeOK'
  <2>1. PayOK'  BY <1>4 DEF WebhookSkip, PayOK
  <2> QED  BY <1>4, <2>1, PartsNext, SubsKept, SweepKept, FlagsKept, EventKept DEF WebhookSkip, expiry
<1>5. ASSUME NEW o \in Orders, NEW h \in Handlers, Load(h, o) PROVE BillingTypeOK'
  <2>1. LiveRows \in SUBSET Nat  BY DEF LiveRows, Rows, SubsOK
  <2>2. PayOK'  BY <1>5, <2>1 DEF Load, PayOK
  <2> QED  BY <1>5, <2>2, PartsNext, SubsKept, SweepKept, FlagsKept, EventKept DEF Load, expiry
<1>6. ASSUME NEW o \in Orders, NEW h \in Handlers, Activate(h, o) PROVE BillingTypeOK'
  <2>1. PayOK'  BY <1>6 DEF Activate, PayOK, TxStatus
  <2>2. NewRow(o, None, Duration) \in Subscription  BY NewRowType, BillingAssumption
  <2>3. SetStatus(work[<<h, o>>], "cancelled") \in Seq(Subscription)
    BY SetStatusType DEF SubStatus
  <2>4. SubsOK'  BY <1>6, <2>2, <2>3, AppendType DEF Activate, SubsOK, clock
  <2> QED  BY <1>6, <2>1, <2>4, PartsNext, SweepKept, FlagsKept, EventKept DEF Activate, expiry
<1>7. ASSUME NEW o \in Orders, NEW h \in Handlers, RollBack(h, o) PROVE BillingTypeOK'
  <2>1. PayOK'  BY <1>7 DEF RollBack, PayOK
  <2> QED  BY <1>7, <2>1, PartsNext, SubsKept, SweepKept, FlagsKept, EventKept DEF RollBack, expiry
<1>8. ASSUME NEW p \in PaddleIds, PaddleSend(p) PROVE BillingTypeOK'
  <2>1. sent \subseteq sent' /\ sent' \in SUBSET Events
    BY <1>8 DEF PaddleSend, EventOK, Events, EventKinds
  <2>2. EventOK'  BY <1>8, <2>1 DEF PaddleSend, EventOK
  <2> QED  BY <1>8, <2>2, PartsNext, SubsKept, PayKept, SweepKept, FlagsKept DEF PaddleSend, expiry
<1>9. ASSUME NEW p \in PaddleIds, NEW k \in EventKinds, PaddleRead(k, p) PROVE BillingTypeOK'
  <2>1. PaddleRow(p) \in Nat
    <3>1. Rows \subseteq Nat /\ Len(subs) \in Nat  BY DEF Rows, SubsOK
    <3> QED  BY <3>1 DEF PaddleRow
  <2>2. EventOK'  BY <1>9, <2>1 DEF PaddleRead, EventOK
  <2> QED  BY <1>9, <2>2, PartsNext, SubsKept, PayKept, SweepKept, FlagsKept DEF PaddleRead, expiry
<1>10. ASSUME PaddleCommit PROVE BillingTypeOK'
  <2>1. inhand.event \in Events /\ inhand.event \in sent /\ inhand.row \in Nat
    BY <1>10 DEF PaddleCommit, EventOK
  <2>2. inhand.event[2] \in PaddleIds  BY <2>1 DEF Events
  <2>3. subs' \in Seq(Subscription)  BY <1>10, <2>1, <2>2, PaddleType DEF PaddleCommit
  <2>4. SubsOK'  BY <1>10, <2>3 DEF PaddleCommit, SubsOK, clock
  <2>5. EventOK'  BY <1>10, <2>1 DEF PaddleCommit, EventOK
  <2> QED  BY <1>10, <2>4, <2>5, PartsNext, PayKept, SweepKept, FlagsKept DEF PaddleCommit, expiry
<1>11. ASSUME PaddleFail PROVE BillingTypeOK'
  <2>1. EventOK'  BY <1>11 DEF PaddleFail, EventOK
  <2> QED  BY <1>11, <2>1, PartsNext, SubsKept, PayKept, SweepKept, FlagsKept DEF PaddleFail, expiry
<1>12. ASSUME ExpireLoad PROVE BillingTypeOK'
  <2>1. Moved \in SUBSET Nat /\ Lapsed \in SUBSET Nat  BY DEF Moved, Lapsed, Rows, SubsOK
  <2>2. SweepOK'  BY <1>12, <2>1 DEF ExpireLoad, SweepOK
  <2>3. FlagsOK'  BY <1>12, Zenon DEF ExpireLoad, FlagsOK, game
  <2> QED  BY <1>12, <2>2, <2>3, PartsNext, SubsKept, PayKept, EventKept DEF ExpireLoad
<1>13. ASSUME ExpireStop PROVE BillingTypeOK'
  <2>1. FlagsOK'  BY <1>13, Zenon DEF ExpireStop, FlagsOK
  <2> QED  BY <1>13, <2>1, PartsNext, SubsKept, PayKept, SweepKept, EventKept DEF ExpireStop
<1>14. ASSUME ExpireCommit PROVE BillingTypeOK'
  <2>1. SubsOK'  BY <1>14, ExpiredType DEF ExpireCommit, SubsOK, clock
  <2>2. SweepOK'  BY <1>14 DEF ExpireCommit, SweepOK
  <2>3. FlagsOK'  BY <1>14, Zenon DEF ExpireCommit, FlagsOK, game
  <2> QED  BY <1>14, <2>1, <2>2, <2>3, PartsNext, PayKept, EventKept DEF ExpireCommit
<1>15. ASSUME StartCheck \/ StartRun \/ UserStop PROVE BillingTypeOK'
  <2>1. FlagsOK'  BY <1>15, Zenon DEF StartCheck, StartRun, UserStop, FlagsOK, expiry
  <2>2. UNCHANGED <<clock, subs, payments, sweep, paddle>>
    BY <1>15 DEF StartCheck, StartRun, UserStop, expiry
  <2> QED  BY <2>1, <2>2, PartsNext, SubsKept, PayKept, SweepKept, EventKept
<1>16. ASSUME Tick PROVE BillingTypeOK'
  <2>1. SubsOK'  BY <1>16, BillingAssumption DEF Tick, SubsOK
  <2> QED  BY <1>16, <2>1, PartsNext, PayKept, SweepKept, FlagsKept, EventKept DEF Tick, expiry
<1>17. ASSUME UNCHANGED bvars PROVE BillingTypeOK'
  BY <1>17, PartsNext, SubsKept, PayKept, SweepKept, FlagsKept, EventKept DEF bvars, expiry
<1> QED
  BY <1>1, <1>2, <1>3, <1>4, <1>5, <1>6, <1>7, <1>8, <1>9, <1>10, <1>11, <1>12, <1>13,
     <1>14, <1>15, <1>16, <1>17 DEF Next, Expire

\* No handler writes a value outside the enumerations of schema.py, for any orders,
\* plans and subscriptions, with or without row locks.
THEOREM BillingTypes == Spec => []BillingTypeOK
<1>1. Init => BillingTypeOK  BY InitTypes
<1>2. BillingTypeOK /\ [Next]_bvars => BillingTypeOK'  BY StepTypes
<1> QED  BY <1>1, <1>2, PTL DEF Spec

-----------------------------------------------------------------------------
\* PaidOnce is not inductive: an activation adds a row for its order, and what
\* keeps it from being the second is that the order is pending until then, and
\* that the row lock lets one handler at a time hold a pending order.
Billed == \A i \in 1..Len(subs) : subs[i].order # None => tx[subs[i].order] = "paid"
Held == \A h \in Handlers, o \in Orders : work[<<h, o>>] # None => tx[o] = "pending"
OneHolder ==
    \A g, h \in Handlers, o \in Orders :
        work[<<g, o>>] # None /\ work[<<h, o>>] # None => g = h
Single == \A i, j \in 1..Len(subs) : subs[i].order = subs[j].order /\ subs[i].order # None => i = j
PaidInv == Billed /\ Held /\ OneHolder /\ Single

LEMMA SinglePaid == ASSUME BillingTypeOK PROVE Single <=> PaidOnce
<1>1. Rows = 1..Len(subs)  BY DEF BillingTypeOK, Rows
<1> QED  BY <1>1, Zenon DEF Single, PaidOnce

\* A step that leaves orders and handlers alone and gives no new row an order.
Rewrites ==
    /\ UNCHANGED <<tx, work>>
    /\ \/ Len(subs') = Len(subs)
       \/ Len(subs') = Len(subs) + 1 /\ subs'[Len(subs) + 1].order = None
    /\ Same(subs, subs')

LEMMA RewritesInv == ASSUME BillingTypeOK, PaidInv, Rewrites PROVE PaidInv'
<1>1. Len(subs) \in Nat  BY DEF BillingTypeOK
<1>2. \A i \in 1..Len(subs') : subs'[i].order # None =>
          i \in 1..Len(subs) /\ subs'[i].order = subs[i].order
  BY <1>1 DEF Rewrites, Same
<1>3. Billed'  BY <1>2 DEF PaidInv, Billed, Rewrites
<1>4. Single'  BY <1>2 DEF PaidInv, Single
<1>5. Held' /\ OneHolder'  BY DEF PaidInv, Held, OneHolder, Rewrites
<1> QED  BY <1>3, <1>4, <1>5 DEF PaidInv

LEMMA SubsSame == ASSUME UNCHANGED <<subs, tx, work>> PROVE Rewrites
BY DEF Rewrites, Same

LEMMA RowOrders ==
    ASSUME BillingTypeOK PROVE \A i \in 1..Len(subs) : subs[i].order \in Orders \cup {None}
<1>1. \A i \in 1..Len(subs) : subs[i] \in Subscription  BY DEF BillingTypeOK
<1> QED  BY <1>1 DEF Subscription

LEMMA InsertInv ==
    ASSUME BillingTypeOK, PaidInv, NEW o \in Orders, InsertOrder(o)
    PROVE  PaidInv'
<1>1. tx[o] = "none" /\ tx' = [tx EXCEPT ![o] = "pending"] /\ UNCHANGED <<subs, work>>
  BY DEF InsertOrder
<1>2. tx \in [Orders -> TxStatus]  BY DEF BillingTypeOK
<1>3. Billed'
  <2> SUFFICES ASSUME NEW i \in 1..Len(subs), subs[i].order # None
               PROVE  tx'[subs[i].order] = "paid"
    BY <1>1 DEF Billed
  <2>1. subs[i].order \in Orders  BY RowOrders
  <2>2. tx[subs[i].order] = "paid"  BY DEF PaidInv, Billed
  <2> QED  BY <1>1, <1>2, <2>1, <2>2
<1>4. Held'
  <2> SUFFICES ASSUME NEW h \in Handlers, NEW q \in Orders, work[<<h, q>>] # None
               PROVE  tx'[q] = "pending"
    BY <1>1 DEF Held
  <2>1. tx[q] = "pending"  BY DEF PaidInv, Held
  <2> QED  BY <1>1, <1>2, <2>1
<1>5. OneHolder' /\ Single'  BY <1>1 DEF PaidInv, OneHolder, Single
<1> QED  BY <1>3, <1>4, <1>5 DEF PaidInv

\* With row locks a handler that loads an order is the only one that holds it.
LEMMA LoadInv ==
    ASSUME BillingTypeOK, PaidInv, RowLocks, NEW h \in Handlers, NEW o \in Orders, Load(h, o)
    PROVE  PaidInv'
<1>1. /\ tx[o] = "pending" /\ \A g \in Handlers : work[<<g, o>>] = None
      /\ work' = [work EXCEPT ![<<h, o>>] = LiveRows] /\ UNCHANGED <<subs, tx>>
  BY DEF Load
<1>2. work \in [Handlers \X Orders -> {None} \cup SUBSET Nat]  BY DEF BillingTypeOK
<1>3. \A g \in Handlers, q \in Orders :
          work'[<<g, q>>] # None => work[<<g, q>>] # None \/ (g = h /\ q = o)
  BY <1>1, <1>2
<1>4. Held'  BY <1>1, <1>3 DEF PaidInv, Held
<1>5. OneHolder'  BY <1>1, <1>3 DEF PaidInv, OneHolder
<1>6. Billed' /\ Single'  BY <1>1 DEF PaidInv, Billed, Single
<1> QED  BY <1>4, <1>5, <1>6 DEF PaidInv

LEMMA RollBackInv ==
    ASSUME BillingTypeOK, PaidInv, NEW h \in Handlers, NEW o \in Orders, RollBack(h, o)
    PROVE  PaidInv'
<1>1. work' = [work EXCEPT ![<<h, o>>] = None] /\ UNCHANGED <<subs, tx>>  BY DEF RollBack
<1>2. work \in [Handlers \X Orders -> {None} \cup SUBSET Nat]  BY DEF BillingTypeOK
<1>3. \A g \in Handlers, q \in Orders : work'[<<g, q>>] # None => work[<<g, q>>] # None
  BY <1>1, <1>2
<1>4. Held' /\ OneHolder'  BY <1>1, <1>3 DEF PaidInv, Held, OneHolder
<1>5. Billed' /\ Single'  BY <1>1 DEF PaidInv, Billed, Single
<1> QED  BY <1>4, <1>5 DEF PaidInv

\* The order of an activation is pending, so no row is for it; afterwards it is paid
\* and nobody holds it.
LEMMA ActivateInv ==
    ASSUME BillingTypeOK, PaidInv, NEW h \in Handlers, NEW o \in Orders, Activate(h, o)
    PROVE  PaidInv'
<1> DEFINE s == SetStatus(work[<<h, o>>], "cancelled")
           n == Len(subs) + 1
<1>1. /\ work[<<h, o>>] # None /\ work' = [work EXCEPT ![<<h, o>>] = None]
      /\ tx' = [tx EXCEPT ![o] = "paid"]
      /\ subs' = Append(s, NewRow(o, None, Duration))
  BY DEF Activate
<1>2. /\ work \in [Handlers \X Orders -> {None} \cup SUBSET Nat]
      /\ tx \in [Orders -> TxStatus] /\ Len(subs) \in Nat
      /\ \A i \in 1..Len(subs) : subs[i].order \in Orders \cup {None}
  BY RowOrders DEF BillingTypeOK
<1>3. SubsOK  BY Parts
<1>4. /\ s \in Seq(Subscription) /\ Len(s) = Len(subs)
      /\ Same(subs, s)
  BY <1>3, SetStatusType DEF SubStatus
<1>5. NewRow(o, None, Duration) \in Subscription /\ NewRow(o, None, Duration).order = o
  BY <1>3, NewRowType, BillingAssumption DEF NewRow
<1> HIDE DEF s
<1>6. /\ Len(subs') = n /\ subs'[n].order = o
      /\ \A i \in 1..Len(subs) : subs'[i].order = subs[i].order
  <2>1. \A i \in 1..Len(subs) : s[i].order = subs[i].order  BY <1>4 DEF Same
  <2>2. /\ Len(subs') = n /\ subs'[n] = NewRow(o, None, Duration)
        /\ \A i \in 1..Len(subs) : subs'[i] = s[i]
    BY <1>1, <1>4, <1>5, AppendType
  <2> QED  BY <1>5, <2>1, <2>2
<1>7. tx[o] = "pending"  BY <1>1 DEF PaidInv, Held
<1>8. \A i \in 1..Len(subs) : subs[i].order # o
  BY <1>2, <1>7, BillingAssumption DEF PaidInv, Billed
<1>9. \A i \in 1..n : i = n \/ i \in 1..Len(subs)  BY <1>2
<1>10. Billed'
  <2> SUFFICES ASSUME NEW i \in 1..n, subs'[i].order # None
               PROVE  tx'[subs'[i].order] = "paid"
    BY <1>6 DEF Billed
  <2>1. CASE i = n  BY <1>1, <1>2, <1>6, <2>1
  <2>2. CASE i \in 1..Len(subs)
    <3>1. subs'[i].order = subs[i].order /\ subs[i].order \in Orders  BY <1>2, <1>6, <2>2
    <3>2. tx[subs[i].order] = "paid"  BY <2>2, <3>1 DEF PaidInv, Billed
    <3> QED  BY <1>1, <1>2, <3>1, <3>2
  <2> QED  BY <1>9, <2>1, <2>2
<1>11. Single'
  <2> SUFFICES ASSUME NEW i \in 1..n, NEW j \in 1..n,
                      subs'[i].order = subs'[j].order, subs'[i].order # None
               PROVE  i = j
    BY <1>6 DEF Single
  <2>1. CASE i \in 1..Len(subs) /\ j \in 1..Len(subs)
    BY <1>6, <2>1 DEF PaidInv, Single
  <2> QED  BY <1>6, <1>8, <1>9, <2>1
<1>12. \A g \in Handlers, q \in Orders :
           work'[<<g, q>>] # None => work[<<g, q>>] # None /\ q # o
  <2> SUFFICES ASSUME NEW g \in Handlers, NEW q \in Orders, work'[<<g, q>>] # None
               PROVE  work[<<g, q>>] # None /\ q # o
    OBVIOUS
  <2>1. <<g, q>> # <<h, o>> /\ work[<<g, q>>] # None  BY <1>1, <1>2
  <2>2. q = o => g = h  BY <1>1, <2>1 DEF PaidInv, OneHolder
  <2> QED  BY <2>1, <2>2
<1>13. Held' /\ OneHolder'
  BY <1>1, <1>2, <1>12 DEF PaidInv, Held, OneHolder
<1> QED  BY <1>10, <1>11, <1>13 DEF PaidInv

LEMMA StepPaid ==
    ASSUME BillingTypeOK, PaidInv, RowLocks, [Next]_bvars
    PROVE  PaidInv'
<1>1. ASSUME NEW o \in Orders, InsertOrder(o) PROVE PaidInv'  BY <1>1, InsertInv
<1>2. ASSUME NEW o \in Orders, NEW h \in Handlers, Load(h, o) \/ Activate(h, o) \/ RollBack(h, o)
      PROVE  PaidInv'
  BY <1>2, LoadInv, ActivateInv, RollBackInv
<1>3. ASSUME PaddleCommit PROVE PaidInv'
  <2>1. inhand.event \in Events /\ inhand.row \in Nat
    BY <1>3, Parts DEF PaddleCommit, EventOK
  <2>2. inhand.event[2] \in PaddleIds  BY <2>1 DEF Events
  <2>3. UNCHANGED <<tx, work>>  BY <1>3 DEF PaddleCommit, payments
  <2>4. Rewrites  BY <1>3, <2>1, <2>2, <2>3, Parts, PaddleType DEF PaddleCommit, Rewrites
  <2> QED  BY <2>4, RewritesInv
<1>4. ASSUME ExpireCommit PROVE PaidInv'
  <2>1. UNCHANGED <<tx, work>>  BY <1>4 DEF ExpireCommit, payments
  <2>2. Rewrites  BY <1>4, <2>1, ExpiredType DEF Rewrites
  <2> QED  BY <2>2, RewritesInv
<1>5. ASSUME NEW o \in Orders, Capture(o) \/ WebhookSkip(o) \/ (\E p \in Plans : CheckOrder(o, p))
      PROVE  PaidInv'
  <2>1. UNCHANGED <<subs, tx, work>>  BY <1>5 DEF Capture, WebhookSkip, CheckOrder
  <2> QED  BY <2>1, SubsSame, RewritesInv
<1>6. ASSUME NEW p \in PaddleIds, PaddleSend(p) \/ (\E k \in EventKinds : PaddleRead(k, p))
      PROVE  PaidInv'
  <2>1. UNCHANGED <<subs, tx, work>>  BY <1>6 DEF PaddleSend, PaddleRead, payments
  <2> QED  BY <2>1, SubsSame, RewritesInv
<1>7. ASSUME PaddleFail \/ ExpireLoad \/ ExpireStop \/ StartCheck \/ StartRun \/ UserStop \/ Tick
      PROVE  PaidInv'
  <2>1. UNCHANGED <<subs, tx, work>>
    BY <1>7 DEF PaddleFail, ExpireLoad, ExpireStop, StartCheck, StartRun, UserStop, Tick, payments
  <2> QED  BY <2>1, SubsSame, RewritesInv
<1>8. ASSUME UNCHANGED bvars PROVE PaidInv'
  <2>1. UNCHANGED <<subs, tx, work>>  BY <1>8 DEF bvars, payments
  <2> QED  BY <2>1, SubsSame, RewritesInv
<1> QED  BY <1>1, <1>2, <1>3, <1>4, <1>5, <1>6, <1>7, <1>8 DEF Next, Expire

LEMMA InitPaid == ASSUME Init PROVE PaidInv
<1>1. \A i \in 1..Len(subs) : i = 1 /\ subs[i].order = None
  <2>1. CASE subs = <<>>  BY <2>1
  <2>2. CASE subs = << [status |-> "active", expires |-> Trial, pid |-> None,
                        order |-> None] >>
    BY <2>2
  <2> QED  BY <2>1, <2>2 DEF Init
<1>2. Billed /\ Single  BY <1>1 DEF Billed, Single
<1>3. Held /\ OneHolder  BY DEF Init, Held, OneHolder
<1> QED  BY <1>2, <1>3 DEF PaidInv

\* While the database locks the rows of SELECT ... FOR UPDATE, the client's /verify
\* call and the webhook create one subscription for an order, for any number of
\* orders and whatever commits fail in between (_activate_subscription).
THEOREM AppliedOnce == ASSUME RowLocks PROVE Spec => []PaidOnce
<1>1. Init => BillingTypeOK /\ PaidInv  BY InitTypes, InitPaid
<1>2. BillingTypeOK /\ PaidInv /\ [Next]_bvars => (BillingTypeOK /\ PaidInv)'
  BY StepTypes, StepPaid
<1>3. BillingTypeOK /\ PaidInv => PaidOnce  BY SinglePaid DEF PaidInv
<1> QED  BY <1>1, <1>2, <1>3, PTL DEF Spec

-----------------------------------------------------------------------------
\* EntitlementKept rests on two facts of the state: the rows the expiration pass has
\* read were past their dates and still are, because dates never change; and the
\* Paddle event in hand has not been processed.
Due == sweep # None =>
          /\ \A i \in sweep.moved : i \in 1..Len(subs) /\ subs[i].expires <= now
          /\ \A i \in sweep.lapsed : i \in 1..Len(subs) /\ subs[i].expires + Grace <= now
Unprocessed == inhand # None => inhand.event \notin processed

\* A step keeps the rows with their dates, and the clock does not go back.
Dated == /\ Len(subs) <= Len(subs') /\ Same(subs, subs')
         /\ now' \in Nat /\ now <= now'

LEMMA SameDated ==
    ASSUME BillingTypeOK, UNCHANGED subs, now' \in Nat, now <= now'
    PROVE  Dated
BY DEF BillingTypeOK, Dated, Same

LEMMA ActivateRow ==
    ASSUME BillingTypeOK, NEW h \in Handlers, NEW o \in Orders, Activate(h, o)
    PROVE  /\ Dated /\ Len(subs') = Len(subs) + 1
           /\ subs'[Len(subs) + 1].status = "active" /\ subs'[Len(subs) + 1].expires = now + Duration
<1> DEFINE s == SetStatus(work[<<h, o>>], "cancelled")
           r == NewRow(o, None, Duration)
<1>1. SubsOK /\ UNCHANGED now /\ subs' = Append(s, r)  BY Parts DEF Activate, clock
<1>2. s \in Seq(Subscription) /\ Len(s) = Len(subs) /\ Same(subs, s)
  BY <1>1, SetStatusType DEF SubStatus
<1>3. r \in Subscription /\ r.status = "active" /\ r.expires = now + Duration
  BY <1>1, NewRowType, BillingAssumption DEF NewRow
<1> HIDE DEF s, r
<1>4. now \in Nat /\ Len(subs) \in Nat  BY DEF BillingTypeOK
<1>5. Len(subs') = Len(subs) + 1 /\ subs'[Len(subs) + 1] = r
      /\ \A i \in 1..Len(subs) : subs'[i] = s[i]
  BY <1>1, <1>2, <1>3, AppendType
<1> QED  BY <1>1, <1>2, <1>3, <1>4, <1>5 DEF Dated, Same

LEMMA StepDated == ASSUME BillingTypeOK, [Next]_bvars PROVE Dated
<1>0. now \in Nat /\ Len(subs) \in Nat  BY DEF BillingTypeOK
<1>1. ASSUME NEW o \in Orders, NEW h \in Handlers, Activate(h, o) PROVE Dated
  BY <1>1, ActivateRow
<1>2. ASSUME PaddleCommit PROVE Dated
  <2>1. inhand.event \in Events /\ inhand.row \in Nat
    BY <1>2, Parts DEF PaddleCommit, EventOK
  <2>2. inhand.event[2] \in PaddleIds  BY <2>1 DEF Events
  <2>3. UNCHANGED now  BY <1>2 DEF PaddleCommit, clock
  <2> QED  BY <1>0, <1>2, <2>1, <2>2, <2>3, Parts, PaddleType DEF PaddleCommit, Dated
<1>3. ASSUME ExpireCommit PROVE Dated
  <2>1. UNCHANGED now  BY <1>3 DEF ExpireCommit, clock
  <2> QED  BY <1>0, <1>3, <2>1, ExpiredType DEF Dated
<1>4. ASSUME UNCHANGED <<clock, subs>> PROVE Dated
  BY <1>0, <1>4, SameDated DEF clock
<1>5. ASSUME Tick PROVE Dated  BY <1>0, <1>5, SameDated DEF Tick
<1>6. ASSUME NEW o \in Orders, NEW h \in Handlers, Load(h, o) \/ RollBack(h, o) PROVE Dated
  BY <1>4, <1>6 DEF Load, RollBack
<1>7. ASSUME NEW o \in Orders,
             \/ InsertOrder(o) \/ Capture(o) \/ WebhookSkip(o)
             \/ \E p \in Plans : CheckOrder(o, p)
      PROVE  Dated
  BY <1>4, <1>7 DEF InsertOrder, Capture, WebhookSkip, CheckOrder
<1>8. ASSUME NEW p \in PaddleIds, PaddleSend(p) \/ (\E k \in EventKinds : PaddleRead(k, p))
      PROVE  Dated
  BY <1>4, <1>8 DEF PaddleSend, PaddleRead
<1>9. ASSUME PaddleFail \/ ExpireLoad \/ ExpireStop \/ StartCheck \/ StartRun \/ UserStop
      PROVE  Dated
  BY <1>4, <1>9 DEF PaddleFail, ExpireLoad, ExpireStop, StartCheck, StartRun, UserStop
<1>10. ASSUME UNCHANGED bvars PROVE Dated  BY <1>4, <1>10 DEF bvars
<1> QED
  BY <1>1, <1>2, <1>3, <1>5, <1>6, <1>7, <1>8, <1>9, <1>10 DEF Next, Expire

\* What a pass has read stays due, whatever other steps do before its commit.
LEMMA StepDue == ASSUME BillingTypeOK, Due, [Next]_bvars PROVE Due'
<1>1. Dated  BY StepDated
<1>2. now \in Nat /\ Len(subs) \in Nat /\ Grace \in Nat
      /\ \A i \in 1..Len(subs) : subs[i].expires \in Nat
  <2>1. \A i \in 1..Len(subs) : subs[i] \in Subscription  BY DEF BillingTypeOK
  <2> QED  BY <2>1, BillingAssumption DEF BillingTypeOK, Subscription
<1>3. Len(subs') \in Nat  BY StepTypes DEF BillingTypeOK
<1>4. ASSUME UNCHANGED sweep PROVE Due'
  <2>1. \A i \in 1..Len(subs) : i \in 1..Len(subs') /\ subs'[i].expires = subs[i].expires
    BY <1>1, <1>2, <1>3 DEF Dated, Same
  <2>2. now' \in Nat /\ now <= now'  BY <1>1 DEF Dated
  <2>3. SUFFICES ASSUME sweep # None
                 PROVE  /\ \A i \in sweep.moved : i \in 1..Len(subs') /\ subs'[i].expires <= now'
                        /\ \A i \in sweep.lapsed :
                              i \in 1..Len(subs') /\ subs'[i].expires + Grace <= now'
    BY <1>4 DEF Due
  <2>4. ASSUME NEW i \in sweep.moved
        PROVE  i \in 1..Len(subs') /\ subs'[i].expires <= now'
    <3>1. i \in 1..Len(subs) /\ subs[i].expires <= now  BY <2>3, <2>4 DEF Due
    <3>2. subs[i].expires \in Nat  BY <1>2, <3>1
    <3> QED  BY <1>2, <2>1, <2>2, <3>1, <3>2
  <2>5. ASSUME NEW i \in sweep.lapsed
        PROVE  i \in 1..Len(subs') /\ subs'[i].expires + Grace <= now'
    <3>1. i \in 1..Len(subs) /\ subs[i].expires + Grace <= now  BY <2>3, <2>5 DEF Due
    <3>2. subs[i].expires \in Nat  BY <1>2, <3>1
    <3> QED  BY <1>2, <2>1, <2>2, <3>1, <3>2
  <2> QED  BY <2>4, <2>5
<1>5. ASSUME sweep' = None PROVE Due'  BY <1>5 DEF Due
<1>6. ASSUME ExpireLoad PROVE Due'
  <2>1. /\ sweep' = [moved |-> Moved, lapsed |-> Lapsed] /\ UNCHANGED <<subs, now>>
    BY <1>6 DEF ExpireLoad, clock
  <2>2. Rows = 1..Len(subs)  BY DEF BillingTypeOK, Rows
  <2> QED  BY <2>1, <2>2 DEF Due, Moved, Lapsed
<1>7. ASSUME ExpireCommit PROVE Due'  BY <1>5, <1>7 DEF ExpireCommit
<1>8. ASSUME NEW o \in Orders, NEW h \in Handlers, Load(h, o) \/ Activate(h, o) \/ RollBack(h, o)
      PROVE  Due'
  BY <1>4, <1>8 DEF Load, Activate, RollBack, expiry
<1>9. ASSUME NEW o \in Orders,
             \/ InsertOrder(o) \/ Capture(o) \/ WebhookSkip(o)
             \/ \E p \in Plans : CheckOrder(o, p)
      PROVE  Due'
  BY <1>4, <1>9 DEF InsertOrder, Capture, WebhookSkip, CheckOrder, expiry
<1>10. ASSUME NEW p \in PaddleIds, PaddleSend(p) \/ (\E k \in EventKinds : PaddleRead(k, p))
       PROVE  Due'
  BY <1>4, <1>10 DEF PaddleSend, PaddleRead, expiry
<1>11. ASSUME \/ PaddleCommit \/ PaddleFail \/ ExpireStop \/ StartCheck \/ StartRun
              \/ UserStop \/ Tick
       PROVE  Due'
  BY <1>4, <1>11 DEF PaddleCommit, PaddleFail, ExpireStop, StartCheck, StartRun, UserStop, Tick, expiry
<1>12. ASSUME UNCHANGED bvars PROVE Due'  BY <1>4, <1>12 DEF bvars, expiry
<1> QED  BY <1>6, <1>7, <1>8, <1>9, <1>10, <1>11, <1>12 DEF Next, Expire

\* One event is in hand at a time, and a processed one is not read.
LEMMA StepUnprocessed ==
    ASSUME BillingTypeOK, Unprocessed, [Next]_bvars PROVE Unprocessed'
<1>1. ASSUME UNCHANGED <<inhand, processed>> PROVE Unprocessed'  BY <1>1 DEF Unprocessed
<1>2. ASSUME inhand' = None PROVE Unprocessed'  BY <1>2 DEF Unprocessed
<1>3. ASSUME NEW p \in PaddleIds, NEW k \in EventKinds, PaddleRead(k, p) PROVE Unprocessed'
  BY <1>3 DEF PaddleRead, Unprocessed
<1>4. ASSUME PaddleCommit \/ PaddleFail PROVE Unprocessed'
  BY <1>2, <1>4 DEF PaddleCommit, PaddleFail
<1>5. ASSUME NEW p \in PaddleIds, PaddleSend(p) PROVE Unprocessed'
  BY <1>1, <1>5 DEF PaddleSend
<1>6. ASSUME NEW o \in Orders, NEW h \in Handlers, Load(h, o) \/ Activate(h, o) \/ RollBack(h, o)
      PROVE  Unprocessed'
  BY <1>1, <1>6 DEF Load, Activate, RollBack, paddle
<1>7. ASSUME NEW o \in Orders,
             \/ InsertOrder(o) \/ Capture(o) \/ WebhookSkip(o)
             \/ \E p \in Plans : CheckOrder(o, p)
      PROVE  Unprocessed'
  BY <1>1, <1>7 DEF InsertOrder, Capture, WebhookSkip, CheckOrder, paddle
<1>8. ASSUME Expire \/ StartCheck \/ StartRun \/ UserStop \/ Tick PROVE Unprocessed'
  BY <1>1, <1>8
  DEF Expire, ExpireLoad, ExpireStop, ExpireCommit, StartCheck, StartRun, UserStop, Tick, paddle
<1>9. ASSUME UNCHANGED bvars PROVE Unprocessed'  BY <1>1, <1>9 DEF bvars, paddle
<1> QED  BY <1>3, <1>4, <1>5, <1>6, <1>7, <1>8, <1>9 DEF Next

-----------------------------------------------------------------------------
\* The pass moves rows into the grace period that no longer entitled as active
\* ones, and suspends rows that no longer entitled at all.
LEMMA ExpireKeeps ==
    ASSUME BillingTypeOK, Due, ExpireCommit, Entitled PROVE Entitled'
<1>1. Rows = 1..Len(subs) /\ UNCHANGED now /\ now \in Nat /\ Grace \in Nat
  BY BillingAssumption DEF BillingTypeOK, Rows, ExpireCommit, clock
<1>2. \A i \in Rows : subs[i] \in Subscription /\ subs[i].expires \in Nat
  <2>1. \A i \in 1..Len(subs) : subs[i] \in Subscription  BY DEF BillingTypeOK
  <2> QED  BY <1>1, <2>1 DEF Subscription
<1>3. CASE UNCHANGED subs  BY <1>1, <1>3 DEF Entitled, Rows
<1>4. CASE subs' = [i \in Rows |-> IF i \in sweep.moved
                                  THEN [subs[i] EXCEPT !.status = "grace_period"]
                                  ELSE IF i \in sweep.lapsed
                                  THEN [subs[i] EXCEPT !.status = "suspended"]
                                  ELSE subs[i]]
  <2>1. PICK i \in Rows : \/ subs[i].status = "active" /\ subs[i].expires > now
                          \/ subs[i].status = "grace_period" /\ subs[i].expires + Grace > now
    BY DEF Entitled
  <2>2. sweep # None  BY DEF ExpireCommit
  <2>3. i \notin sweep.lapsed  BY <1>1, <1>2, <2>1, <2>2 DEF Due
  <2>4. i \in sweep.moved => subs[i].status = "grace_period" /\ subs[i].expires + Grace > now
    BY <1>1, <1>2, <2>1, <2>2 DEF Due
  <2>5. i \in DOMAIN subs' /\ subs'[i].expires = subs[i].expires
        /\ (subs'[i].status = subs[i].status)
    BY <1>2, <1>4, <2>3, <2>4 DEF Subscription
  <2> QED  BY <1>1, <2>1, <2>5 DEF Entitled, Rows
<1> QED  BY <1>3, <1>4 DEF ExpireCommit

\* An activation cancels what it read, and its own row entitles from then on.
LEMMA ActivateKeeps ==
    ASSUME BillingTypeOK, NEW h \in Handlers, NEW o \in Orders, Activate(h, o)
    PROVE  Entitled'
<1>1. UNCHANGED now /\ now \in Nat /\ Len(subs) \in Nat /\ Duration \in Nat \ {0}
  BY BillingAssumption DEF BillingTypeOK, Activate, clock
<1>2. subs' \in Seq(Subscription)
  <2>1. BillingTypeOK'  BY StepTypes DEF Next
  <2> QED  BY <2>1 DEF BillingTypeOK
<1>3. Len(subs) + 1 \in DOMAIN subs'  BY <1>1, <1>2, ActivateRow
<1> QED  BY <1>1, <1>3, ActivateRow DEF Entitled, Rows

LEMMA StepKeeps ==
    ASSUME BillingTypeOK, Due, Unprocessed, [Next]_bvars,
           Entitled, now' = now, processed' = processed
    PROVE  Entitled'
<1>1. ASSUME UNCHANGED subs PROVE Entitled'  BY <1>1 DEF Entitled, Rows
<1>2. ASSUME PaddleCommit PROVE FALSE  BY <1>2 DEF PaddleCommit, Unprocessed
<1>3. ASSUME NEW o \in Orders, NEW h \in Handlers, Load(h, o) \/ RollBack(h, o) PROVE Entitled'
  BY <1>1, <1>3 DEF Load, RollBack
<1>4. ASSUME NEW o \in Orders,
             \/ InsertOrder(o) \/ Capture(o) \/ WebhookSkip(o)
             \/ \E p \in Plans : CheckOrder(o, p)
      PROVE  Entitled'
  BY <1>1, <1>4 DEF InsertOrder, Capture, WebhookSkip, CheckOrder
<1>5. ASSUME NEW p \in PaddleIds, PaddleSend(p) \/ (\E k \in EventKinds : PaddleRead(k, p))
      PROVE  Entitled'
  BY <1>1, <1>5 DEF PaddleSend, PaddleRead
<1>6. ASSUME \/ PaddleFail \/ ExpireLoad \/ ExpireStop \/ StartCheck \/ StartRun
             \/ UserStop \/ Tick
      PROVE  Entitled'
  BY <1>1, <1>6 DEF PaddleFail, ExpireLoad, ExpireStop, StartCheck, StartRun, UserStop, Tick
<1>7. ASSUME UNCHANGED bvars PROVE Entitled'  BY <1>1, <1>7 DEF bvars
<1> QED
  BY <1>2, <1>3, <1>4, <1>5, <1>6, <1>7, ExpireKeeps, ActivateKeeps DEF Next, Expire

\* No activation and no expiration pass takes the last live subscription away, with
\* or without row locks and wherever they interleave (process_subscription_expirations,
\* _activate_subscription).
THEOREM EntitlementSafe == Spec => EntitlementKept
<1> DEFINE EInv == BillingTypeOK /\ Due /\ Unprocessed
<1>1. Init => EInv  BY InitTypes DEF Init, Due, Unprocessed
<1>2. EInv /\ [Next]_bvars => EInv'  BY StepTypes, StepDue, StepUnprocessed
<1>3. EInv /\ [Next]_bvars =>
          [Entitled /\ now' = now /\ processed' = processed => Entitled']_bvars
  BY StepKeeps
<1> HIDE DEF EInv
<1> QED  BY <1>1, <1>2, <1>3, PTL DEF Spec, EntitlementKept
=============================================================================
