--------------------------- MODULE NetworkProofs ---------------------------
(***************************************************************************)
(* The allocation of ports, for any servers, nodes, ranges and actors: the *)
(* advisory lock keeps what is picked free, and allocated ports apart.     *)
(***************************************************************************)
EXTENDS Network, WellFoundedInduction, TLAPS

-----------------------------------------------------------------------------
\* Types of the parts.
AnyPort == JavaPorts \cup BedrockPorts
RowsOK  == row \in [Servers -> Row \cup {None}] /\ kept \subseteq Servers
NodesOK == proc \subseteq Process /\ up \subseteq Nodes
TxOK    == tx \in [Actors -> Tx \cup {None}] /\ lock \in Actors \cup {None}
AskedOK == asked \in 0..MaxRequests

LEMMA Parts == PortsTypeOK <=> RowsOK /\ NodesOK /\ TxOK /\ AskedOK
BY DEF PortsTypeOK, RowsOK, NodesOK, TxOK, AskedOK

LEMMA PartsNext == PortsTypeOK' <=> RowsOK' /\ NodesOK' /\ TxOK' /\ AskedOK'
BY DEF PortsTypeOK, RowsOK, NodesOK, TxOK, AskedOK

LEMMA RowType == ASSUME RowsOK, NEW s \in Rows PROVE s \in Servers /\ row[s] \in Row
BY DEF RowsOK, Rows

LEMMA TxType == ASSUME TxOK, NEW a \in Actors, ~Idle(a) PROVE tx[a] \in Tx
BY DEF TxOK, Idle

LEMMA Asks == ASSUME AskedOK, Request PROVE AskedOK'
BY PortsAssumption DEF AskedOK, Request

LEMMA OpenType ==
    ASSUME NEW op \in {"create", "start", "move", "rescue", "cold"}, NEW n \in Nodes,
           NEW S \in SUBSET Servers
    PROVE  Open(op, n, S) \in Tx
BY DEF Open, Tx

LEMMA TxSet == ASSUME TxOK, NEW a \in Actors, NEW t \in Tx \cup {None}, lock' = lock,
                      tx' = [tx EXCEPT ![a] = t]
               PROVE  TxOK'
BY DEF TxOK

LEMMA StateSet ==
    ASSUME RowsOK, NEW s \in Rows, NEW st \in ServerState, UNCHANGED kept,
           row' = [row EXCEPT ![s].state = st]
    PROVE  RowsOK'
<1>1. row[s] \in Row  BY RowType
<1>2. [row[s] EXCEPT !.state = st] \in Row  BY <1>1 DEF Row
<1> QED  BY <1>1, <1>2 DEF RowsOK, Rows

LEMMA StartType ==
    ASSUME RowsOK, TxOK, NodesOK, NEW a \in Actors, NEW s \in Rows, Start(a, s), UNCHANGED <<kept, lock>>
    PROVE  RowsOK' /\ TxOK'
<1>1. row[s] \in Row /\ s \in Servers  BY RowType
<1>2. [row[s] EXCEPT !.node = None] \in Row  BY <1>1 DEF Row
<1>3. CASE row[s].node \in up /\ tx' = [tx EXCEPT ![a] = [Open("start", row[s].node, {s}) EXCEPT !.pc = "launch"]] /\ UNCHANGED row
  <2>1. Open("start", row[s].node, {s}) \in Tx  BY <1>1, <1>3, OpenType DEF NodesOK
  <2>2. [Open("start", row[s].node, {s}) EXCEPT !.pc = "launch"] \in Tx  BY <2>1 DEF Tx
  <2> QED  BY <1>3, <2>2, TxSet DEF RowsOK
<1>4. CASE row' = [row EXCEPT ![s].node = None] /\ \E n \in up \ {row[s].node} : Opens(a, "start", n, {s})
  <2>1. PICK n \in up : Opens(a, "start", n, {s})  BY <1>4
  <2>2. Open("start", n, {s}) \in Tx  BY <1>1, OpenType DEF NodesOK
  <2> QED  BY <1>1, <1>2, <1>4, <2>1, <2>2, TxSet DEF Opens, RowsOK
<1>5. CASE row' = [row EXCEPT ![s].node = None] /\ tx' = [tx EXCEPT ![a] = None]
  BY <1>1, <1>2, <1>5, TxSet DEF RowsOK
<1> QED  BY <1>3, <1>4, <1>5 DEF Start

LEMMA LeastNat == ASSUME NEW S \in SUBSET Nat, S # {} PROVE \E n \in S : Lowest(n, S)
<1> DEFINE R == {ss \in Nat \X Nat : ss[1] < ss[2]}
<1>1. IsWellFoundedOn(R, Nat)  BY NatLessThanWellFounded DEF OpToRel
<1> HIDE DEF R
<1>2. PICK x \in S : \A y \in S : <<y, x>> \notin R  BY <1>1, WFMin
<1>3. ASSUME NEW y \in S PROVE x <= y
  <2>1. <<y, x>> \in Nat \X Nat /\ ~(y < x)  BY <1>2 DEF R
  <2> QED  BY <2>1
<1> QED  BY <1>3 DEF Lowest

\* A port, once picked, is of the server's range.
LEMMA RangeType == ASSUME NEW s \in Servers PROVE Range(s) \subseteq AnyPort /\ Range(s) \subseteq Nat \ {0}
BY PortsAssumption DEF Range, AnyPort

LEMMA ProxyType == ASSUME FreeProxyPorts # {} PROVE ProxyPort \in ProxyPorts
<1>1. FreeProxyPorts \subseteq ProxyPorts /\ FreeProxyPorts \subseteq Nat
  BY PortsAssumption DEF FreeProxyPorts
<1>2. \E p \in ProxyPorts : Lowest(p, FreeProxyPorts)  BY <1>1, LeastNat
<1> QED  BY <1>2 DEF ProxyPort

LEMMA Picks ==
    ASSUME NEW a \in Actors, Allocate(a)
    PROVE  \E s \in tx[a].todo : \E p \in Range(s) :
              /\ p \in Candidates(Seen(a), s, tx[a].node)
              /\ tx' = [tx EXCEPT ![a] = Picked(a, s, p)]
BY DEF Allocate, Lowest

LEMMA PickedType ==
    ASSUME NEW a \in Actors, tx[a] \in Tx, NEW s \in tx[a].todo, NEW p \in Range(s)
    PROVE  /\ Picked(a, s, p) \in Tx /\ s \in Servers /\ p \in AnyPort /\ p # 0
           /\ Picked(a, s, p).got = [tx[a].got EXCEPT ![s] = p]
           /\ Picked(a, s, p).node = tx[a].node /\ Picked(a, s, p).op = tx[a].op
           /\ Picked(a, s, p).todo = tx[a].todo \ {s}
           /\ Picked(a, s, p).pc \in {"alloc", "commit"}
<1>1. s \in Servers /\ p \in AnyPort /\ p # 0  BY RangeType DEF Tx
<1>2. [tx[a].got EXCEPT ![s] = p] \in [Servers -> AnyPort \cup {0}]
  BY <1>1 DEF Tx, AnyPort
<1> QED  BY <1>1, <1>2 DEF Picked, Tx, AnyPort

LEMMA AllocateType == ASSUME PortsTypeOK, NEW a \in Actors, Allocate(a) PROVE PortsTypeOK'
<1>1. tx[a] \in Tx  BY Parts, TxType DEF Allocate
<1>2. PICK s \in tx[a].todo : \E p \in Range(s) : tx' = [tx EXCEPT ![a] = Picked(a, s, p)]
  BY Picks
<1>3. PICK p \in Range(s) : tx' = [tx EXCEPT ![a] = Picked(a, s, p)]  BY <1>2
<1>4. Picked(a, s, p) \in Tx  BY <1>1, PickedType
<1>5. TxOK'  BY <1>3, <1>4, Parts DEF TxOK, Allocate
<1> QED  BY <1>5, Parts, PartsNext DEF Allocate, RowsOK, NodesOK, AskedOK

LEMMA RollBackType == ASSUME RowsOK, TxOK, NEW a \in Actors, RollBack(a), UNCHANGED kept
                      PROVE RowsOK' /\ TxOK'
BY DEF RollBack, Unlock, RowsOK, TxOK

LEMMA FailsType == ASSUME PortsTypeOK, NEW a \in Actors, AllocateFails(a) PROVE PortsTypeOK'
<1>1. tx[a] \in Tx  BY Parts, TxType DEF AllocateFails
<1>2. NodesOK' /\ AskedOK'  BY Parts DEF AllocateFails, NodesOK, AskedOK
<1>3. CASE RollBack(a)  BY <1>2, <1>3, Parts, PartsNext, RollBackType DEF AllocateFails
<1>4. CASE ~RollBack(a)
  <2>1. PICK s \in tx[a].todo :
           /\ tx' = [tx EXCEPT ![a] = IF @.todo = {s} THEN None
                                      ELSE Open("rescue", @.node, @.todo \ {s})]
           /\ Unlock(a) /\ UNCHANGED row
    BY <1>4 DEF AllocateFails
  <2>2. Open("rescue", tx[a].node, tx[a].todo \ {s}) \in Tx  BY <1>1, OpenType DEF Tx
  <2>3. TxOK'  BY <2>1, <2>2, Parts DEF TxOK, Unlock
  <2>4. RowsOK'  BY <2>1, Parts DEF AllocateFails, RowsOK
  <2> QED  BY <1>2, <2>3, <2>4, PartsNext
<1> QED  BY <1>3, <1>4

LEMMA WrittenType == ASSUME RowsOK, TxOK, NEW a \in Actors, ~Idle(a), Commits(a)
                     PROVE  Written(a) \in [Servers -> Row \cup {None}]
<1>1. tx[a] \in Tx  BY TxType
<1>2. ASSUME NEW s \in Got(a) PROVE s \in Servers /\ tx[a].got[s] \in AnyPort /\ tx[a].node \in Nodes
  BY <1>1 DEF Got, Tx, AnyPort
<1>3. ASSUME NEW s \in Got(a), tx[a].op = "create"
      PROVE  [state |-> "created", node |-> tx[a].node, port |-> tx[a].got[s], proxy |-> ProxyPort] \in Row
  BY <1>2, <1>3, ProxyType DEF Row, ServerState, Commits, AnyPort
<1>4. ASSUME NEW s \in Got(a), tx[a].op # "create"
      PROVE  [row[s] EXCEPT !.node = tx[a].node, !.port = tx[a].got[s],
                            !.state = IF tx[a].op = "start" THEN "provisioning" ELSE @] \in Row
  <2>1. row[s] \in Row  BY <1>4, RowType DEF Commits
  <2> QED  BY <1>2, <2>1 DEF Row, ServerState, AnyPort
<1> QED  BY <1>2, <1>3, <1>4 DEF Written, RowsOK

LEMMA CommitType == ASSUME PortsTypeOK, NEW a \in Actors, Commit(a) PROVE PortsTypeOK'
<1>1. tx[a] \in Tx  BY Parts, TxType DEF Commit
<1>2. AskedOK'  BY Parts DEF Commit, AskedOK
<1>3. CASE Commits(a)
  <2>1. RowsOK'
    BY <1>3, Parts, WrittenType DEF Commit, RowsOK
  <2>2. NodesOK'  BY <1>3, Parts DEF Commit, PowersOff, NodesOK
  <2>3. [tx[a] EXCEPT !.pc = "launch"] \in Tx /\ [tx[a] EXCEPT !.pc = "begin"] \in Tx
    BY <1>1 DEF Tx
  <2>4. TxOK'  BY <1>3, <2>3, Parts DEF Commit, TxOK, Unlock
  <2> QED  BY <1>2, <2>1, <2>2, <2>4, PartsNext
<1>4. CASE ~Commits(a)
  BY <1>2, <1>4, Parts, PartsNext, RollBackType DEF Commit, NodesOK
<1> QED  BY <1>3, <1>4

LEMMA LaunchType == ASSUME PortsTypeOK, NEW a \in Actors, Launch(a) PROVE PortsTypeOK'
<1> DEFINE s == Subject(a)
<1>1. TxOK' /\ AskedOK'  BY Parts DEF Launch, TxOK, AskedOK
<1>2. CASE /\ s \in Rows /\ row[s].node \in up
           /\ proc' = (proc \ ProcessOf(s, row[s].node)) \cup {Endpoint(s)}
           /\ row' = [row EXCEPT ![s].state = "running"]
  <2>1. row[s] \in Row /\ s \in Servers  BY <1>2, Parts, RowType
  <2>2. Endpoint(s) \in Process  BY <1>2, <2>1, Parts DEF Endpoint, Process, Row, NodesOK
  <2>3. NodesOK'  BY <1>2, <2>2, Parts DEF Launch, NodesOK
  <2>4. RowsOK'  BY <1>2, Parts, StateSet DEF Launch, ServerState
  <2> QED  BY <1>1, <2>3, <2>4, PartsNext
<1>3. CASE s \in Rows /\ Suspended(s) /\ UNCHANGED proc
  BY <1>1, <1>3, Parts, PartsNext, StateSet DEF Launch, Suspended, NodesOK, ServerState
<1>4. CASE UNCHANGED <<row, proc>>
  BY <1>1, <1>4, Parts, PartsNext DEF Launch, NodesOK, RowsOK
<1> QED  BY <1>2, <1>3, <1>4 DEF Launch

LEMMA MovedType ==
    ASSUME RowsOK, NEW s \in Rows, NEW n \in Nodes
    PROVE  [row EXCEPT ![s].node = n, ![s].state = "suspended"] \in [Servers -> Row \cup {None}]
<1>1. row[s] \in Row /\ s \in Servers  BY RowType
<1>2. [[row[s] EXCEPT !.node = n] EXCEPT !.state = "suspended"] \in Row  BY <1>1 DEF Row, ServerState
<1> QED  BY <1>1, <1>2 DEF RowsOK

LEMMA TxNextType == ASSUME PortsTypeOK, NEW a \in Actors, TxNext(a) PROVE PortsTypeOK'
<1>1. CASE Allocate(a)  BY <1>1, AllocateType
<1>2. CASE AllocateFails(a)  BY <1>2, FailsType
<1>3. CASE Commit(a)  BY <1>3, CommitType
<1>4. CASE PowerOffFails(a)
  BY <1>4, Parts, PartsNext, RollBackType DEF PowerOffFails, NodesOK, AskedOK
<1>5. CASE StartMoved(a)
  <2>1. NodesOK' /\ AskedOK'  BY <1>5, Parts DEF StartMoved, NodesOK, AskedOK
  <2>2. CASE Subject(a) \in Rows
    BY <1>5, <2>1, <2>2, Parts, PartsNext, StartType DEF StartMoved
  <2>3. CASE Subject(a) \notin Rows
    BY <1>5, <2>1, <2>3, Parts, PartsNext DEF StartMoved, TxOK, RowsOK
  <2> QED  BY <2>2, <2>3
<1>6. CASE Launch(a)  BY <1>6, LaunchType
<1> QED  BY <1>1, <1>2, <1>3, <1>4, <1>5, <1>6 DEF TxNext

LEMMA PortsStepType == ASSUME PortsTypeOK, PortsNext PROVE PortsTypeOK'
<1>0. RowsOK /\ NodesOK /\ TxOK /\ AskedOK  BY Parts
<1>1. ASSUME NEW a \in Actors, TxNext(a) PROVE PortsTypeOK'  BY <1>1, TxNextType
<1>2. ASSUME NEW a \in Actors, Rescue(a) PROVE PortsTypeOK'
  <2>1. PICK n \in up : Opens(a, "rescue", n, Orphans)  BY <1>2 DEF Rescue
  <2>2. Orphans \in SUBSET Servers  BY DEF Orphans, Rows
  <2>3. Open("rescue", n, Orphans) \in Tx  BY <1>0, <2>2, OpenType DEF NodesOK
  <2>4. TxOK'  BY <1>0, <1>2, <2>1, <2>3, TxSet DEF Rescue, Opens
  <2> QED  BY <1>0, <1>2, <2>4, Asks, PartsNext DEF Rescue, RowsOK, NodesOK
<1>3. ASSUME NEW a \in Actors, NEW m \in Nodes, ColdStorage(a, m) PROVE PortsTypeOK'
  <2> DEFINE S == { s \in Rows : row[s].node = m }
  <2>1. RowsOK' /\ AskedOK'  BY <1>0, <1>3, Asks DEF ColdStorage, RowsOK
  <2>2. CASE PowersOff(m) /\ UNCHANGED tx
    BY <1>0, <1>3, <2>1, <2>2, PartsNext DEF ColdStorage, PowersOff, NodesOK, TxOK
  <2>3. CASE ~(PowersOff(m) /\ UNCHANGED tx)
    <3>1. PICK n \in up : tx' = [tx EXCEPT ![a] = [Open("cold", n, S) EXCEPT !.from = m]]
                          /\ UNCHANGED <<proc, up>>
      BY <1>3, <2>3 DEF ColdStorage
    <3>2. S \in SUBSET Servers  BY DEF Rows
    <3>3. Open("cold", n, S) \in Tx  BY <1>0, <3>2, OpenType DEF NodesOK
    <3>4. [Open("cold", n, S) EXCEPT !.from = m] \in Tx  BY <3>3 DEF Tx
    <3>5. TxOK'  BY <1>0, <1>3, <3>1, <3>4, TxSet DEF ColdStorage
    <3> QED  BY <1>0, <2>1, <3>1, <3>5, PartsNext DEF NodesOK
  <2> QED  BY <2>2, <2>3
<1>4. ASSUME NEW a \in Actors, NEW s \in Servers, CreateServer(a, s) PROVE PortsTypeOK'
  <2>1. PICK n \in up : Opens(a, "create", n, {s})  BY <1>4 DEF CreateServer
  <2>2. Open("create", n, {s}) \in Tx  BY <1>0, OpenType DEF NodesOK
  <2>3. TxOK'  BY <1>0, <1>4, <2>1, <2>2, TxSet DEF CreateServer, Opens
  <2> QED  BY <1>0, <1>4, <2>3, Asks, PartsNext DEF CreateServer, RowsOK, NodesOK
<1>5. ASSUME NEW a \in Actors, NEW s \in Servers, StartServer(a, s) PROVE PortsTypeOK'
  BY <1>0, <1>5, StartType, Asks, PartsNext DEF StartServer, NodesOK
<1>6. ASSUME NEW a \in Actors, NEW s \in Servers, RebalanceMove(a, s) PROVE PortsTypeOK'
  <2>1. PICK n \in up : Opens(a, "move", n, {s})  BY <1>6 DEF RebalanceMove
  <2>2. Open("move", n, {s}) \in Tx  BY <1>0, OpenType DEF NodesOK
  <2>3. TxOK'  BY <1>0, <1>6, <2>1, <2>2, TxSet DEF RebalanceMove, Opens
  <2>4. s \in Rows  BY <1>6 DEF RebalanceMove, Running
  <2>5. RowsOK'  BY <1>0, <1>6, <2>4, StateSet DEF RebalanceMove, Suspended, ServerState
  <2> QED  BY <1>0, <1>6, <2>3, <2>5, Asks, PartsNext DEF RebalanceMove, NodesOK
<1>7. ASSUME NEW a \in Actors, NEW s \in Servers, MigrateServer(a, s) PROVE PortsTypeOK'
  <2>1. AskedOK' /\ NodesOK' /\ s \in Rows  BY <1>0, <1>7, Asks DEF MigrateServer, NodesOK
  <2>2. CASE Suspended(s) /\ UNCHANGED <<kept, tx>>
    BY <1>0, <1>7, <2>1, <2>2, StateSet, PartsNext DEF MigrateServer, Suspended, TxOK, ServerState
  <2>3. CASE ~(Suspended(s) /\ UNCHANGED <<kept, tx>>)
    <3>1. PICK n \in up :
             /\ row' = [row EXCEPT ![s].node = n, ![s].state = "suspended"]
             /\ kept' = kept \cup {s}
             /\ tx' = [tx EXCEPT ![a] = [Open("move", n, {s}) EXCEPT !.pc = "begin"]]
      BY <1>7, <2>3 DEF MigrateServer
    <3>2. Open("move", n, {s}) \in Tx  BY <1>0, OpenType DEF NodesOK
    <3>3. [Open("move", n, {s}) EXCEPT !.pc = "begin"] \in Tx  BY <3>2 DEF Tx
    <3>4. TxOK'  BY <1>0, <1>7, <3>1, <3>3, TxSet DEF MigrateServer
    <3>5. RowsOK'  BY <1>0, <2>1, <3>1, MovedType DEF RowsOK, NodesOK
    <3> QED  BY <2>1, <3>4, <3>5, PartsNext
  <2> QED  BY <2>2, <2>3
<1>8. ASSUME NEW s \in Servers, StopServer(s) PROVE PortsTypeOK'
  <2>1. s \in Rows  BY <1>8 DEF StopServer, Running
  <2>2. RowsOK'  BY <1>0, <1>8, <2>1, StateSet DEF StopServer, Suspended, ServerState
  <2> QED  BY <1>0, <1>8, <2>2, Asks, PartsNext DEF StopServer, NodesOK, TxOK
<1>9. ASSUME NEW s \in Servers, DeleteServer(s) PROVE PortsTypeOK'
  BY <1>0, <1>9, Asks, PartsNext DEF DeleteServer, NodesOK, TxOK, RowsOK
<1>10. ASSUME NEW s \in Servers, Reprovision(s) PROVE PortsTypeOK'
  <2>1. RowsOK'  BY <1>0, <1>10, StateSet DEF Reprovision, ServerState
  <2> QED  BY <1>0, <1>10, <2>1, PartsNext DEF Reprovision, NodesOK, TxOK, AskedOK
<1>11. ASSUME NEW n \in Nodes, NodeLost(n) \/ NodeBack(n) PROVE PortsTypeOK'
  <2>1. AskedOK'  BY <1>0, <1>11, Asks DEF NodeLost, NodeBack, AskedOK
  <2> QED  BY <1>0, <1>11, <2>1, PartsNext DEF NodeLost, NodeBack, NodesOK, TxOK, RowsOK
<1>12. ASSUME NEW n \in Nodes, Heartbeat(n) PROVE PortsTypeOK'
  <2>1. \A s \in Rows : row[s] \in Row /\ [row[s] EXCEPT !.state = "suspended"] \in Row
    BY <1>0, RowType DEF Row, ServerState
  <2>2. RowsOK'  BY <1>0, <1>12, <2>1 DEF Heartbeat, RowsOK, Running
  <2> QED  BY <1>0, <1>12, <2>2, PartsNext DEF Heartbeat, NodesOK, TxOK, AskedOK
<1> QED
  BY <1>1, <1>2, <1>3, <1>4, <1>5, <1>6, <1>7, <1>8, <1>9, <1>10, <1>11, <1>12 DEF PortsNext

-----------------------------------------------------------------------------
\* NoPortClash and PickStaysFree are not inductive: what a transaction has picked
\* stays free because others write ports only under the lock (Holder), because the
\* ports of rows and picks are of their ranges, which are disjoint (InRange), and
\* because one transaction keeps its own picks apart (PicksApart).
Working(a) == ~Idle(a) /\ tx[a].pc \in {"alloc", "commit"}
Holder == \A a \in Actors : Working(a) /\ (Got(a) # {} \/ tx[a].pc = "commit") => lock = a
InRange ==
    /\ \A s \in Rows : Taken(s, row[s].port) \subseteq Range(s)
    /\ \A a \in Actors : Working(a) =>
          \A s \in Got(a) : Taken(s, tx[a].got[s]) \subseteq Range(s)
OneCreated ==
    \A a \in Actors : ~Idle(a) /\ tx[a].op = "create" =>
        \A s, t \in Got(a) \cup tx[a].todo : s = t
PicksApart ==
    \A a \in Actors : Working(a) =>
        \A s, t \in Got(a) : s # t /\ row[s] # None /\ row[t] # None
            => Taken(s, tx[a].got[s]) \cap Taken(t, tx[a].got[t]) = {}
PortsInv == Holder /\ InRange /\ OneCreated /\ PicksApart /\ NoPortClash /\ PickStaysFree /\ Unique(row)

\* What steps other than a pick and a commit do: rows keep their ports and leave
\* their nodes, or are marked as migrated; transactions begin, end or stay.
Loses ==
    \A s \in Servers : row'[s] # None =>
        /\ row[s] # None /\ row'[s].port = row[s].port
        /\ \/ s \in kept'
           \/ s \notin kept /\ (row'[s].node = row[s].node \/ row'[s].node = None)
Fresh(t) == /\ t.pc = "alloc" /\ \A s \in Servers : t.got[s] = 0
            /\ t.op = "create" => \A s, o \in t.todo : s = o
Past(t) == t.pc \in {"launch", "begin"} /\ t.op # "create"
Turns(t) == t = None \/ Fresh(t) \/ Past(t)
Calm ==
    \A a \in Actors : \/ tx'[a] = tx[a] /\ (lock = a => lock' = a)
                      \/ Turns(tx'[a])

LEMMA CalmKeeps ==
    ASSUME PortsTypeOK, PortsInv, Loses, Calm, Unique(row)' PROVE PortsInv'
<1>1. \A a \in Actors : Working(a)' => \/ Working(a) /\ tx'[a] = tx[a] /\ (lock = a => lock' = a)
                                       \/ tx'[a].pc = "alloc" /\ Got(a)' = {}
  BY DEF Calm, Working, Turns, Fresh, Past, Got, Idle
<1>2. \A a \in Actors : tx'[a] = tx[a] => Got(a)' = Got(a)  BY DEF Got
<1>3. \A s \in Rows' : s \in Rows /\ row'[s].port = row[s].port  BY DEF Rows, Loses
<1>4. Holder'  BY <1>1, <1>2 DEF PortsInv, Holder
<1>5. InRange'
  <2>1. \A s \in Rows' : Taken(s, row'[s].port) \subseteq Range(s)
    BY <1>3 DEF PortsInv, InRange
  <2>2. ASSUME NEW a \in Actors, Working(a)', NEW s \in Got(a)'
        PROVE  Taken(s, tx'[a].got[s]) \subseteq Range(s)
    BY <1>1, <1>2, <2>2 DEF PortsInv, InRange
  <2> QED  BY <2>1, <2>2 DEF InRange, Taken, Range
<1>6. OneCreated'
  <2>1. SUFFICES ASSUME NEW a \in Actors, ~Idle(a)', tx'[a].op = "create"
                 PROVE  \A s, t \in Got(a)' \cup tx'[a].todo : s = t
    BY DEF OneCreated
  <2>2. CASE tx'[a] = tx[a]  BY <1>2, <2>1, <2>2 DEF PortsInv, OneCreated, Idle
  <2>3. CASE Fresh(tx'[a])  BY <2>1, <2>3 DEF Fresh, Got
  <2> QED  BY <2>1, <2>2, <2>3 DEF Calm, Turns, Past, Idle
<1>7. PicksApart'
  <2>1. SUFFICES ASSUME NEW a \in Actors, Working(a)', NEW s \in Got(a)', NEW t \in Got(a)',
                        s # t, row'[s] # None, row'[t] # None
                 PROVE  Taken(s, tx'[a].got[s]) \cap Taken(t, tx'[a].got[t]) = {}
    BY DEF PicksApart, Taken
  <2>2. Working(a) /\ tx'[a] = tx[a] /\ s \in Got(a) /\ t \in Got(a)  BY <1>1, <1>2, <2>1
  <2>3. row[s] # None /\ row[t] # None  BY <2>1 DEF Loses, Got
  <2> QED  BY <2>1, <2>2, <2>3 DEF PortsInv, PicksApart
<1>8. \A s \in Allocated' : /\ s \in Servers /\ s \in Allocated /\ row'[s].port = row[s].port
                            /\ row'[s].node = row[s].node \/ row'[s].node = None
  BY DEF Allocated, Rows, Loses
<1>9. NoPortClash'
  <2>1. SUFFICES ASSUME NEW s \in Allocated', NEW o \in Allocated',
                        s # o, row'[s].node # None, row'[s].node = row'[o].node
                 PROVE  Taken(s, row'[s].port) \cap Taken(o, row'[o].port) = {}
    BY DEF NoPortClash, Taken
  <2>2. s \in Allocated /\ o \in Allocated /\ row[s].node # None /\ row[s].node = row[o].node
    BY <1>8, <2>1
  <2> QED  BY <1>8, <2>1, <2>2 DEF PortsInv, NoPortClash
<1>10. PickStaysFree'
  <2>1. SUFFICES ASSUME NEW a \in Actors, Working(a)', NEW s \in Got(a)',
                        NEW o \in Allocated' \ Got(a)', row'[o].node = tx'[a].node
                 PROVE  Taken(s, tx'[a].got[s]) \cap Taken(o, row'[o].port) = {}
    BY DEF PickStaysFree, Working, Taken
  <2>2. Working(a) /\ tx'[a] = tx[a] /\ s \in Got(a) /\ o \in Allocated \ Got(a)
    BY <1>1, <1>2, <1>8, <2>1
  <2>3. tx[a].node # None  BY <2>2, Parts, TxType, PortsAssumption DEF Working, Tx
  <2>4. row[o].node = tx[a].node  BY <1>8, <2>1, <2>2, <2>3
  <2> QED  BY <1>8, <2>1, <2>2, <2>4 DEF PortsInv, PickStaysFree, Working
<1> QED  BY <1>4, <1>5, <1>6, <1>7, <1>9, <1>10 DEF PortsInv

\* A candidate does not overlap with the port of a row the allocator sees on the
\* node: with the same flavor it is reserved, with another it is of another range.
LEMMA Clear ==
    ASSUME NEW v, NEW n, NEW s \in Servers, NEW p \in Candidates(v, s, n), NEW o \in Servers,
           v[o] # None, v[o].node = n, Taken(o, v[o].port) \subseteq Range(o)
    PROVE  Taken(s, p) \cap Taken(o, v[o].port) = {}
<1>1. Taken(s, p) \subseteq Range(s) /\ Taken(s, p) \cap Reserved(v, s, n) = {}
  BY DEF Candidates
<1>2. v[o].port \in Taken(o, v[o].port)  BY DEF Taken
<1>3. CASE Range(s) = Range(o)
  <2>1. o \in Neighbours(v, s, n)  BY <1>2, <1>3 DEF Neighbours
  <2>2. Taken(o, v[o].port) \subseteq Reserved(v, s, n)  BY <1>3, <2>1 DEF Reserved
  <2> QED  BY <1>1, <2>2
<1>4. CASE Range(s) # Range(o)
  <2>1. Range(s) \cap Range(o) = {}  BY <1>4, PortsAssumption DEF Range
  <2> QED  BY <1>1, <2>1
<1> QED  BY <1>3, <1>4

\* Who does not hold the lock has picked nothing.
LEMMA Bare ==
    ASSUME Holder, NEW a \in Actors, lock \in {None, a}, NEW b \in Actors, b # a, Working(b)
    PROVE  Got(b) = {} /\ tx[b].pc # "commit"
BY PortsAssumption DEF Holder

LEMMA AllocateKeeps ==
    ASSUME PortsTypeOK, PortsInv, NEW a \in Actors, Allocate(a) PROVE PortsInv'
<1>1. tx[a] \in Tx /\ Working(a)  BY Parts, TxType DEF Allocate, Working
<1>2. PICK s \in tx[a].todo : \E p \in Range(s) :
              /\ p \in Candidates(Seen(a), s, tx[a].node)
              /\ tx' = [tx EXCEPT ![a] = Picked(a, s, p)]
  BY Picks
<1>3. PICK p \in Range(s) :
              /\ p \in Candidates(Seen(a), s, tx[a].node)
              /\ tx' = [tx EXCEPT ![a] = Picked(a, s, p)]
  BY <1>2
<1>4. s \in Servers /\ p # 0 /\ Picked(a, s, p) \in Tx  BY ZenonT(60), <1>1, PickedType
<1>5. \A b \in Actors : b # a => tx'[b] = tx[b] /\ Got(b)' = Got(b) /\ (Working(b)' <=> Working(b))
  BY <1>3, Parts DEF TxOK, Got, Working, Idle
<1>6. tx'[a] = Picked(a, s, p)  BY <1>3, Parts DEF TxOK
<1>7. /\ tx'[a].got = [tx[a].got EXCEPT ![s] = p] /\ tx'[a].node = tx[a].node
      /\ tx'[a].op = tx[a].op /\ tx'[a].todo = tx[a].todo \ {s}
  BY <1>1, <1>6, PickedType
<1>8. Got(a)' = Got(a) \cup {s} /\ tx'[a].got[s] = p
      /\ \A t \in Got(a) \ {s} : tx'[a].got[t] = tx[a].got[t]
  <2>1. tx[a].got \in [Servers -> AnyPort \cup {0}]  BY <1>1 DEF Tx, AnyPort
  <2> QED  BY <1>4, <1>7, <2>1 DEF Got
<1>9. UNCHANGED <<row, kept>> /\ lock \in {None, a} /\ lock' = a  BY DEF Allocate, MayAllocate
<1>10. Rows' = Rows /\ Allocated' = Allocated  BY <1>9 DEF Rows, Allocated
<1>11. Taken(s, p) \subseteq Range(s)  BY <1>3 DEF Candidates
<1>12. Holder'
  <2>1. ASSUME NEW b \in Actors, b # a, Working(b)', Got(b)' # {} \/ tx'[b].pc = "commit"
        PROVE  FALSE
    BY <1>5, <1>9, <2>1, Bare DEF PortsInv
  <2> QED  BY <1>9, <2>1 DEF Holder
<1>13. InRange'
  <2>1. ASSUME NEW t \in Got(a)' PROVE Taken(t, tx'[a].got[t]) \subseteq Range(t)
    BY <1>1, <1>8, <1>11, <2>1 DEF PortsInv, InRange
  <2>2. ASSUME NEW b \in Actors, b # a, Working(b)', NEW t \in Got(b)'
        PROVE  Taken(t, tx'[b].got[t]) \subseteq Range(t)
    BY <1>5, <2>2 DEF PortsInv, InRange
  <2>3. \A t \in Rows' : Taken(t, row'[t].port) \subseteq Range(t)
    BY <1>9, <1>10 DEF PortsInv, InRange
  <2> QED  BY <2>1, <2>2, <2>3 DEF InRange, Taken, Range
<1>14. OneCreated'
  <2>1. ASSUME NEW b \in Actors, ~Idle(b)', tx'[b].op = "create"
        PROVE  \A t, u \in Got(b)' \cup tx'[b].todo : t = u
    <3>1. CASE b = a
      <4>1. Got(a)' \cup tx'[a].todo \subseteq Got(a) \cup tx[a].todo  BY <1>7, <1>8
      <4> QED  BY <1>1, <1>7, <2>1, <3>1, <4>1 DEF PortsInv, OneCreated, Working
    <3>2. CASE b # a  BY <1>5, <2>1, <3>2 DEF PortsInv, OneCreated, Idle
    <3> QED  BY <3>1, <3>2
  <2> QED  BY <2>1 DEF OneCreated
<1>15. ASSUME NEW t \in Got(a), t # s, row[t] # None
       PROVE  Taken(s, p) \cap Taken(t, tx[a].got[t]) = {}
  <2>1. t \in Servers /\ tx[a].got[t] # 0  BY DEF Got
  <2>2. row[t] \in Row  BY <1>15, <2>1, Parts DEF RowsOK
  <2>3. Seen(a)[t] = [row[t] EXCEPT !.node = tx[a].node, !.port = tx[a].got[t]]
    BY <1>15, <2>1 DEF Seen
  <2>4. Seen(a)[t].node = tx[a].node /\ Seen(a)[t].port = tx[a].got[t]  BY <2>2, <2>3 DEF Row
  <2>5. Taken(t, Seen(a)[t].port) \subseteq Range(t)  BY <1>1, <2>4 DEF PortsInv, InRange
  <2>6. CASE Seen(a)[t] # None  BY <1>3, <1>4, <2>1, <2>4, <2>5, <2>6, Clear
  <2>7. Seen(a)[t] # None
    <3>1. tx[a].got[t] \in AnyPort /\ tx[a].node \in Nodes  BY <1>1, <2>1 DEF Tx, AnyPort
    <3>2. Seen(a)[t] \in Row  BY <2>2, <2>3, <3>1 DEF Row, AnyPort
    <3> QED  BY <3>2, NoneAssumption
  <2> QED  BY <2>6, <2>7
<1>16. PicksApart'
  <2>1. ASSUME NEW t \in Got(a)', NEW u \in Got(a)', t # u, row[t] # None, row[u] # None
        PROVE  Taken(t, tx'[a].got[t]) \cap Taken(u, tx'[a].got[u]) = {}
    <3>1. CASE t = s  BY <1>8, <1>15, <2>1, <3>1
    <3>2. CASE u = s  BY <1>8, <1>15, <2>1, <3>2
    <3>3. CASE t # s /\ u # s  BY <1>1, <1>8, <2>1, <3>3 DEF PortsInv, PicksApart
    <3> QED  BY <3>1, <3>2, <3>3
  <2>2. ASSUME NEW b \in Actors, b # a, Working(b)' PROVE Got(b)' = {}
    BY <1>5, <1>9, <2>2, Bare DEF PortsInv
  <2> QED  BY ZenonT(60), <1>9, <2>1, <2>2 DEF PicksApart, Taken
<1>17. NoPortClash'
  BY <1>9, <1>10 DEF PortsInv, NoPortClash
<1>18. PickStaysFree'
  <2>1. ASSUME NEW t \in Got(a)', NEW o \in Allocated \ Got(a)', row[o].node = tx[a].node
        PROVE  Taken(t, tx'[a].got[t]) \cap Taken(o, row[o].port) = {}
    <3>1. o \in Servers /\ row[o] # None /\ o \notin Got(a)  BY <1>8, <2>1 DEF Allocated, Rows
    <3>2. CASE t = s
      <4>1. Seen(a)[o] = row[o]  BY <3>1 DEF Seen, Got
      <4>2. Taken(o, row[o].port) \subseteq Range(o)  BY <2>1 DEF PortsInv, InRange, Allocated
      <4> QED  BY <1>3, <1>4, <1>8, <2>1, <3>1, <3>2, <4>1, <4>2, Clear
    <3>3. CASE t # s
      BY <1>1, <1>8, <2>1, <3>1, <3>3 DEF PortsInv, PickStaysFree, Working
    <3> QED  BY <3>2, <3>3
  <2>2. ASSUME NEW b \in Actors, b # a, Working(b)' PROVE Got(b)' = {}
    BY <1>5, <1>9, <2>2, Bare DEF PortsInv
  <2>3. SUFFICES ASSUME NEW b \in Actors, Working(b)', NEW t \in Got(b)',
                        NEW o \in Allocated' \ Got(b)', row'[o].node = tx'[b].node
                 PROVE  Taken(t, tx'[b].got[t]) \cap Taken(o, row'[o].port) = {}
    BY DEF PickStaysFree, Working, Taken
  <2> QED  BY <1>7, <1>9, <1>10, <2>1, <2>2, <2>3
<1>19. Unique(row)'  BY <1>9 DEF PortsInv, Unique
<1> QED  BY <1>12, <1>13, <1>14, <1>16, <1>17, <1>18, <1>19 DEF PortsInv

LEMMA WrittenRows ==
    ASSUME RowsOK, TxOK, NEW a \in Actors, ~Idle(a), Commits(a), NEW s \in Servers
    PROVE  /\ s \notin Got(a) => Written(a)[s] = row[s]
           /\ s \in Got(a) => Written(a)[s].node = tx[a].node /\ Written(a)[s].port = tx[a].got[s]
           /\ s \in Got(a) /\ tx[a].op # "create" => Written(a)[s].proxy = row[s].proxy
<1>1. CASE s \notin Got(a)  BY <1>1 DEF Written
<1>2. CASE s \in Got(a) /\ tx[a].op = "create"  BY <1>2 DEF Written
<1>3. CASE s \in Got(a) /\ tx[a].op # "create"
  <2>1. row[s] \in Row  BY <1>3, RowType DEF Commits
  <2> QED  BY <1>3, <2>1 DEF Written, Row
<1> QED  BY <1>1, <1>2, <1>3

\* A commit writes what was picked; nobody else has picked anything.
LEMMA CommitKeeps ==
    ASSUME PortsTypeOK, PortsInv, NEW a \in Actors, Commit(a), Commits(a) PROVE PortsInv'
<1>1. Working(a) /\ tx[a] \in Tx /\ lock = a
  BY Parts, TxType DEF Commit, Working, PortsInv, Holder
<1>2. row' = Written(a) /\ kept' = kept \ Got(a)  BY DEF Commit
<1>3. \A b \in Actors : b # a => tx'[b] = tx[b] /\ Got(b)' = Got(b) /\ (Working(b)' <=> Working(b))
  BY Parts DEF Commit, TxOK, Got, Working, Idle
<1>4. ~Working(a)' /\ (~Idle(a)' => tx'[a].op # "create")
  BY <1>1, Parts DEF Commit, TxOK, Working, Idle, Tx
<1>5. ASSUME NEW b \in Actors, Working(b)' PROVE Got(b)' = {} /\ tx'[b].pc # "commit"
  BY <1>1, <1>3, <1>4, <1>5, Bare DEF PortsInv
<1>6. /\ \A s \in Got(a) : s \in Servers /\ row'[s].node = tx[a].node /\ row'[s].port = tx[a].got[s]
      /\ \A s \in Servers \ Got(a) : row'[s] = row[s]
  BY <1>2, Parts, WrittenRows DEF Commit, Got
<1>7. Holder'  BY <1>5 DEF Holder
<1>8. InRange'
  <2>1. ASSUME NEW s \in Rows' PROVE Taken(s, row'[s].port) \subseteq Range(s)
    BY <1>1, <1>6, <2>1 DEF PortsInv, InRange, Rows
  <2> QED  BY <1>5, <2>1 DEF InRange, Taken, Range
<1>9. OneCreated'
  BY <1>3, <1>4 DEF PortsInv, OneCreated, Idle
<1>10. PicksApart'  BY <1>5 DEF PicksApart
<1>11. PickStaysFree'  BY <1>5 DEF PickStaysFree, Working
<1>12. ASSUME NEW s \in Got(a), NEW t \in Got(a), s # t PROVE row[s] # None /\ row[t] # None
  BY <1>1, <1>12 DEF PortsInv, OneCreated, Commits, Working, Rows
<1>13. \A s \in Allocated' : s \in Servers /\ (s \in Got(a) \/ s \in Allocated \ Got(a))
  BY <1>2, <1>6 DEF Allocated, Rows
<1>14. NoPortClash'
  <2>1. SUFFICES ASSUME NEW s \in Allocated', NEW o \in Allocated',
                        s # o, row'[s].node # None, row'[s].node = row'[o].node
                 PROVE  Taken(s, row'[s].port) \cap Taken(o, row'[o].port) = {}
    BY DEF NoPortClash, Taken
  <2>2. CASE s \in Got(a) /\ o \in Got(a)
    BY <1>1, <1>6, <1>12, <2>1, <2>2 DEF PortsInv, PicksApart
  <2>3. CASE s \in Got(a) /\ o \in Allocated \ Got(a)
    BY <1>1, <1>6, <1>13, <2>1, <2>3 DEF PortsInv, PickStaysFree, Working
  <2>4. CASE o \in Got(a) /\ s \in Allocated \ Got(a)
    BY <1>1, <1>6, <1>13, <2>1, <2>4 DEF PortsInv, PickStaysFree, Working
  <2>5. CASE s \in Allocated \ Got(a) /\ o \in Allocated \ Got(a)
    BY <1>6, <1>13, <2>1, <2>5 DEF PortsInv, NoPortClash
  <2> QED  BY <1>13, <2>2, <2>3, <2>4, <2>5
<1>15. Unique(row)'  BY <1>2 DEF Commits, Unique
<1> QED  BY <1>7, <1>8, <1>9, <1>10, <1>11, <1>14, <1>15 DEF PortsInv

-----------------------------------------------------------------------------
\* The other steps.
LEMMA OneTurns ==
    ASSUME TxOK, NEW a \in Actors, NEW t, Turns(t), tx' = [tx EXCEPT ![a] = t],
           \A b \in Actors : b # a /\ lock = b => lock' = b
    PROVE  Calm
BY DEF TxOK, Calm

LEMMA NobodyTurns == ASSUME UNCHANGED <<tx, lock>> PROVE Calm
BY DEF Calm

LEMMA OpenIsFresh ==
    ASSUME NEW op, NEW n, NEW S, op # "create" \/ \A s, o \in S : s = o
    PROVE  Turns(Open(op, n, S))
BY DEF Turns, Fresh, Open

\* Rows that keep their ports and stay on their nodes or leave them.
Fades ==
    \A s \in Servers : row'[s] # None =>
        /\ row[s] # None /\ row'[s].port = row[s].port /\ row'[s].proxy = row[s].proxy
        /\ row'[s].node = row[s].node \/ row'[s].node = None

LEMMA Fading == ASSUME Fades, \A s \in Servers : row'[s] # None => (s \in kept' <=> s \in kept)
                PROVE  Loses
BY DEF Fades, Loses

LEMMA FadesKeeps == ASSUME PortsTypeOK, PortsInv, Fades, Loses, Calm PROVE PortsInv'
<1>1. Unique(row)'  BY DEF PortsInv, Unique, Fades
<1> QED  BY <1>1, CalmKeeps

LEMMA RowsStay == ASSUME UNCHANGED <<row, kept>> PROVE Fades /\ Loses
<1>1. Fades  BY DEF Fades
<1> QED  BY <1>1, Fading

LEMMA StateLoses ==
    ASSUME RowsOK, NEW s \in Rows, NEW st, row' = [row EXCEPT ![s].state = st], UNCHANGED kept
    PROVE  Fades /\ Loses
<1>1. row[s] \in Row /\ s \in Servers /\ row[s] # None  BY RowType DEF Rows
<1>2. /\ [row[s] EXCEPT !.state = st].port = row[s].port /\ [row[s] EXCEPT !.state = st].node = row[s].node
      /\ [row[s] EXCEPT !.state = st].proxy = row[s].proxy
  BY <1>1 DEF Row
<1>3. Fades  BY <1>1, <1>2 DEF Fades, RowsOK
<1> QED  BY <1>3, Fading

LEMMA StartCalm ==
    ASSUME PortsTypeOK, NEW a \in Actors, NEW s \in Rows, Start(a, s), UNCHANGED <<kept, lock>>
    PROVE  Fades /\ Loses /\ Calm
<1>0. RowsOK /\ TxOK /\ NodesOK  BY Parts
<1>1. row[s] \in Row /\ s \in Servers /\ row[s] # None  BY <1>0, RowType DEF Rows
<1>2. ASSUME row' = [row EXCEPT ![s].node = None] PROVE Fades /\ Loses
  <2>1. /\ [row[s] EXCEPT !.node = None].port = row[s].port /\ [row[s] EXCEPT !.node = None].node = None
        /\ [row[s] EXCEPT !.node = None].proxy = row[s].proxy
    BY <1>1 DEF Row
  <2>2. Fades  BY <1>0, <1>1, <1>2, <2>1 DEF Fades, RowsOK
  <2> QED  BY <2>2, Fading
<1>3. Fades /\ Loses  BY <1>2, RowsStay DEF Start
<1>4. CASE tx' = [tx EXCEPT ![a] = [Open("start", row[s].node, {s}) EXCEPT !.pc = "launch"]]
  <2>1. Turns([Open("start", row[s].node, {s}) EXCEPT !.pc = "launch"])  BY DEF Turns, Past, Open
  <2> QED  BY <1>0, <1>3, <1>4, <2>1, OneTurns
<1>5. CASE \E n \in up : Opens(a, "start", n, {s})
  <2>1. PICK n \in up : Opens(a, "start", n, {s})  BY <1>5
  <2>2. Turns(Open("start", n, {s}))  BY OpenIsFresh
  <2> QED  BY <1>0, <1>3, <2>1, <2>2, OneTurns DEF Opens
<1>6. CASE tx' = [tx EXCEPT ![a] = None]
  <2>1. Turns(None)  BY DEF Turns
  <2> QED  BY <1>0, <1>3, <1>6, <2>1, OneTurns
<1> QED  BY <1>4, <1>5, <1>6 DEF Start

LEMMA RollBackCalm ==
    ASSUME PortsTypeOK, NEW a \in Actors, RollBack(a), UNCHANGED kept PROVE Fades /\ Loses /\ Calm
<1>1. Turns(None)  BY DEF Turns
<1>2. \A b \in Actors : b # a /\ lock = b => lock' = b  BY DEF RollBack, Unlock
<1> QED  BY <1>1, <1>2, Parts, RowsStay, OneTurns DEF RollBack

LEMMA FailsCalm ==
    ASSUME PortsTypeOK, NEW a \in Actors, AllocateFails(a) PROVE Fades /\ Loses /\ Calm
<1>1. CASE RollBack(a)  BY <1>1, RollBackCalm DEF AllocateFails
<1>2. CASE ~RollBack(a)
  <2>1. PICK s \in tx[a].todo :
           /\ tx' = [tx EXCEPT ![a] = IF tx[a].todo = {s} THEN None
                                      ELSE Open("rescue", tx[a].node, tx[a].todo \ {s})]
           /\ Unlock(a) /\ UNCHANGED row
    BY <1>2, Parts DEF AllocateFails, TxOK
  <2>2. Turns(None)  BY DEF Turns
  <2>3. Turns(Open("rescue", tx[a].node, tx[a].todo \ {s}))  BY OpenIsFresh
  <2>4. \A b \in Actors : b # a /\ lock = b => lock' = b  BY <2>1 DEF Unlock
  <2>5. Calm  BY <2>1, <2>2, <2>3, <2>4, Parts, OneTurns
  <2> QED  BY <2>1, <2>5, RowsStay DEF AllocateFails
<1> QED  BY <1>1, <1>2

LEMMA LaunchCalm ==
    ASSUME PortsTypeOK, NEW a \in Actors, Launch(a) PROVE Fades /\ Loses /\ Calm
<1>1. Turns(None)  BY DEF Turns
<1>2. Calm  BY <1>1, Parts, OneTurns DEF Launch
<1>3. Fades /\ Loses
  BY Parts, StateLoses, RowsStay DEF Launch, Suspended
<1> QED  BY <1>2, <1>3

LEMMA TxNextKeeps ==
    ASSUME PortsTypeOK, PortsInv, NEW a \in Actors, TxNext(a) PROVE PortsInv'
<1>1. CASE Allocate(a)  BY <1>1, AllocateKeeps
<1>2. CASE AllocateFails(a)  BY <1>2, FailsCalm, FadesKeeps
<1>3. CASE Commit(a) /\ Commits(a)  BY <1>3, CommitKeeps
<1>4. CASE Commit(a) /\ ~Commits(a)  BY <1>4, RollBackCalm, FadesKeeps DEF Commit
<1>5. CASE PowerOffFails(a)  BY <1>5, RollBackCalm, FadesKeeps DEF PowerOffFails
<1>6. CASE StartMoved(a)
  <2>1. CASE Subject(a) \in Rows  BY <1>6, <2>1, StartCalm, FadesKeeps DEF StartMoved
  <2>2. CASE Subject(a) \notin Rows
    <3>1. Turns(None)  BY DEF Turns
    <3>2. Calm  BY <1>6, <2>2, <3>1, Parts, OneTurns DEF StartMoved
    <3> QED  BY <1>6, <2>2, <3>2, RowsStay, FadesKeeps DEF StartMoved
  <2> QED  BY <2>1, <2>2
<1>7. CASE Launch(a)  BY <1>7, LaunchCalm, FadesKeeps
<1> QED  BY <1>1, <1>2, <1>3, <1>4, <1>5, <1>6, <1>7 DEF TxNext

\* An owner's migration is the one step that takes a port to another node; the
\* constraint was asked and the server is marked.
LEMMA MigrateKeeps ==
    ASSUME PortsTypeOK, PortsInv, NEW a \in Actors, NEW s \in Servers, MigrateServer(a, s)
    PROVE  PortsInv'
<1>0. s \in Rows  BY DEF MigrateServer
<1>1. row[s] \in Row /\ row[s] # None  BY <1>0, Parts, RowType DEF Rows
<1>2. CASE Suspended(s) /\ UNCHANGED <<kept, tx>>
  <2>1. Fades /\ Loses  BY <1>0, <1>2, Parts, StateLoses DEF Suspended
  <2>2. Calm  BY <1>2, NobodyTurns DEF MigrateServer
  <2> QED  BY <2>1, <2>2, FadesKeeps
<1>3. CASE ~(Suspended(s) /\ UNCHANGED <<kept, tx>>)
  <2> DEFINE Moved(n) == [row EXCEPT ![s].node = n, ![s].state = "suspended"]
  <2>1. PICK n \in up :
           /\ Unique(Moved(n)) /\ row' = Moved(n) /\ kept' = kept \cup {s}
           /\ tx' = [tx EXCEPT ![a] = [Open("move", n, {s}) EXCEPT !.pc = "begin"]]
    BY <1>3 DEF MigrateServer
  <2>2. Unique(row)'  BY <2>1 DEF Unique
  <2>3. [[row[s] EXCEPT !.node = n] EXCEPT !.state = "suspended"].port = row[s].port
    BY <1>1 DEF Row
  <2>4. Loses  BY <1>1, <2>1, <2>3, Parts DEF Loses, RowsOK
  <2>5. Turns([Open("move", n, {s}) EXCEPT !.pc = "begin"])  BY DEF Turns, Past, Open
  <2>6. Calm  BY <2>1, <2>5, Parts, OneTurns DEF MigrateServer
  <2> QED  BY <2>2, <2>4, <2>6, CalmKeeps
<1> QED  BY <1>2, <1>3

LEMMA PortsStepKeeps == ASSUME PortsTypeOK, PortsInv, PortsNext PROVE PortsInv'
<1>0. RowsOK /\ NodesOK /\ TxOK  BY Parts
<1>1. ASSUME NEW a \in Actors, TxNext(a) PROVE PortsInv'  BY <1>1, TxNextKeeps
<1>2. ASSUME NEW a \in Actors, Rescue(a) PROVE PortsInv'
  <2>1. PICK n \in up : Opens(a, "rescue", n, Orphans)  BY <1>2 DEF Rescue
  <2>2. Turns(Open("rescue", n, Orphans))  BY OpenIsFresh
  <2>3. Calm  BY <1>0, <1>2, <2>1, <2>2, OneTurns DEF Rescue, Opens
  <2> QED  BY <1>2, <2>3, RowsStay, FadesKeeps DEF Rescue
<1>3. ASSUME NEW a \in Actors, NEW m \in Nodes, ColdStorage(a, m) PROVE PortsInv'
  <2> DEFINE S == { s \in Rows : row[s].node = m }
  <2>1. CASE UNCHANGED tx  BY <1>3, <2>1, NobodyTurns, RowsStay, FadesKeeps DEF ColdStorage
  <2>2. CASE ~UNCHANGED tx
    <3>1. PICK n \in up : tx' = [tx EXCEPT ![a] = [Open("cold", n, S) EXCEPT !.from = m]]
      BY <1>3, <2>2 DEF ColdStorage
    <3>2. Turns([Open("cold", n, S) EXCEPT !.from = m])  BY DEF Turns, Fresh, Open
    <3>3. Calm  BY <1>0, <1>3, <3>1, <3>2, OneTurns DEF ColdStorage
    <3> QED  BY <1>3, <3>3, RowsStay, FadesKeeps DEF ColdStorage
  <2> QED  BY <2>1, <2>2
<1>4. ASSUME NEW a \in Actors, NEW s \in Servers, CreateServer(a, s) PROVE PortsInv'
  <2>1. PICK n \in up : Opens(a, "create", n, {s})  BY <1>4 DEF CreateServer
  <2>2. Turns(Open("create", n, {s}))  BY OpenIsFresh
  <2>3. Calm  BY <1>0, <1>4, <2>1, <2>2, OneTurns DEF CreateServer, Opens
  <2> QED  BY <1>4, <2>3, RowsStay, FadesKeeps DEF CreateServer
<1>5. ASSUME NEW a \in Actors, NEW s \in Servers, StartServer(a, s) PROVE PortsInv'
  BY <1>5, StartCalm, FadesKeeps DEF StartServer
<1>6. ASSUME NEW a \in Actors, NEW s \in Servers, RebalanceMove(a, s) PROVE PortsInv'
  <2>1. PICK n \in up : Opens(a, "move", n, {s})  BY <1>6 DEF RebalanceMove
  <2>2. Turns(Open("move", n, {s}))  BY OpenIsFresh
  <2>3. Calm  BY <1>0, <1>6, <2>1, <2>2, OneTurns DEF RebalanceMove, Opens
  <2>4. s \in Rows  BY <1>6 DEF RebalanceMove, Running
  <2>5. Fades /\ Loses  BY <1>0, <1>6, <2>4, StateLoses DEF RebalanceMove, Suspended
  <2> QED  BY <2>3, <2>5, FadesKeeps
<1>7. ASSUME NEW a \in Actors, NEW s \in Servers, MigrateServer(a, s) PROVE PortsInv'
  BY <1>7, MigrateKeeps
<1>8. ASSUME NEW s \in Servers, StopServer(s) PROVE PortsInv'
  <2>1. s \in Rows  BY <1>8 DEF StopServer, Running
  <2>2. Fades /\ Loses  BY <1>0, <1>8, <2>1, StateLoses DEF StopServer, Suspended
  <2> QED  BY <1>8, <2>2, NobodyTurns, FadesKeeps DEF StopServer
<1>9. ASSUME NEW s \in Servers, DeleteServer(s) PROVE PortsInv'
  <2>1. Fades  BY <1>0, <1>9 DEF DeleteServer, Fades, RowsOK
  <2>2. Loses  BY <1>0, <1>9, <2>1, Fading DEF DeleteServer, RowsOK
  <2> QED  BY <1>9, <2>1, <2>2, NobodyTurns, FadesKeeps DEF DeleteServer
<1>10. ASSUME NEW s \in Servers, Reprovision(s) PROVE PortsInv'
  <2>1. Fades /\ Loses  BY <1>0, <1>10, StateLoses DEF Reprovision
  <2> QED  BY <1>10, <2>1, NobodyTurns, FadesKeeps DEF Reprovision
<1>11. ASSUME NEW n \in Nodes, NodeLost(n) \/ NodeBack(n) PROVE PortsInv'
  BY <1>11, RowsStay, NobodyTurns, FadesKeeps DEF NodeLost, NodeBack
<1>12. ASSUME NEW n \in Nodes, Heartbeat(n) PROVE PortsInv'
  <2>1. \A s \in Rows : LET r == [row[s] EXCEPT !.state = "suspended"] IN
           r.port = row[s].port /\ r.node = row[s].node /\ r.proxy = row[s].proxy
    BY <1>0, RowType DEF Row
  <2>2. Fades  BY <1>0, <1>12, <2>1 DEF Heartbeat, Fades, Running, Rows
  <2>3. Loses  BY <1>12, <2>2, Fading DEF Heartbeat
  <2> QED  BY <1>12, <2>2, <2>3, NobodyTurns, FadesKeeps DEF Heartbeat
<1> QED
  BY <1>1, <1>2, <1>3, <1>4, <1>5, <1>6, <1>7, <1>8, <1>9, <1>10, <1>11, <1>12 DEF PortsNext

LEMMA PortsInitOK == ASSUME PortsInit PROVE PortsTypeOK /\ PortsInv
<1>1. row = Stock /\ kept = {} /\ \A a \in Actors : tx[a] = None  BY DEF PortsInit
<1>2. RowsOK  BY <1>1, StockAssumption DEF RowsOK
<1>3. NodesOK
  <2>1. ASSUME NEW s \in Running, row[s].node # None PROVE Endpoint(s) \in Process
    <3>1. s \in Servers /\ row[s] \in Row  BY <1>2, RowType DEF Running
    <3> QED  BY <2>1, <3>1 DEF Endpoint, Process, Row
  <2> QED  BY <2>1 DEF PortsInit, NodesOK
<1>4. TxOK /\ AskedOK  BY PortsAssumption DEF PortsInit, TxOK, AskedOK
<1>5. \A a \in Actors : ~Working(a) /\ Idle(a)  BY <1>1 DEF Working, Idle
<1>6. Holder /\ OneCreated /\ PicksApart /\ PickStaysFree
  BY <1>5 DEF Holder, OneCreated, PicksApart, PickStaysFree
<1>7. InRange  BY <1>1, <1>5, StockAssumption DEF InRange, Rows
<1>8. NoPortClash  BY <1>1, StockAssumption DEF NoPortClash, Allocated, Rows
<1> QED  BY <1>1, <1>2, <1>3, <1>4, <1>6, <1>7, <1>8, StockAssumption, Parts DEF PortsInv

-----------------------------------------------------------------------------
\* The proxy's tables: a Bedrock server is routed to a Bedrock port, which is what
\* types the sessions.
TableOK(t) == /\ t \in Table
              /\ \A p \in ProxyPorts : t[p] # None /\ t[p].srv \in Bedrock => t[p].port \in BedrockPorts
TablesOK == TableOK(routes) /\ (load # None => TableOK(load.new))
Loading == [new : Table, add : SUBSET ProxyPorts, del : SUBSET ProxyPorts,
            closing : ProxyPorts \cup {None}]
NetworkInv == PortsTypeOK /\ PortsInv /\ GameProxyTypeOK /\ TablesOK

LEMMA CurrentRoute ==
    ASSUME NEW p \in ProxyPorts, Current[p] # None
    PROVE  \E s \in Routed : row[s].proxy = p /\ Current[p] = RouteOf(s)
BY DEF Current

LEMMA CurrentOK == ASSUME PortsTypeOK, PortsInv PROVE TableOK(Current) /\ PortsOf(Current) \subseteq ProxyPorts
<1>1. ASSUME NEW s \in Routed PROVE RouteOf(s) \in Target /\ (s \in Bedrock => row[s].port \in BedrockPorts)
  <2>1. s \in Rows /\ s \in Servers /\ row[s] \in Row /\ row[s].node # None  BY Parts, RowType DEF Routed
  <2>2. RouteOf(s) \in Target  BY <2>1 DEF RouteOf, Target, Row
  <2>3. Taken(s, row[s].port) \subseteq Range(s)  BY <2>1 DEF PortsInv, InRange
  <2>4. row[s].port \in Range(s)  BY <2>3 DEF Taken
  <2> QED  BY <2>2, <2>4 DEF Range
<1>2. ASSUME NEW p \in ProxyPorts PROVE Current[p] \in Target \cup {None}
  BY <1>1, <1>2, CurrentRoute
<1>3. Current \in Table  BY <1>2 DEF Table, Current
<1>4. ASSUME NEW p \in ProxyPorts, Current[p] # None, Current[p].srv \in Bedrock
      PROVE  Current[p].port \in BedrockPorts
  <2>1. PICK s \in Routed : Current[p] = RouteOf(s)  BY <1>4, CurrentRoute
  <2> QED  BY <1>1, <1>4, <2>1 DEF RouteOf
<1> QED  BY <1>3, <1>4 DEF TableOK, PortsOf

LEMMA RestartOK ==
    ASSUME PortsTypeOK, PortsInv, UNCHANGED row, routes' = Current, load' = None,
           tcp' = PortsOf(Current), udp' = PortsOf(Current), conn' = NoConn, sess' = NoSess
    PROVE  GameProxyTypeOK' /\ TablesOK'
<1>1. TableOK(Current) /\ PortsOf(Current) \subseteq ProxyPorts  BY CurrentOK
<1>2. TablesOK'  BY <1>1 DEF TablesOK, TableOK
<1> QED  BY <1>1, <1>2 DEF GameProxyTypeOK, TableOK, NoConn, NoSess

LEMMA GameStepType ==
    ASSUME NetworkInv, GameProxyNext, UNCHANGED pvars PROVE GameProxyTypeOK' /\ TablesOK'
<1>0. PortsTypeOK /\ PortsInv /\ GameProxyTypeOK /\ TablesOK  BY DEF NetworkInv
<1>1. load # None => load \in Loading  BY <1>0 DEF GameProxyTypeOK, Loading
<1>2. CASE Refresh
  <2>1. TableOK(Current) /\ PortsOf(Current) \subseteq ProxyPorts  BY <1>0, CurrentOK
  <2>2. PortsOf(routes) \subseteq ProxyPorts  BY DEF PortsOf
  <2>3. load' \in Loading /\ load'.new = Current
    BY <1>2, <2>1, <2>2 DEF Refresh, Loading, TableOK
  <2> QED  BY <1>0, <1>2, <2>1, <2>3 DEF Refresh, GameProxyTypeOK, TablesOK, TableOK, Loading, listeners, players
<1>3. ASSUME NEW p \in ProxyPorts, StartListeners(p) PROVE GameProxyTypeOK' /\ TablesOK'
  <2>1. load' \in Loading /\ load'.new = load.new  BY <1>1, <1>3 DEF StartListeners, Loading
  <2>2. tcp' \subseteq ProxyPorts /\ udp' \subseteq ProxyPorts
    BY <1>0, <1>3 DEF StartListeners, Binds, GameProxyTypeOK
  <2> QED  BY <1>0, <1>3, <2>1, <2>2 DEF StartListeners, GameProxyTypeOK, TablesOK, TableOK, Loading, players
<1>4. ASSUME NEW p \in ProxyPorts, StopTcp(p) PROVE GameProxyTypeOK' /\ TablesOK'
  <2>1. load' \in Loading /\ load'.new = load.new  BY <1>1, <1>4 DEF StopTcp, Loading
  <2> QED  BY <1>0, <1>4, <2>1 DEF StopTcp, GameProxyTypeOK, TablesOK, TableOK, Loading, players
<1>5. CASE StopUdp
  <2>1. load' \in Loading /\ load'.new = load.new  BY <1>1, <1>5 DEF StopUdp, Loading
  <2>2. sess' \in [ProxyPorts -> [Clients -> [node : Nodes, port : BedrockPorts] \cup {None}]]
    BY <1>0, <1>5 DEF StopUdp, GameProxyTypeOK
  <2> QED  BY <1>0, <1>5, <2>1, <2>2 DEF StopUdp, GameProxyTypeOK, TablesOK, TableOK, Loading
<1>6. CASE UseRoutes
  BY <1>0, <1>1, <1>6 DEF UseRoutes, GameProxyTypeOK, TablesOK, TableOK, Loading, listeners, players
<1>7. ASSUME NEW c \in Clients, NEW p \in ProxyPorts, TcpConnect(c, p)
      PROVE  GameProxyTypeOK' /\ TablesOK'
  <2>1. PICK q \in proc : conn' = [conn EXCEPT ![c] = [proxy |-> p, end |-> q]]
    BY <1>7 DEF TcpConnect, At
  <2>2. q \in Process  BY <1>0, Parts DEF NodesOK
  <2>3. conn' \in [Clients -> [proxy : ProxyPorts, end : Process] \cup {None}]
    BY <1>0, <2>1, <2>2 DEF GameProxyTypeOK
  <2> QED  BY <1>0, <1>7, <2>3 DEF TcpConnect, GameProxyTypeOK, TablesOK, TableOK, listeners
<1>8. ASSUME NEW c \in Clients, NEW p \in ProxyPorts, UdpSend(c, p)
      PROVE  GameProxyTypeOK' /\ TablesOK'
  <2>1. routes[p] \in Target /\ routes[p].port \in BedrockPorts
    BY <1>0, <1>8 DEF UdpSend, GameProxyTypeOK, TablesOK, TableOK, Table
  <2>2. [node |-> routes[p].node, port |-> routes[p].port] \in [node : Nodes, port : BedrockPorts]
    BY <2>1 DEF Target
  <2>3. sess' \in [ProxyPorts -> [Clients -> [node : Nodes, port : BedrockPorts] \cup {None}]]
    BY <1>0, <1>8, <2>2 DEF UdpSend, GameProxyTypeOK
  <2> QED  BY <1>0, <1>8, <2>3 DEF UdpSend, GameProxyTypeOK, TablesOK, TableOK, listeners
<1>9. ASSUME NEW c \in Clients, Disconnect(c) PROVE GameProxyTypeOK' /\ TablesOK'
  BY <1>0, <1>9 DEF Disconnect, GameProxyTypeOK, TablesOK, TableOK, listeners
<1> QED  BY <1>2, <1>3, <1>4, <1>5, <1>6, <1>7, <1>8, <1>9 DEF GameProxyNext, RefreshNext

LEMMA NetworkInit == ASSUME Init PROVE NetworkInv
<1>1. PortsTypeOK /\ PortsInv  BY PortsInitOK DEF Init
<1>2. TableOK(Current) /\ PortsOf(Current) \subseteq ProxyPorts  BY <1>1, CurrentOK
<1> QED  BY <1>1, <1>2 DEF Init, GameProxyInit, NetworkInv, GameProxyTypeOK, TablesOK, TableOK, NoConn, NoSess

LEMMA NetworkStep == ASSUME NetworkInv, [Next]_vars PROVE NetworkInv'
<1>0. PortsTypeOK /\ PortsInv /\ GameProxyTypeOK /\ TablesOK  BY DEF NetworkInv
<1>1. ASSUME UNCHANGED gvars PROVE GameProxyTypeOK' /\ TablesOK'
  BY <1>0, <1>1 DEF gvars, listeners, players, GameProxyTypeOK, TablesOK, TableOK
<1>2. ASSUME UNCHANGED pvars PROVE PortsTypeOK' /\ PortsInv'
  <2>1. PortsTypeOK'  BY <1>0, <1>2 DEF pvars, PortsTypeOK
  <2>2. Fades /\ Loses  BY <1>2, RowsStay DEF pvars
  <2>3. Calm  BY <1>2, NobodyTurns DEF pvars
  <2> QED  BY <1>0, <2>1, <2>2, <2>3, FadesKeeps
<1>3. CASE PortsNext /\ UNCHANGED gvars
  BY <1>0, <1>1, <1>3, PortsStepType, PortsStepKeeps DEF NetworkInv
<1>4. CASE GameProxyNext /\ UNCHANGED pvars
  BY <1>2, <1>4, GameStepType DEF NetworkInv
<1>5. ASSUME NEW a \in Actors, NEW p \in ProxyPorts, Wakeup(a, p) PROVE NetworkInv'
  <2> DEFINE s == routes[p].srv
  <2>1. s \in Rows /\ Start(a, s) /\ Request /\ UNCHANGED <<kept, proc, up, lock, gvars>>
    BY <1>5 DEF Wakeup
  <2>2. PortsTypeOK'  BY <1>0, <2>1, StartType, Asks, Parts, PartsNext DEF NodesOK
  <2>3. PortsInv'  BY <1>0, <2>1, StartCalm, FadesKeeps
  <2> QED  BY <1>1, <2>1, <2>2, <2>3 DEF NetworkInv
<1>6. CASE Restart
  <2>1. PortsTypeOK'  BY <1>0, <1>6, Asks, Parts, PartsNext DEF Restart, RowsOK, NodesOK, TxOK
  <2>2. PortsInv'  BY <1>0, <1>6, RowsStay, NobodyTurns, FadesKeeps DEF Restart
  <2> QED  BY <1>0, <1>6, <2>1, <2>2, RestartOK DEF Restart, NetworkInv
<1>7. CASE UNCHANGED vars  BY <1>1, <1>2, <1>7 DEF vars, NetworkInv
<1> QED  BY <1>3, <1>4, <1>5, <1>6, <1>7 DEF Next

THEOREM NetworkInductive == Spec => []NetworkInv
<1> QED  BY NetworkInit, NetworkStep, PTL DEF Spec

\* Rows, processes, transactions, routes, listeners, connections and sessions keep
\* their shapes, whatever the ranges and the requests: a session of a Bedrock player
\* always leads to a port of the Bedrock range.
THEOREM NetworkTypes == Spec => []NetworkTypeOK
<1>1. NetworkInv => NetworkTypeOK  BY DEF NetworkInv, NetworkTypeOK
<1> QED  BY <1>1, NetworkInductive, PTL

\* Ports that _allocate_port chose never overlap on a node: for any ranges, flavors,
\* nodes and threads, on every path that changes the node of a server.
THEOREM PortsApart == Spec => []NoPortClash
<1>1. NetworkInv => NoPortClash  BY DEF NetworkInv, PortsInv
<1> QED  BY <1>1, NetworkInductive, PTL

\* The advisory lock keeps what a transaction has picked free until it commits.
THEOREM LockCovers == Spec => []PickStaysFree
<1>1. NetworkInv => PickStaysFree  BY DEF NetworkInv, PortsInv
<1> QED  BY <1>1, NetworkInductive, PTL

\* An address that is nobody else's: a process that answers where a row says it runs,
\* and that its own row names, is that row's.
LEMMA AddressOwned ==
    ASSUME PortsTypeOK, PortsInv, NEW p \in ProxyPorts, Current[p] # None, NEW q \in proc,
           q.node = Current[p].node, q.port = Current[p].port
    PROVE  Stray(q) \/ Owns(q, p)
<1>1. PICK s \in Routed : row[s].proxy = p /\ Current[p] = RouteOf(s)  BY CurrentRoute
<1>2. row[s] # None /\ s \in Servers /\ row[s].node # None  BY DEF Routed, Rows
<1>3. q.node = row[s].node /\ q.port = row[s].port  BY <1>1 DEF RouteOf
<1>4. q.srv \in Servers  BY Parts DEF NodesOK, Process
<1>5. CASE q.srv = s  BY <1>1, <1>2, <1>5 DEF Owns
<1>6. CASE q.srv # s /\ ~Stray(q)
  BY <1>2, <1>3, <1>4, <1>6 DEF Stray, PortsInv, Unique
<1> QED  BY <1>5, <1>6

\* While the proxy's table is current, a player reaches the server that was dialled
\* and no other server at its own address.
THEOREM DialledServer == Spec => RightServer
<1> DEFINE Step ==
      routes = Current =>
          \A c \in Clients :
              /\ conn[c] = None /\ conn'[c] # None
                 => Stray(conn'[c].end) \/ Owns(conn'[c].end, conn'[c].proxy)
              /\ \A p \in ProxyPorts :
                    sess[p][c] = None /\ sess'[p][c] # None
                    => \A q \in At(sess'[p][c].node, sess'[p][c].port) :
                          Stray(q) \/ Owns(q, p)
<1>1. ASSUME NetworkInv, [Next]_vars PROVE [Step]_vars
  <2>0. PortsTypeOK /\ PortsInv /\ GameProxyTypeOK  BY <1>1 DEF NetworkInv
  <2>1. CASE UNCHANGED <<conn, sess>>  BY <2>1
  <2>2. ASSUME NEW c \in Clients, NEW p \in ProxyPorts, TcpConnect(c, p) PROVE Step
    <3>1. PICK q \in At(routes[p].node, routes[p].port) :
             conn' = [conn EXCEPT ![c] = [proxy |-> p, end |-> q]]
      BY <2>2 DEF TcpConnect
    <3>2. UNCHANGED sess /\ routes[p] # None  BY <2>2 DEF TcpConnect
    <3>3. conn'[c] = [proxy |-> p, end |-> q] /\ \A d \in Clients : d # c => conn'[d] = conn[d]
      BY <2>0, <3>1 DEF GameProxyTypeOK
    <3>4. ASSUME routes = Current PROVE Stray(q) \/ Owns(q, p)
      BY <2>0, <3>1, <3>2, <3>4, AddressOwned DEF At
    <3> QED  BY <3>2, <3>3, <3>4
  <2>3. ASSUME NEW c \in Clients, NEW p \in ProxyPorts, UdpSend(c, p) PROVE Step
    <3>1. UNCHANGED conn /\ routes[p] # None  BY <2>3 DEF UdpSend
    <3>2. /\ sess'[p][c] = [node |-> routes[p].node, port |-> routes[p].port]
          /\ \A o \in ProxyPorts, d \in Clients : o # p \/ d # c => sess'[o][d] = sess[o][d]
      BY <2>0, <2>3 DEF UdpSend, GameProxyTypeOK
    <3>3. ASSUME routes = Current, NEW q \in At(routes[p].node, routes[p].port)
          PROVE  Stray(q) \/ Owns(q, p)
      BY <2>0, <3>1, <3>3, AddressOwned DEF At
    <3> QED  BY <3>1, <3>2, <3>3
  <2>4. ASSUME NEW c \in Clients, Disconnect(c) PROVE Step
    BY <2>0, <2>4 DEF Disconnect, GameProxyTypeOK
  <2>5. CASE StopUdp
    <3>1. load.closing \in ProxyPorts  BY <2>0, <2>5 DEF StopUdp, GameProxyTypeOK
    <3> QED  BY <2>0, <2>5, <3>1 DEF StopUdp, GameProxyTypeOK
  <2>6. CASE Restart  BY <2>6 DEF Restart, NoConn, NoSess
  <2> QED
    BY <1>1, <2>1, <2>2, <2>3, <2>4, <2>5, <2>6
    DEF Next, GameProxyNext, RefreshNext, Refresh, StartListeners, StopTcp, UseRoutes, Wakeup,
        gvars, players, vars
<1>2. ASSUME NetworkInv, [Next]_vars PROVE
        [routes = Current =>
          \A c \in Clients :
              /\ conn[c] = None /\ conn'[c] # None
                 => Stray(conn'[c].end) \/ Owns(conn'[c].end, conn'[c].proxy)
              /\ \A p \in ProxyPorts :
                    sess[p][c] = None /\ sess'[p][c] # None
                    => \A q \in At(sess'[p][c].node, sess'[p][c].port) :
                          Stray(q) \/ Owns(q, p)]_vars
  BY <1>1, <1>2
<1> QED  BY <1>2, NetworkInductive, PTL DEF Spec, RightServer
=============================================================================
