-------------------------- MODULE PlacementProofs --------------------------
(***************************************************************************)
(* What Placement, which the fleet implements, gives for every set of      *)
(* servers and nodes: a server has at most one process, on its home.       *)
(***************************************************************************)
EXTENDS Placement, TLAPS

TypeOK == /\ at \in [Nodes -> SUBSET Servers]
          /\ home \in [Servers -> Nodes \cup {None}]

PInv == TypeOK /\ AtHome

LEMMA InitInv == ASSUME Init PROVE PInv
BY DEF Init, PInv, TypeOK, AtHome

LEMMA StartInv ==
    ASSUME PInv, None \notin Nodes, NEW s \in Servers, Start(s)
    PROVE  PInv'
<1>1. home[s] \in Nodes  BY DEF PInv, TypeOK, Start
<1>2. TypeOK'  BY <1>1 DEF PInv, TypeOK, Start
<1>3. AtHome'  BY <1>1 DEF PInv, TypeOK, AtHome, Start
<1> QED  BY <1>2, <1>3 DEF PInv

LEMMA HaltInv ==
    ASSUME PInv, NEW n \in Nodes, NEW S \in SUBSET Servers, Halt(n, S)
    PROVE  PInv'
<1>1. TypeOK'  BY DEF PInv, TypeOK, Halt
<1>2. AtHome'  BY DEF PInv, TypeOK, AtHome, Halt
<1> QED  BY <1>1, <1>2 DEF PInv

\* A server that moves has no process anywhere, so AtHome does not look at it.
LEMMA MoveInv ==
    ASSUME PInv, NEW n \in Nodes \cup {None}, NEW S \in SUBSET Servers, Move(S, n)
    PROVE  PInv'
<1>1. TypeOK'  BY DEF PInv, TypeOK, Move
<1>2. AtHome'
  <2> SUFFICES ASSUME NEW m \in Nodes, NEW s \in at'[m] PROVE home'[s] = m
    BY DEF AtHome
  <2>1. s \in at[m] /\ s \in Servers  BY DEF Move, PInv, TypeOK
  <2>2. s \notin S  BY <2>1 DEF Move, Runs
  <2> QED  BY <2>1, <2>2 DEF Move, PInv, AtHome
<1> QED  BY <1>1, <1>2 DEF PInv

\* A process that is left is none of S: those whose home is n had it there.
LEMMA VacateInv ==
    ASSUME PInv, NEW n \in Nodes, NEW S \in SUBSET Servers,
           NEW m \in Nodes \cup {None}, Vacate(n, S, m)
    PROVE  PInv'
<1>1. TypeOK'  BY DEF PInv, TypeOK, Vacate
<1>2. AtHome'
  <2> SUFFICES ASSUME NEW k \in Nodes, NEW s \in at'[k] PROVE home'[s] = k
    BY DEF AtHome
  <2>1. s \in at[k] /\ s \in Servers /\ (k = n => s \notin S)  BY DEF Vacate, PInv, TypeOK
  <2>2. home[s] = k  BY <2>1 DEF PInv, AtHome
  <2>3. s \notin S  BY <2>1, <2>2 DEF Vacate
  <2> QED  BY <2>1, <2>2, <2>3 DEF Vacate
<1> QED  BY <1>1, <1>2 DEF PInv

\* In every behaviour of Placement the process of a server runs on the node of
\* its row (start_server and every stop, move and shutdown of the fleet).
THEOREM RunsAtHome ==
    ASSUME None \notin Nodes
    PROVE  Spec => []AtHome
<1>1. Init => PInv  BY InitInv
<1>2. PInv /\ [Next]_pvars => PInv'
  <2> SUFFICES ASSUME PInv, [Next]_pvars PROVE PInv'
    OBVIOUS
  <2>1. CASE Next  BY <2>1, StartInv, HaltInv, MoveInv, VacateInv DEF Next
  <2>2. CASE UNCHANGED pvars
    BY <2>2 DEF pvars, PInv, TypeOK, AtHome
  <2> QED  BY <2>1, <2>2
<1>3. PInv => AtHome  BY DEF PInv
<1> QED  BY <1>1, <1>2, <1>3, PTL DEF Spec

\* A server never has two processes, which on a shared file system would write
\* the same world.
Once == \A m, n \in Nodes : at[m] \cap at[n] # {} => m = n
THEOREM RunsOnce ==
    ASSUME None \notin Nodes
    PROVE  Spec => []Once
<1>1. AtHome => Once  BY DEF AtHome, Once
<1> QED  BY <1>1, RunsAtHome, PTL
=============================================================================
