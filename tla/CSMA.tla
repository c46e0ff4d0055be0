-------------------------------- MODULE CSMA --------------------------------
(***************************************************************************)
(* The channel simulation of mp4 (csma.cpp): one run of simulate().  Nodes *)
(* count down to 0 and are then ready to send.  When nobody is ready the   *)
(* channel is idle until the first node is; a single ready node transmits; *)
(* several collide, and back off within a range that grows with the number *)
(* of collisions of the packet.                                            *)
(***************************************************************************)
EXTENDS Integers, Sequences, FiniteSets, Folds

CONSTANTS
  Nodes,
  L,                \* time to send a packet
  R,                \* R[c + 1]: the back-off range after c collisions
  M,                \* maxRetryCnt_: after M collisions the count starts over
  MaxTime,
  FirstMin          \* where the search for the shortest countdown starts: 191919191

ASSUME CSMAAssumption ==
  /\ IsFiniteSet(Nodes) /\ Nodes # {}
  /\ L \in Nat \ {0}
  /\ R \in Seq(Nat)
  /\ M \in 1 .. Len(R)
  /\ MaxTime \in Nat
  /\ FirstMin \in Nat \ {0}

VARIABLES
  curCollisions,    \* collisions of the packet each node is sending
  countDown,
  totalCollisions,
  successTrans,
  curTime,
  idleTime,
  busyTime,
  collisionCnt,
  atSuccess         \* history, no action reads it: totalCollisions of each node at
                    \* its last success

nodeVars == <<curCollisions, countDown, totalCollisions, successTrans>>
vars == <<nodeVars, curTime, idleTime, busyTime, collisionCnt, atSuccess>>

SetMin(S) == CHOOSE x \in S : \A y \in S : x <= y
MaxRange == CHOOSE r \in {R[i] : i \in 1 .. M} : \A i \in 1 .. M : R[i] <= r

Init ==
  /\ curCollisions = [n \in Nodes |-> 0]
  /\ countDown \in [Nodes -> 0 .. R[1]]
  /\ totalCollisions = [n \in Nodes |-> 0]
  /\ successTrans = [n \in Nodes |-> 0]
  /\ curTime = 0
  /\ idleTime = 0
  /\ busyTime = 0
  /\ collisionCnt = 0
  /\ atSuccess = [n \in Nodes |-> 0]

\* Mutant: the range of the number of collisions before this one.
ResetCountDown_OldRange(S) ==
  \E draw \in [S -> 0 .. MaxRange] :
    /\ \A n \in S : draw[n] <= R[curCollisions[n] + 1]
    /\ countDown' = [n \in Nodes |-> IF n \in S THEN draw[n] ELSE countDown[n]]

\* resetCountDown of the nodes in S: rand() % (r + 1), where r depends on the
\* collisions each one has counted by then.
ResetCountDown(S) ==
  \E draw \in [S -> 0 .. MaxRange] :
    /\ \A n \in S : draw[n] <= R[curCollisions'[n] + 1]
    /\ countDown' = [n \in Nodes |-> IF n \in S THEN draw[n] ELSE countDown[n]]

NodesReady == {n \in Nodes : countDown[n] = 0}

\* Mutant: the search for the minimum starts from 0.
MinCountDown_FromZero == SetMin({0} \cup {countDown[n] : n \in Nodes})

\* countDownAll: FirstMin itself when all countdowns are above it.
MinCountDown == SetMin({FirstMin} \cup {countDown[n] : n \in Nodes})

\* Mutant: everybody is ready when the first one is.
CountedDown_AllReady == [n \in Nodes |-> 0]

CountedDown == [n \in Nodes |-> countDown[n] - MinCountDown]

\* Mutant: the whole period counts as one tick.
IdleFor_OneTick(t) == curTime' = curTime + t /\ idleTime' = idleTime + 1

IdleFor(t) == curTime' = curTime + t /\ idleTime' = idleTime + t
BusyFor(t) == curTime' = curTime + t /\ busyTime' = busyTime + t

Idle ==
  /\ NodesReady = {}
  /\ countDown' = CountedDown
  /\ IdleFor(MinCountDown)
  /\ UNCHANGED <<curCollisions, totalCollisions, successTrans, busyTime, collisionCnt,
                 atSuccess>>

\* Mutant: the collisions of the packet that was sent stay with the next one.
NextPacket_Kept(n) == curCollisions

NextPacket(n) == [curCollisions EXCEPT ![n] = 0]

Transmit ==
  \E n \in Nodes :
    /\ NodesReady = {n}
    /\ successTrans' = [successTrans EXCEPT ![n] = @ + 1]
    /\ curCollisions' = NextPacket(n)
    /\ ResetCountDown({n})
    /\ BusyFor(L)
    /\ atSuccess' = [atSuccess EXCEPT ![n] = totalCollisions[n]]
    /\ UNCHANGED <<totalCollisions, idleTime, collisionCnt>>

OneMore(c) == (c + 1) % M

SeveralReady == Cardinality(NodesReady) > 1

Collide ==
  /\ SeveralReady
  /\ totalCollisions' = [n \in Nodes |-> IF n \in NodesReady THEN totalCollisions[n] + 1
                                                            ELSE totalCollisions[n]]
  /\ curCollisions' = [n \in Nodes |-> IF n \in NodesReady THEN OneMore(curCollisions[n])
                                                          ELSE curCollisions[n]]
  /\ ResetCountDown(NodesReady)
  /\ BusyFor(1)
  /\ collisionCnt' = collisionCnt + 1
  /\ UNCHANGED <<successTrans, idleTime, atSuccess>>

TimeLeft == curTime < MaxTime

\* The loop of simulate().
Pass == TimeLeft /\ (Idle \/ Transmit \/ Collide)
Finished == ~ TimeLeft /\ UNCHANGED vars

Next == Pass \/ Finished

Spec == Init /\ [][Next]_vars /\ WF_vars(Next)
-----------------------------------------------------------------------------
TypeOK ==
  /\ curCollisions \in [Nodes -> 0 .. M - 1]
  /\ countDown \in [Nodes -> 0 .. MaxRange]
  /\ totalCollisions \in [Nodes -> Nat]
  /\ successTrans \in [Nodes -> Nat]
  /\ atSuccess \in [Nodes -> Nat]
  /\ curTime \in Nat /\ idleTime \in Nat /\ busyTime \in Nat /\ collisionCnt \in Nat

Total(f) == MapThenFoldSet(+, 0, LAMBDA n : f[n], LAMBDA S : CHOOSE n \in S : TRUE, Nodes)

\* The statistics add up: the channel is either idle or busy, and it is busy
\* with the transmissions and collisions that the nodes have counted.
TimeAccounted ==
  /\ curTime = idleTime + busyTime
  /\ busyTime = L * Total(successTrans) + collisionCnt

\* Every collision has at least two parties, and each counts it once.
CollisionsShared ==
  /\ 2 * collisionCnt <= Total(totalCollisions)
  /\ \A n \in Nodes : totalCollisions[n] <= collisionCnt

\* Times and counts, kept in different places, agree.
StatisticsAgree == TimeAccounted /\ CollisionsShared

\* A node backs off in the range of the collisions its packet has had: those since
\* its last success, which start over after M of them.
BackOffRange ==
  \A n \in Nodes :
    /\ countDown[n] <= R[curCollisions[n] + 1]
    /\ curCollisions[n] = (totalCollisions[n] - atSuccess[n]) % M

\* The simulated time runs past MaxTime by less than one activity.
StopsInTime ==
  curTime < MaxTime + (IF MaxRange > L THEN MaxRange ELSE L)

\* An idle pass lets all countdowns run equally long and none below 0, and it ends
\* with a node that is ready.  The exception is a period in which every countdown
\* is above FirstMin: then FirstMin goes by, and the next pass finds nobody ready.
IdleUntilReady ==
  [][Idle => /\ (\E n \in Nodes : countDown[n] <= FirstMin) => NodesReady' # {}
             /\ \A n \in Nodes : countDown'[n] >= 0
             /\ \A n, m \in Nodes :
                  countDown[n] - countDown[m] = countDown'[n] - countDown'[m]]_vars

\* Every pass takes time, so that the run ends.
Ends == <>(curTime >= MaxTime)
=============================================================================
