------------------------ MODULE ConflictResolverProofs ------------------------
(***************************************************************************)
(* Proofs about ConflictResolver, for any number of agents, supplies,      *)
(* rounds and any utilities.  The strengthening: a round that found a      *)
(* conflict leaves resolve() running, the conflicts never change, and so   *)
(* every round after the first finds the same ones.                        *)
(***************************************************************************)
EXTENDS ConflictResolver, TLAPS

(* What the loop knows about the conflicts while it runs and when it ends. *)
LoopInv ==
    /\ result = "resolved" => Conflicts = {}
    /\ result = "deadlock" => round > 0
    /\ result # "resolved" /\ round > 0 => Conflicts # {}

(* Every conflict has left one of its parties amended. *)
Judged ==
    round > 0 => \A x \in Conflicts : \E i \in 1..2 : x[i].agent \in amended

IInv == TypeOK /\ LoopInv /\ Judged /\ LosersWereOutbid

(* Two uses of one supply are a conflict, in one order or the other. *)
LEMMA TwoUsesConflict ==
    ASSUME TypeOK, NEW e \in allocations, NEW f \in allocations,
           e.supply = f.supply, e # f
    PROVE  <<e, f>> \in Conflicts \/ <<f, e>> \in Conflicts
<1>1. e \in Allocations /\ f \in Allocations
  BY DEF TypeOK
<1>2. /\ e.agent \in Int /\ f.agent \in Int
      /\ e.nth \in Int /\ f.nth \in Int
  BY <1>1, NumAgentsAssumption DEF Allocations, Agents
<1>3. e.agent # f.agent \/ e.nth # f.nth
  BY <1>1 DEF Allocations
<1>4. Before(e, f) \/ Before(f, e)
  BY <1>2, <1>3 DEF Before
<1> QED
  BY <1>4 DEF Conflicts

(* The parties of a conflict are two different uses of one supply. *)
LEMMA ConflictParties ==
    ASSUME TypeOK, NEW x \in Conflicts
    PROVE  /\ \A i \in 1..2 : x[i] \in allocations /\ x[i].agent \in Agents
           /\ x[1].supply = x[2].supply /\ x[1].supply \in Supplies
           /\ x[1] # x[2]
<1>1. x \in allocations \X allocations /\ x[1].supply = x[2].supply /\ Before(x[1], x[2])
  BY DEF Conflicts
<1>2. x[1] \in Allocations /\ x[2] \in Allocations
  BY <1>1 DEF TypeOK
<1>3. x[1] # x[2]
  BY <1>1, <1>2, NumAgentsAssumption DEF Before, Allocations, Agents
<1> QED
  BY <1>1, <1>2, <1>3 DEF Allocations

LEMMA InitEstablishesIInv == Init => IInv
<1> SUFFICES ASSUME Init PROVE IInv
  OBVIOUS
<1>1. TypeOK
  BY RoundsAssumption DEF Init, TypeOK
<1> QED
  BY <1>1 DEF Init, IInv, LoopInv, Judged, LosersWereOutbid

(* One round of the auction, whoever wins the ties. *)
LEMMA AuctionPreservesIInv ==
    ASSUME IInv, RunRound, Auction, round' = NextRound
    PROVE  IInv'
<1> USE DEF IInv
<1>1. /\ Conflicts' = Conflicts /\ Conflicts # {}
      /\ UNCHANGED <<allocations, utility, final_plan, result>>
      /\ result = "running" /\ round' = round + 1 /\ round < MaxRounds
  BY DEF RunRound, Auction, Conflicts, RoundsLeft, NextRound
<1>2. PICK winner \in [Conflicts -> 1..2] :
        /\ \A x \in Conflicts : winner[x] \in PossibleWinners(x)
        /\ amended' = amended \cup {Loser(x, winner[x]) : x \in Conflicts}
        /\ amendments' = [a \in Agents |-> amendments[a] \cup
              {Verdict(x, winner[x]) : x \in {y \in Conflicts : Loser(y, winner[y]) = a}}]
  BY DEF Auction
<1>3. ASSUME NEW x \in Conflicts
      PROVE  /\ winner[x] \in 1..2 /\ 3 - winner[x] \in 1..2
             /\ Loser(x, winner[x]) \in Agents
             /\ Verdict(x, winner[x]) \in Amendment
  <2>1. winner[x] \in 1..2 /\ 3 - winner[x] \in 1..2
    BY <1>2
  <2> QED
    BY <2>1, ConflictParties DEF Loser, Verdict, Amendment
<1>4. TypeOK'
  <2>1. round' \in 0..MaxRounds
    BY <1>1, RoundsAssumption DEF TypeOK
  <2>2. amended' \subseteq Agents
    BY <1>2, <1>3 DEF TypeOK
  <2>3. amendments' \in [Agents -> SUBSET Amendment]
    BY <1>2, <1>3 DEF TypeOK
  <2> QED
    BY <1>1, <2>1, <2>2, <2>3 DEF TypeOK
<1>5. LoopInv'
  BY <1>1 DEF LoopInv
<1>6. Judged'
  <2> SUFFICES ASSUME NEW x \in Conflicts
               PROVE  \E i \in 1..2 : x[i].agent \in amended'
    BY <1>1 DEF Judged
  <2>1. x[3 - winner[x]].agent \in amended'
    BY <1>2 DEF Loser
  <2> QED
    BY <2>1, <1>3
<1>7. LosersWereOutbid'
  <2> SUFFICES ASSUME NEW a \in Agents, NEW m \in amendments'[a]
               PROVE  /\ utility[m.winner] >= utility[a]
                      /\ \A b \in {a, m.winner} : \E e \in allocations :
                           e.agent = b /\ e.supply = m.supply
    BY <1>1 DEF LosersWereOutbid
  <2>1. CASE m \in amendments[a]
    BY <2>1 DEF LosersWereOutbid
  <2>2. CASE m \notin amendments[a]
    <3>1. PICK x \in Conflicts : Loser(x, winner[x]) = a /\ m = Verdict(x, winner[x])
      BY <1>2, <2>2
    <3>2. PICK i \in 1..2 : i = winner[x] /\ 3 - i \in 1..2
      BY <1>3
    <3>3. /\ a = x[3 - i].agent /\ m.winner = x[i].agent /\ m.supply = x[1].supply
      BY <3>1, <3>2 DEF Loser, Verdict
    <3>4. utility[m.winner] >= utility[a]
      <4>1. i \in PossibleWinners(x)
        BY <1>2, <3>2
      <4>2. Bid(x, i) = utility[m.winner] /\ Bid(x, 3 - i) = utility[a]
        BY <3>3 DEF Bid
      <4>3. Bid(x, i) > Bid(x, 3 - i) \/ Bid(x, i) = Bid(x, 3 - i)
        BY <4>1 DEF PossibleWinners
      <4>4. utility[m.winner] \in Int /\ utility[a] \in Int
        BY <3>2, <3>3, ConflictParties, UtilitiesAssumption DEF TypeOK
      <4> QED
        BY <4>2, <4>3, <4>4
    <3>5. /\ x[i] \in allocations /\ x[i].supply = m.supply
          /\ x[3 - i] \in allocations /\ x[3 - i].supply = m.supply
      BY <3>2, <3>3, ConflictParties
    <3> QED
      BY <3>3, <3>4, <3>5
  <2> QED
    BY <2>1, <2>2
<1> QED
  BY <1>4, <1>5, <1>6, <1>7

LEMMA NextPreservesIInv == IInv /\ [Next]_vars => IInv'
<1> SUFFICES ASSUME IInv, [Next]_vars PROVE IInv'
  OBVIOUS
<1> USE DEF IInv
<1>1. CASE RunRound /\ NoConflict /\ round' = NextRound
  <2>1. /\ Conflicts' = Conflicts /\ Conflicts = {}
        /\ UNCHANGED <<allocations, utility, final_plan, amended, amendments>>
        /\ result' = "resolved" /\ round' = round + 1 /\ round < MaxRounds
    BY <1>1 DEF RunRound, NoConflict, Conflicts, RoundsLeft, NextRound
  <2>2. TypeOK'
    BY <2>1, RoundsAssumption DEF TypeOK
  <2> QED
    BY <2>1, <2>2 DEF LoopInv, Judged, LosersWereOutbid
<1>2. CASE RunRound /\ Auction /\ round' = NextRound
  BY <1>2, AuctionPreservesIInv
<1>3. CASE Deadlock
  <2>1. /\ Conflicts' = Conflicts /\ result = "running" /\ result' = "deadlock"
        /\ UNCHANGED <<allocations, utility, round, final_plan, amended, amendments>>
    BY <1>3 DEF Deadlock, Conflicts
  <2>2. round > 0
    BY <1>3, RoundsAssumption DEF Deadlock, RoundsLeft, TypeOK
  <2> QED
    BY <2>1, <2>2 DEF TypeOK, LoopInv, Judged, LosersWereOutbid
<1>4. CASE Collect
  <2>1. /\ Conflicts' = Conflicts /\ final_plan' = allocations
        /\ UNCHANGED <<allocations, utility, round, result, amended, amendments>>
    BY <1>4 DEF Collect, Conflicts
  <2> QED
    BY <2>1 DEF TypeOK, LoopInv, Judged, LosersWereOutbid
<1>5. CASE RunRound /\ TiebreakerRaises
  <2>1. /\ Conflicts' = Conflicts /\ Conflicts # {} /\ result = "running" /\ result' = "failed"
        /\ UNCHANGED <<allocations, utility, round, final_plan, amended, amendments>>
    BY <1>5 DEF RunRound, TiebreakerRaises, Conflicts
  <2> QED
    BY <2>1 DEF TypeOK, LoopInv, Judged, LosersWereOutbid
<1>6. CASE UNCHANGED vars
  <2>1. Conflicts' = Conflicts
    BY <1>6 DEF vars, Conflicts
  <2> QED
    BY <1>6, <2>1 DEF vars, TypeOK, LoopInv, Judged, LosersWereOutbid
<1> QED
  BY <1>1, <1>2, <1>3, <1>4, <1>5, <1>6 DEF Next, RunRound

(* The strengthening implies the two properties that mention pairs. *)
LEMMA IInvSuffices == IInv => ResolvedMeansConflictFree /\ EveryConflictIsJudged
<1> SUFFICES ASSUME IInv PROVE ResolvedMeansConflictFree /\ EveryConflictIsJudged
  OBVIOUS
<1> USE DEF IInv
<1>1. result = "resolved" => \A e, f \in allocations : e.supply = f.supply => e = f
  BY TwoUsesConflict DEF LoopInv
<1>2. result = "deadlock" => \E e, f \in allocations : e # f /\ e.supply = f.supply
  <2> SUFFICES ASSUME result = "deadlock"
               PROVE  \E e, f \in allocations : e # f /\ e.supply = f.supply
    OBVIOUS
  <2>1. PICK x \in Conflicts : TRUE
    BY DEF LoopInv
  <2>2. /\ x[1] \in allocations /\ x[2] \in allocations
        /\ x[1] # x[2] /\ x[1].supply = x[2].supply
    BY ConflictParties
  <2> QED
    BY <2>2
<1>3. EveryConflictIsJudged
  <2> SUFFICES ASSUME round > 0, NEW e \in allocations, NEW f \in allocations,
                      e.supply = f.supply, e # f
               PROVE  e.agent \in amended \/ f.agent \in amended
    BY DEF EveryConflictIsJudged
  <2>1. PICK x \in Conflicts : x = <<e, f>> \/ x = <<f, e>>
    BY TwoUsesConflict
  <2>2. x[1].agent \in amended \/ x[2].agent \in amended
    BY DEF Judged
  <2> QED
    BY <2>1, <2>2
<1> QED
  BY <1>1, <1>2, <1>3 DEF ResolvedMeansConflictFree

LEMMA IInvHolds == Spec => []IInv
<1> QED
  BY InitEstablishesIInv, NextPreservesIInv, PTL DEF Spec

(***************************************************************************)
(* The negotiation's state keeps its types; in particular resolve() runs   *)
(* max_rounds rounds at most (224).                                        *)
(***************************************************************************)
THEOREM TypeCorrect == Spec => []TypeOK
<1>1. IInv => TypeOK
  BY DEF IInv
<1> QED
  BY <1>1, IInvHolds, PTL

(***************************************************************************)
(* resolved and deadlock, as node_negotiate reports them, are true of the  *)
(* proposals.                                                              *)
(***************************************************************************)
THEOREM VerdictIsRight == Spec => []ResolvedMeansConflictFree
<1> QED
  BY IInvHolds, IInvSuffices, PTL

(***************************************************************************)
(* Every conflict leaves the proposal of one of its parties amended (305). *)
(***************************************************************************)
THEOREM ConflictsAreJudged == Spec => []EveryConflictIsJudged
<1> QED
  BY IInvHolds, IInvSuffices, PTL

(***************************************************************************)
(* An amendment never names a winner that bid less than the loser, or a    *)
(* supply that one of the two does not use (286-311).                      *)
(***************************************************************************)
THEOREM AuctionIsFair == Spec => []LosersWereOutbid
<1>1. IInv => LosersWereOutbid
  BY DEF IInv
<1> QED
  BY <1>1, IInvHolds, PTL
-----------------------------------------------------------------------------
(* Refinement *)

(* A conflict is a clash, in one of the two orders in which it is stated. *)
LEMMA ConflictsAreClashes ==
    ASSUME TypeOK
    PROVE  /\ \A x \in Conflicts : x \in Promise!Clashes
           /\ \A y \in Promise!Clashes : <<y[1], y[2]>> \in Conflicts \/ <<y[2], y[1]>> \in Conflicts
<1>1. ASSUME NEW x \in Conflicts PROVE x \in Promise!Clashes
  BY ConflictParties DEF Promise!Clashes, Conflicts
<1>2. ASSUME NEW y \in Promise!Clashes
      PROVE  <<y[1], y[2]>> \in Conflicts \/ <<y[2], y[1]>> \in Conflicts
  <2>1. y[1] \in allocations /\ y[2] \in allocations /\ y[1] # y[2] /\ y[1].supply = y[2].supply
    BY DEF Promise!Clashes
  <2> QED
    BY <2>1, TwoUsesConflict
<1> QED
  BY <1>1, <1>2

(* Nobody can win exactly the ties of two agents without weight. *)
LEMMA NoWinner ==
    ASSUME TypeOK, NEW x \in Conflicts
    PROVE  PossibleWinners(x) = {} <=> Promise!Unwinnable(x)
<1>1. /\ x[1].agent \in Agents /\ x[2].agent \in Agents
      /\ utility[x[1].agent] \in Int /\ utility[x[2].agent] \in Int
  <2>1. \A i \in 1..2 : x[i].agent \in Agents
    BY ConflictParties
  <2>2. x[1].agent \in Agents /\ x[2].agent \in Agents
    BY <2>1
  <2> QED
    BY <2>2, UtilitiesAssumption DEF TypeOK
<1>2. \A i \in 1..2 : i \in PossibleWinners(x) <=>
         \/ Bid(x, i) > Bid(x, 3 - i)
         \/ Bid(x, i) = Bid(x, 3 - i) /\ x[i].agent \notin Weightless
  BY DEF PossibleWinners
<1>3. /\ Bid(x, 1) = utility[x[1].agent] /\ Bid(x, 2) = utility[x[2].agent]
      /\ 3 - 1 = 2 /\ 3 - 2 = 1 /\ 1 \in 1..2 /\ 2 \in 1..2
  BY DEF Bid
<1>4. /\ 1 \in PossibleWinners(x) <=>
           \/ utility[x[1].agent] > utility[x[2].agent]
           \/ utility[x[1].agent] = utility[x[2].agent] /\ x[1].agent \notin Weightless
      /\ 2 \in PossibleWinners(x) <=>
           \/ utility[x[2].agent] > utility[x[1].agent]
           \/ utility[x[2].agent] = utility[x[1].agent] /\ x[2].agent \notin Weightless
  BY <1>2, <1>3
<1>5. PossibleWinners(x) = {} <=> 1 \notin PossibleWinners(x) /\ 2 \notin PossibleWinners(x)
  <2>1. PossibleWinners(x) \subseteq {1, 2}
    BY DEF PossibleWinners
  <2> QED
    BY <2>1
<1> QED
  BY <1>1, <1>4, <1>5 DEF Promise!Unwinnable

(* What the loop looks for decides the verdict. *)
LEMMA VerdictOfTheConflicts ==
    ASSUME TypeOK
    PROVE  Promise!RightVerdict =
             IF Conflicts = {} THEN "resolved"
             ELSE IF \E x \in Conflicts : PossibleWinners(x) = {} THEN "failed" ELSE "deadlock"
<1>1. Conflicts = {} <=> Promise!Clashes = {}
  BY ConflictsAreClashes
<1>2. ASSUME NEW x \in Conflicts, PossibleWinners(x) = {}
      PROVE  \E y \in Promise!Clashes : Promise!Unwinnable(y)
  BY <1>2, ConflictsAreClashes, NoWinner
<1>3. ASSUME NEW y \in Promise!Clashes, Promise!Unwinnable(y)
      PROVE  \E x \in Conflicts : PossibleWinners(x) = {}
  <2>1. PICK x \in Conflicts : x = <<y[1], y[2]>> \/ x = <<y[2], y[1]>>
    BY ConflictsAreClashes
  <2>2. Promise!Unwinnable(x)
    BY <1>3, <2>1 DEF Promise!Unwinnable
  <2> QED
    BY <2>2, NoWinner
<1> QED
  BY <1>1, <1>2, <1>3 DEF Promise!RightVerdict

(* An auction is held only when every conflict has a possible winner. *)
Winnable ==
    result = "running" /\ round > 0 => \A x \in Conflicts : PossibleWinners(x) # {}

(* A step of the loop decides, hands the plan on, or changes nothing that  *)
(* the promise speaks of.                                                  *)
LEMMA LoopRefines ==
    ASSUME IInv, Winnable, [Next]_vars
    PROVE  Winnable' /\ [Promise!Next]_(Promise!vars)
<1> USE DEF IInv
<1>1. allocations' = allocations /\ utility' = utility
  BY DEF Next, RunRound, Deadlock, Collect, vars
<1>2. Conflicts' = Conflicts /\ \A x : PossibleWinners(x)' = PossibleWinners(x)
  BY <1>1 DEF Conflicts, PossibleWinners, Bid
<1>3. CASE RunRound /\ NoConflict
  <2>1. /\ result = "running" /\ Conflicts = {} /\ result' = "resolved"
        /\ final_plan' = final_plan
    BY <1>3 DEF RunRound, NoConflict
  <2>2. result' = Promise!RightVerdict
    BY <2>1, VerdictOfTheConflicts
  <2> QED
    BY <1>1, <2>1, <2>2 DEF Winnable, Promise!Next, Promise!Decide
<1>4. CASE RunRound /\ Auction
  <2>1. PICK winner \in [Conflicts -> 1..2] :
          \A x \in Conflicts : winner[x] \in PossibleWinners(x)
    BY <1>4 DEF Auction
  <2>2. Winnable'
    BY <1>2, <2>1 DEF Winnable
  <2>3. result' = result /\ final_plan' = final_plan
    BY <1>4 DEF RunRound, Auction
  <2> QED
    BY <1>1, <2>2, <2>3 DEF Promise!vars
<1>5. CASE RunRound /\ TiebreakerRaises
  <2>1. /\ result = "running" /\ result' = "failed" /\ final_plan' = final_plan
        /\ \E x \in Conflicts : PossibleWinners(x) = {}
    BY <1>5 DEF RunRound, TiebreakerRaises
  <2>2. result' = Promise!RightVerdict
    BY <2>1, VerdictOfTheConflicts
  <2> QED
    BY <1>1, <2>1, <2>2 DEF Winnable, Promise!Next, Promise!Decide
<1>6. CASE Deadlock
  <2>1. result = "running" /\ result' = "deadlock" /\ final_plan' = final_plan /\ ~(round < MaxRounds)
    BY <1>6 DEF Deadlock, RoundsLeft
  <2>2. round > 0
    BY <2>1, RoundsAssumption DEF TypeOK
  <2>3. Conflicts # {} /\ \A x \in Conflicts : PossibleWinners(x) # {}
    BY <2>1, <2>2 DEF LoopInv, Winnable
  <2>4. result' = Promise!RightVerdict
    BY <2>1, <2>3, VerdictOfTheConflicts
  <2> QED
    BY <1>1, <2>1, <2>4 DEF Winnable, Promise!Next, Promise!Decide
<1>7. CASE Collect
  BY <1>1, <1>7 DEF Collect, Winnable, Promise!Next, Promise!HandOn
<1>8. CASE UNCHANGED vars
  BY <1>2, <1>8 DEF vars, Winnable, Promise!vars
<1> QED
  BY <1>3, <1>4, <1>5, <1>6, <1>7, <1>8 DEF Next, RunRound

(***************************************************************************)
(* The verdict is a function of the proposals: neither max_rounds nor the  *)
(* coins nor the order of the conflicts has a say in it (224-251).         *)
(***************************************************************************)
THEOREM VerdictIsAFunction == Spec => ImplementsNegotiation
<1>1. Init => Winnable /\ Promise!Init
  BY DEF Init, Winnable, Promise!Init
<1>2. IInv /\ Winnable /\ [Next]_vars => Winnable' /\ [Promise!Next]_(Promise!vars)
  BY LoopRefines
<1> QED
  BY <1>1, <1>2, IInvHolds, PTL DEF Spec, ImplementsNegotiation, Promise!Spec

-----------------------------------------------------------------------------
(* Progress *)

(* Steps that are left: the rounds, the verdict, the plan. *)
StepsLeft ==
    IF result = "running" THEN MaxRounds - round + 2
    ELSE IF result \in {"resolved", "deadlock"} /\ final_plan # allocations THEN 1 ELSE 0

(***************************************************************************)
(* Whatever the proposals and the coins, each step of a negotiation brings *)
(* it nearer to its end: it takes at most max_rounds + 2 (224-251).        *)
(***************************************************************************)
THEOREM NegotiationIsBounded ==
    Spec => [](StepsLeft \in 0..(MaxRounds + 2)) /\ [][StepsLeft' < StepsLeft]_vars
<1>1. IInv => StepsLeft \in 0..(MaxRounds + 2)
  <2> SUFFICES ASSUME IInv PROVE StepsLeft \in 0..(MaxRounds + 2)
    OBVIOUS
  <2>1. round \in Nat /\ round <= MaxRounds /\ MaxRounds \in Nat
    BY RoundsAssumption DEF IInv, TypeOK
  <2> QED
    BY <2>1 DEF StepsLeft
<1>2. IInv /\ IInv' /\ [Next]_vars => [StepsLeft' < StepsLeft]_vars
  <2> SUFFICES ASSUME IInv, IInv', Next PROVE StepsLeft' < StepsLeft
    OBVIOUS
  <2>1. round \in Nat /\ round <= MaxRounds /\ MaxRounds \in Nat
    BY RoundsAssumption DEF IInv, TypeOK
  <2>2. CASE RunRound
    BY <2>1, <2>2 DEF RunRound, RoundsLeft, NextRound, NoConflict, Auction, TiebreakerRaises, StepsLeft
  <2>3. CASE Deadlock
    BY <2>1, <2>3 DEF Deadlock, RoundsLeft, StepsLeft
  <2>4. CASE Collect
    BY <2>1, <2>4 DEF Collect, StepsLeft
  <2> QED
    BY <2>2, <2>3, <2>4 DEF Next
<1>3. IInv /\ [Next]_vars => IInv'
  BY NextPreservesIInv
<1> QED
  BY <1>1, <1>2, <1>3, IInvHolds, PTL DEF Spec
=============================================================================
