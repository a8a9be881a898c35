---------------------------- MODULE DelphiProofs ----------------------------
(***************************************************************************)
(* What is proved about the Delphi workflow, for every registry, every set *)
(* of texts, every similarity and every bound.                             *)
(***************************************************************************)
EXTENDS DelphiProperties, FiniteSetTheorems, SequenceTheorems,
        WellFoundedInduction, TLAPS

-----------------------------------------------------------------------------
(***************************************************************************)
(* The tables.                                                             *)
(***************************************************************************)
\* Latest of a non-empty set of row numbers is a member of it, the largest one.
LEMMA LatestIsMember ==
    ASSUME NEW n \in Nat, NEW S \in SUBSET (1..n), S # {}
    PROVE  Latest(S) \in S /\ \A y \in S : y <= Latest(S)
<1> DEFINE T == {n - x : x \in S}
<1>1. T \subseteq Nat /\ T # {}
  OBVIOUS
<1>2. PICK m \in T : \A y \in T : ~(<<y, m>> \in OpToRel(<, Nat))
  BY <1>1, WFMin, NatLessThanWellFounded
<1>3. \A y \in T : m <= y
  <2> SUFFICES ASSUME NEW y \in T, y < m
               PROVE  FALSE
    BY <1>1
  <2>1. LET p == <<y, m>> IN p \in Nat \X Nat /\ p[1] < p[2]
    BY <1>1
  <2>2. <<y, m>> \in OpToRel(<, Nat)
    BY <2>1 DEF OpToRel
  <2> QED
    BY <1>2, <2>2
<1>4. PICK x \in S : m = n - x
  OBVIOUS
<1>5. ASSUME NEW y \in S
      PROVE  y <= x
  <2>1. n - y \in T
    OBVIOUS
  <2> QED
    BY <1>3, <1>4, <2>1
<1>6. \E z \in S : \A y \in S : y <= z
  BY <1>5
<1> QED
  BY <1>6 DEF Latest

\* Every pair round has a host with the two workers the relay needs.
Manned(rs) ==
    \A r \in DOMAIN rs : rs[r].type = "same_host_pair" =>
        rs[r].host \in Hosts /\ Len(Workers[rs[r].host]) = 2

\* Well-formed tables: typed rows, no dangling reference, pair rounds manned.
Tables(rs, t) ==
    /\ rs \in Seq(Round)
    /\ t \in Seq(Iteration)
    /\ \A i \in DOMAIN t : t[i].round \in DOMAIN rs
    /\ Manned(rs)

\* s2 is s with rows added.
Extends(s, s2) ==
    /\ Len(s) <= Len(s2)
    /\ \A k \in DOMAIN s : s2[k] = s[k]

LEMMA LatestAnswerIsText ==
    ASSUME NEW t \in Seq(Iteration), NEW r, Answered(t, r) # {}
    PROVE  /\ LatestAnswered(t, r) \in DOMAIN t
           /\ t[LatestAnswered(t, r)].round = r
           /\ t[LatestAnswered(t, r)].output \in Texts
<1>1. Len(t) \in Nat /\ Answered(t, r) \in SUBSET (1..Len(t))
  BY DEF Answered, IterationsOf
<1>2. LatestAnswered(t, r) \in Answered(t, r)
  BY <1>1, LatestIsMember DEF LatestAnswered
<1>3. LatestAnswered(t, r) \in DOMAIN t /\ t[LatestAnswered(t, r)] \in Iteration
  BY <1>1, <1>2
<1> QED
  BY <1>2, <1>3 DEF Answered, IterationsOf, Iteration

LEMMA NextNumIsPositive ==
    ASSUME NEW t \in Seq(Iteration), NEW r
    PROVE  NextNum(t, r) \in Nat \ {0}
<1>1. CASE IterationsOf(t, r) = {}
  BY <1>1 DEF NextNum
<1>2. CASE IterationsOf(t, r) # {}
  <2>1. Len(t) \in Nat /\ IterationsOf(t, r) \in SUBSET (1..Len(t))
    BY DEF IterationsOf
  <2>2. Latest(IterationsOf(t, r)) \in 1..Len(t)
    BY <1>2, <2>1, LatestIsMember
  <2>3. t[Latest(IterationsOf(t, r))] \in Iteration
    BY <2>2
  <2>4. t[Latest(IterationsOf(t, r))].num \in Nat
    BY <2>3 DEF Iteration
  <2> QED
    BY <1>2, <2>4 DEF NextNum
<1> QED
  BY <1>1, <1>2

LEMMA Round2OutcomeIsText ==
    ASSUME NEW rs \in Seq(Round)
    PROVE  Round2Outcome(rs) \in Texts \cup {None}
<1> DEFINE S == RoundsOfType(rs, "cross_host_arbitration")
<1>1. CASE S = {}
  BY <1>1 DEF Round2Outcome
<1>2. CASE S # {}
  <2>1. Len(rs) \in Nat /\ S \in SUBSET (1..Len(rs))
    BY DEF RoundsOfType
  <2>2. Latest(S) \in 1..Len(rs)
    BY <1>2, <2>1, LatestIsMember
  <2>3. rs[Latest(S)] \in Round
    BY <2>2
  <2>4. rs[Latest(S)].outcome \in Texts \cup {None}
    BY <2>3 DEF Round
  <2> QED
    BY <1>2, <2>4 DEF Round2Outcome
<1> QED
  BY <1>1, <1>2

LEMMA NewRoundIsRound ==
    ASSUME NEW type \in RoundTypes, NEW h \in Hosts \cup {None}
    PROVE  NewRound(type, h) \in Round
BY DEF NewRound, Round, RoundStatuses

LEMMA NewIterationIsIteration ==
    ASSUME NEW r \in Nat \ {0}, NEW n \in Nat \ {0}, NEW src \in Agents \cup {None},
           NEW dst \in Agents, NEW input \in Inputs
    PROVE  NewIteration(r, n, src, dst, input) \in Iteration
BY DEF NewIteration, Iteration, IterationStatuses

LEMMA AddRound ==
    ASSUME NEW rs, NEW t, Tables(rs, t), NEW rd \in Round,
           rd.type # "same_host_pair"
    PROVE  /\ Tables(Append(rs, rd), t)
           /\ Extends(rs, Append(rs, rd))
           /\ Len(Append(rs, rd)) = Len(rs) + 1
BY DEF Tables, Manned, Extends

LEMMA AddIteration ==
    ASSUME NEW rs, NEW t, Tables(rs, t), NEW r \in DOMAIN rs,
           NEW src \in Agents \cup {None}, NEW dst \in Agents, NEW input \in Inputs
    PROVE  /\ Tables(rs, SpawnIteration(t, r, src, dst, input))
           /\ Extends(t, SpawnIteration(t, r, src, dst, input))
<1> DEFINE it == NewIteration(r, NextNum(t, r), src, dst, input)
<1>1. t \in Seq(Iteration) /\ r \in Nat \ {0}
  BY DEF Tables
<1>2. it \in Iteration /\ it.round = r
  BY <1>1, NextNumIsPositive, NewIterationIsIteration DEF NewIteration
<1> HIDE DEF it
<1>3. Tables(rs, Append(t, it)) /\ Extends(t, Append(t, it))
  BY <1>1, <1>2 DEF Tables, Extends
<1> QED
  BY <1>3 DEF SpawnIteration, it

LEMMA AddIterations ==
    ASSUME NEW rs, NEW t, Tables(rs, t), NEW n \in Nat, NEW u \in [1..n -> Iteration],
           \A k \in 1..n : u[k].round \in DOMAIN rs
    PROVE  Tables(rs, t \o u) /\ Extends(t, t \o u)
<1>1. t \in Seq(Iteration) /\ u \in Seq(Iteration) /\ Len(u) = n
  BY DEF Tables
<1>2. /\ t \o u \in Seq(Iteration)
      /\ Len(t \o u) = Len(t) + n
      /\ \A k \in 1..(Len(t) + n) :
             (t \o u)[k] = IF k <= Len(t) THEN t[k] ELSE u[k - Len(t)]
  BY <1>1, ConcatProperties
<1>3. \A k \in DOMAIN (t \o u) : (t \o u)[k].round \in DOMAIN rs
  <2> SUFFICES ASSUME NEW k \in 1..(Len(t) + n)
               PROVE  (t \o u)[k].round \in DOMAIN rs
    BY <1>1, <1>2
  <2>1. CASE k <= Len(t)
    BY <1>1, <1>2, <2>1 DEF Tables
  <2>2. CASE k > Len(t)
    BY <1>1, <1>2, <2>2
  <2> QED
    BY <1>1, <2>1, <2>2
<1>4. Tables(rs, t \o u)
  BY <1>1, <1>2, <1>3 DEF Tables
<1>5. Extends(t, t \o u)
  BY <1>1, <1>2 DEF Extends
<1> QED
  BY <1>4, <1>5

-----------------------------------------------------------------------------
(***************************************************************************)
(* Spawning.  Each lemma says that the tables stay well formed and that    *)
(* the rows written so far are kept.                                       *)
(***************************************************************************)
Kept(rs, t) ==
    /\ Tables(rounds', iters')
    /\ Len(rs) <= Len(rounds')
    /\ Extends(t, iters')
    /\ session' \in SessionStatuses

LEMMA SubsetOfInterval ==
    ASSUME NEW m \in Nat, NEW S \in SUBSET (1..m)
    PROVE  IsFiniteSet(S) /\ Cardinality(S) \in Nat /\ Cardinality(S) <= m
<1>1. IsFiniteSet(1..m) /\ Cardinality(1..m) = m
  BY FS_Interval
<1>2. IsFiniteSet(S) /\ Cardinality(S) <= m
  BY <1>1, FS_Subset
<1> QED
  BY <1>2, FS_CardinalityType

\* The ready hosts are the first ones.
LEMMA ReadyHostsArePrefix ==
    /\ Cardinality(ReadyHosts) \in 0..Len(HostOrder)
    /\ \A k \in 1..Cardinality(ReadyHosts) :
           k \in DOMAIN HostOrder /\ Len(Workers[HostOrder[k]]) = 2
<1> DEFINE n == Cardinality(ReadyHosts)
<1>1. HostOrder \in Seq(Hosts) /\ Len(HostOrder) \in Nat
  BY RegistryAssumption
<1>2. ReadyHosts \in SUBSET (1..Len(HostOrder))
  BY <1>1 DEF ReadyHosts
<1>3. IsFiniteSet(ReadyHosts) /\ n \in Nat /\ n <= Len(HostOrder)
  BY <1>1, <1>2, SubsetOfInterval
<1>4. ASSUME NEW k \in 1..n, k \notin ReadyHosts
      PROVE  FALSE
  <2>1. \A j \in ReadyHosts : j < k
    BY <1>1, <1>2, <1>3, <1>4 DEF ReadyHosts
  <2>2. k - 1 \in Nat /\ ReadyHosts \in SUBSET (1..(k - 1))
    BY <1>2, <1>3, <2>1
  <2>3. n <= k - 1
    BY <2>2, SubsetOfInterval
  <2> QED
    BY <1>3, <2>3
<1>5. \A k \in ReadyHosts : k \in DOMAIN HostOrder /\ Len(Workers[HostOrder[k]]) = 2
  BY <1>1 DEF ReadyHosts
<1> QED
  BY <1>1, <1>3, <1>4, <1>5

LEMMA SpawnRound1Keeps ==
    ASSUME NEW rs, NEW t, Tables(rs, t), NEW input \in Inputs,
           NEW status \in SessionStatuses, SpawnRound1(rs, t, input, status)
    PROVE  Kept(rs, t)
<1> DEFINE n == Cardinality(ReadyHosts)
           p == [k \in 1..n |-> NewRound("same_host_pair", HostOrder[k])]
           u == [k \in 1..n |-> NewIteration(Len(rs) + k, 1, None,
                                             Workers[HostOrder[k]][1], input)]
<1>1. rounds' = rs \o p /\ iters' = t \o u /\ session' \in SessionStatuses
  BY DEF SpawnRound1, SessionStatuses
<1>2. n \in Nat /\ \A k \in 1..n : HostOrder[k] \in Hosts /\ Len(Workers[HostOrder[k]]) = 2
  BY ReadyHostsArePrefix, RegistryAssumption
<1>3. rs \in Seq(Round) /\ Len(rs) \in Nat
  BY DEF Tables
<1>4. \A k \in 1..n : Workers[HostOrder[k]][1] \in AllWorkers
  BY <1>2, RegistryAssumption
<1>5. \A k \in 1..n : /\ p[k] \in Round
                      /\ p[k].host \in Hosts
                      /\ Len(Workers[p[k].host]) = 2
  BY <1>2, NewRoundIsRound DEF NewRound, RoundTypes
<1>6. \A k \in 1..n : u[k] \in Iteration /\ u[k].round = Len(rs) + k
  <2> SUFFICES ASSUME NEW k \in 1..n
               PROVE  u[k] \in Iteration /\ u[k].round = Len(rs) + k
    OBVIOUS
  <2>1. u[k] = NewIteration(Len(rs) + k, 1, None, Workers[HostOrder[k]][1], input)
    OBVIOUS
  <2>2. Len(rs) + k \in Nat \ {0} /\ Workers[HostOrder[k]][1] \in Agents
    BY <1>2, <1>3, <1>4 DEF Agents
  <2>3. NewIteration(Len(rs) + k, 1, None, Workers[HostOrder[k]][1], input) \in Iteration
    <3> DEFINE w == Workers[HostOrder[k]][1]
               q == Len(rs) + k
    <3>1. w \in Agents /\ q \in Nat \ {0} /\ None \in Agents \cup {None} /\ 1 \in Nat \ {0}
      BY <2>2
    <3> HIDE DEF w, q
    <3>2. NewIteration(q, 1, None, w, input) \in Iteration
      BY <3>1, NewIterationIsIteration
    <3> QED
      BY <3>2 DEF w, q
  <2> QED
    BY <2>1, <2>3 DEF NewIteration
<1>7. p \in Seq(Round) /\ Len(p) = n
  BY <1>2, <1>5
<1>8. u \in [1..n -> Iteration]
  BY <1>6
<1> DEFINE cat == rs \o p
<1> HIDE DEF p, u
<1>9. /\ cat \in Seq(Round)
      /\ Len(cat) = Len(rs) + n
      /\ \A k \in 1..(Len(rs) + n) :
             cat[k] = IF k <= Len(rs) THEN rs[k] ELSE p[k - Len(rs)]
  BY <1>3, <1>7, ConcatProperties
<1> HIDE DEF cat
<1>10. Manned(cat)
  <2> SUFFICES ASSUME NEW k \in 1..(Len(rs) + n), cat[k].type = "same_host_pair"
               PROVE  cat[k].host \in Hosts /\ Len(Workers[cat[k].host]) = 2
    BY <1>2, <1>3, <1>9 DEF Manned
  <2>1. CASE k <= Len(rs)
    <3>1. k \in DOMAIN rs /\ cat[k] = rs[k]
      BY <1>2, <1>3, <1>9, <2>1
    <3> QED
      BY <3>1 DEF Tables, Manned
  <2>2. CASE k > Len(rs)
    <3>1. k - Len(rs) \in 1..n /\ cat[k] = p[k - Len(rs)]
      BY <1>2, <1>3, <1>9, <2>2
    <3> QED
      BY <1>5, <3>1
  <2>3. k \in Int /\ Len(rs) \in Int
    BY <1>2, <1>3
  <2> QED
    BY <2>1, <2>2, <2>3
<1>11. Tables(cat, t)
  BY <1>2, <1>3, <1>9, <1>10 DEF Tables
<1>12. \A k \in 1..n : u[k].round \in DOMAIN cat
  BY <1>2, <1>3, <1>6, <1>9
<1>13. Tables(cat, t \o u) /\ Extends(t, t \o u)
  BY <1>2, <1>8, <1>11, <1>12, AddIterations
<1> QED
  BY <1>1, <1>2, <1>3, <1>9, <1>13 DEF Kept, cat

LEMMA SpawnRound2Keeps ==
    ASSUME NEW rs, NEW t, Tables(rs, t), NEW input \in Inputs,
           SpawnRound2(rs, t, input)
    PROVE  Kept(rs, t)
<1> DEFINE rd == NewRound("cross_host_arbitration", None)
<1>1. rd \in Round /\ rd.type = "cross_host_arbitration"
  BY NewRoundIsRound DEF NewRound, RoundTypes
<1> HIDE DEF rd
<1>2. Tables(Append(rs, rd), t) /\ Len(Append(rs, rd)) = Len(rs) + 1
  BY <1>1, AddRound
<1>3. Len(rs) \in Nat /\ Len(rs) + 1 \in DOMAIN Append(rs, rd)
  BY <1>2 DEF Tables
<1>4. /\ Tables(Append(rs, rd), SpawnIteration(t, Len(rs) + 1, None, Arbitrator, input))
      /\ Extends(t, SpawnIteration(t, Len(rs) + 1, None, Arbitrator, input))
  BY <1>2, <1>3, AddIteration DEF Agents
<1> QED
  BY <1>2, <1>3, <1>4 DEF SpawnRound2, Kept, SessionStatuses, rd

LEMMA SpawnExecuteRoundKeeps ==
    ASSUME NEW rs, NEW t, Tables(rs, t), session \in SessionStatuses,
           SpawnExecuteRound(rs, t)
    PROVE  Kept(rs, t)
<1> DEFINE rd == NewRound("execute", None)
           input == Draft(Round2Outcome(rs))
<1>1. rd \in Round /\ rd.type = "execute"
  BY NewRoundIsRound DEF NewRound, RoundTypes
<1>2. rounds' = Append(rs, rd)
  BY DEF SpawnExecuteRound
<1> HIDE DEF rd
<1>3. Tables(Append(rs, rd), t) /\ Len(Append(rs, rd)) = Len(rs) + 1
  BY <1>1, AddRound
<1>4. Len(rs) \in Nat /\ Len(rs) + 1 \in DOMAIN Append(rs, rd)
  BY <1>3 DEF Tables
<1>5. CASE Round2Outcome(rs) = None
  BY <1>2, <1>3, <1>4, <1>5 DEF SpawnExecuteRound, Kept, Tables, Extends
<1>6. CASE Round2Outcome(rs) # None
  <2>1. Round2Outcome(rs) \in Texts
    BY <1>6, Round2OutcomeIsText DEF Tables
  <2>2. input \in Inputs
    BY <2>1 DEF Inputs
  <2> HIDE DEF input
  <2>3. /\ Tables(Append(rs, rd), SpawnIteration(t, Len(rs) + 1, None, Executor, input))
        /\ Extends(t, SpawnIteration(t, Len(rs) + 1, None, Executor, input))
    BY <1>3, <1>4, <2>2, AddIteration DEF Agents
  <2> QED
    BY <1>2, <1>3, <1>4, <1>6, <2>3 DEF SpawnExecuteRound, Kept, SessionStatuses, input
<1> QED
  BY <1>5, <1>6

LEMMA SpawnRound3Keeps ==
    ASSUME NEW rs, NEW t, Tables(rs, t), NEW input \in Inputs,
           SpawnRound3(rs, t, input)
    PROVE  Kept(rs, t)
<1> DEFINE n == Cardinality(ExpectedReviewers)
           rd == NewRound("multi_agent_review", None)
<1>1. PICK order \in [1..n -> ExpectedReviewers] :
          /\ rounds' = Append(rs, rd)
          /\ iters' = t \o [k \in DOMAIN order |->
                               NewIteration(Len(rs) + 1, k, None, order[k], input)]
          /\ session' = "round_3"
  BY DEF SpawnRound3
<1> DEFINE u == [k \in 1..n |-> NewIteration(Len(rs) + 1, k, None, order[k], input)]
<1>2. rounds' = Append(rs, rd) /\ iters' = t \o u /\ session' = "round_3"
  BY <1>1
<1>3. n \in Nat
  <2>1. IsFiniteSet(ExpectedReviewers)
    BY RegistryAssumption, FS_Subset DEF ExpectedReviewers
  <2> QED
    BY <2>1, FS_CardinalityType
<1>4. rd \in Round /\ rd.type = "multi_agent_review"
  BY NewRoundIsRound DEF NewRound, RoundTypes
<1> HIDE DEF rd
<1>5. Tables(Append(rs, rd), t) /\ Len(Append(rs, rd)) = Len(rs) + 1
  BY <1>4, AddRound
<1>6. Len(rs) \in Nat /\ Len(rs) + 1 \in DOMAIN Append(rs, rd)
  BY <1>5 DEF Tables
<1>7. \A k \in 1..n : u[k] \in Iteration /\ u[k].round = Len(rs) + 1
  <2> SUFFICES ASSUME NEW k \in 1..n
               PROVE  u[k] \in Iteration /\ u[k].round = Len(rs) + 1
    OBVIOUS
  <2> DEFINE w == order[k]
             q == Len(rs) + 1
  <2>1. u[k] = NewIteration(q, k, None, w, input)
    OBVIOUS
  <2>2. w \in Agents
    BY <1>1 DEF ExpectedReviewers, Agents
  <2>3. q \in Nat \ {0} /\ k \in Nat \ {0} /\ None \in Agents \cup {None}
    BY <1>3, <1>6
  <2> HIDE DEF w, q
  <2>4. NewIteration(q, k, None, w, input) \in Iteration
    BY <2>2, <2>3, NewIterationIsIteration
  <2> QED
    BY <2>1, <2>4 DEF NewIteration, q
<1>8. u \in [1..n -> Iteration]
  BY <1>7
<1> HIDE DEF u
<1>9. Tables(Append(rs, rd), t \o u) /\ Extends(t, t \o u)
  BY <1>3, <1>5, <1>6, <1>7, <1>8, AddIterations
<1> QED
  BY <1>2, <1>5, <1>6, <1>9 DEF Kept, SessionStatuses

\* What the hosts came up with is a map from hosts to texts.
LEMMA OutcomesAreInput ==
    ASSUME NEW rs \in Seq(Round), Manned(rs)
    PROVE  ArbitratorInput(RoundOutcomesPerHost(rs)) \in Inputs
<1> DEFINE P == RoundsOfType(rs, "same_host_pair")
           H == {rs[r].host : r \in P}
<1>1. Len(rs) \in Nat /\ P \in SUBSET (1..Len(rs))
  BY DEF RoundsOfType
<1>2. H \in SUBSET Hosts
  BY <1>1 DEF Manned, RoundsOfType
<1>3. ASSUME NEW h \in H
      PROVE  rs[Latest(PairRoundsOn(rs, h))].outcome \in Texts \cup {None}
  <2>1. PairRoundsOn(rs, h) \in SUBSET (1..Len(rs)) /\ PairRoundsOn(rs, h) # {}
    BY <1>1 DEF PairRoundsOn
  <2>2. Latest(PairRoundsOn(rs, h)) \in 1..Len(rs)
    BY <1>1, <2>1, LatestIsMember
  <2>3. rs[Latest(PairRoundsOn(rs, h))] \in Round
    BY <2>2
  <2> QED
    BY <2>3 DEF Round
<1>4. RoundOutcomesPerHost(rs) \in [H -> Texts \cup {None}]
  BY <1>3 DEF RoundOutcomesPerHost
<1> HIDE DEF H
<1>5. RoundOutcomesPerHost(rs) \in UNION {[G -> Texts \cup {None}] : G \in SUBSET Hosts}
  BY <1>2, <1>4
<1> QED
  BY <1>5 DEF Inputs

LEMMA MaybeAdvanceKeeps ==
    ASSUME NEW rs, NEW t, Tables(rs, t), session \in SessionStatuses,
           MaybeAdvanceToRound2(rs, t)
    PROVE  Kept(rs, t)
<1> DEFINE input == ArbitratorInput(RoundOutcomesPerHost(rs))
<1>1. rs \in Seq(Round) /\ Manned(rs) /\ t \in Seq(Iteration) /\ Len(t) \in Nat /\ Len(rs) \in Nat
  BY DEF Tables
<1>2. \/ rounds' = rs /\ iters' = t /\ session' \in {session, "escalated"}
      \/ SpawnRound2(rs, t, input)
  BY DEF MaybeAdvanceToRound2
<1>3. CASE rounds' = rs /\ iters' = t /\ session' \in {session, "escalated"}
  BY <1>1, <1>3 DEF Kept, Extends, SessionStatuses
<1>4. CASE SpawnRound2(rs, t, input)
  <2>1. input \in Inputs
    BY <1>1, OutcomesAreInput
  <2> QED
    BY <1>4, <2>1, SpawnRound2Keeps
<1> QED
  BY <1>2, <1>3, <1>4

-----------------------------------------------------------------------------
(***************************************************************************)
(* Single rows.                                                            *)
(***************************************************************************)
\* t2 has every row of t, and the completed ones unchanged.
KeepsAnswers(t, t2) ==
    /\ Len(t) <= Len(t2)
    /\ \A i \in DOMAIN t : t[i].status = "complete" => t2[i] = t[i]

LEMMA UpdateRoundKeeps ==
    ASSUME NEW rs, NEW t, Tables(rs, t), NEW r \in DOMAIN rs,
           NEW status \in RoundStatuses, NEW outcome \in Texts \cup {None}
    PROVE  /\ Tables(UpdateRound(rs, r, status, outcome), t)
           /\ Len(UpdateRound(rs, r, status, outcome)) = Len(rs)
<1> DEFINE row == [rs[r] EXCEPT !.status = status,
                                !.outcome = IF outcome = None THEN @ ELSE outcome]
           rs2 == UpdateRound(rs, r, status, outcome)
<1>1. rs \in Seq(Round) /\ Len(rs) \in Nat /\ rs[r] \in Round
  BY DEF Tables
<1>2. row \in Round /\ row.type = rs[r].type /\ row.host = rs[r].host
  BY <1>1 DEF Round
<1>3. rs2 = [rs EXCEPT ![r] = row]
  BY <1>1 DEF UpdateRound, Round
<1> HIDE DEF row, rs2
<1>4. /\ rs2 \in Seq(Round) /\ Len(rs2) = Len(rs) /\ DOMAIN rs2 = DOMAIN rs
      /\ \A q \in DOMAIN rs : rs2[q].type = rs[q].type /\ rs2[q].host = rs[q].host
  BY <1>1, <1>2, <1>3
<1>5. Manned(rs2)
  BY <1>4 DEF Tables, Manned
<1> QED
  BY <1>4, <1>5 DEF Tables, rs2

LEMMA RespondKeeps ==
    ASSUME NEW rs, NEW t, Tables(rs, t), NEW i \in DOMAIN t, t[i].status # "complete",
           NEW output \in Texts, NEW assess \in {"converged", "more_work_needed"}
    PROVE  /\ Tables(rs, Respond(t, i, output, assess))
           /\ KeepsAnswers(t, Respond(t, i, output, assess))
           /\ Answered(Respond(t, i, output, assess), t[i].round) # {}
<1> DEFINE row == [t[i] EXCEPT !.output = output, !.assess = assess, !.status = "complete"]
           t2 == Respond(t, i, output, assess)
<1>1. t \in Seq(Iteration) /\ Len(t) \in Nat /\ t[i] \in Iteration
  BY DEF Tables
<1>2. row \in Iteration /\ row.round = t[i].round /\ row.output = output
  BY <1>1 DEF Iteration, IterationStatuses
<1>3. t2 = [t EXCEPT ![i] = row]
  BY <1>1 DEF Respond, Iteration
<1> HIDE DEF row, t2
<1>4. /\ t2 \in Seq(Iteration) /\ Len(t2) = Len(t) /\ DOMAIN t2 = DOMAIN t
      /\ \A j \in DOMAIN t : t2[j] = IF j = i THEN row ELSE t[j]
  BY <1>1, <1>2, <1>3
<1>5. Tables(rs, t2)
  BY <1>2, <1>4 DEF Tables
<1>6. KeepsAnswers(t, t2)
  BY <1>1, <1>4 DEF KeepsAnswers
<1>7. i \in Answered(t2, t[i].round)
  BY <1>2, <1>4, RegistryAssumption DEF Answered, IterationsOf
<1> QED
  BY <1>5, <1>6, <1>7 DEF t2

\* What every step of the workflow owes the tables.
Step ==
    /\ Tables(rounds', iters')
    /\ Len(rounds) <= Len(rounds')
    /\ KeepsAnswers(iters, iters')
    /\ session' \in SessionStatuses

LEMMA KeptIsStep ==
    ASSUME NEW rs, NEW t, Tables(rounds, iters), Tables(rs, t),
           Len(rs) = Len(rounds), KeepsAnswers(iters, t), Kept(rs, t)
    PROVE  Step
<1>1. iters \in Seq(Iteration) /\ t \in Seq(Iteration) /\ iters' \in Seq(Iteration)
  BY DEF Tables, Kept
<1>2. KeepsAnswers(iters, iters')
  BY <1>1 DEF KeepsAnswers, Kept, Extends
<1> QED
  BY <1>2 DEF Kept, Step

LEMMA UnchangedTablesIsStep ==
    ASSUME Tables(rounds, iters), rounds' = rounds, iters' = iters,
           session' \in SessionStatuses
    PROVE  Step
BY DEF Step, KeepsAnswers, Tables

-----------------------------------------------------------------------------
(***************************************************************************)
(* The actions.                                                            *)
(***************************************************************************)
\* The invariant: types, and what the relay needs to stay typed.
TypeInv == TypeOK /\ Manned(rounds)

LEMMA TypeInvTables ==
    ASSUME TypeInv
    PROVE  Tables(rounds, iters) /\ session \in SessionStatuses
BY DEF TypeInv, TypeOK, Tables

LEMMA OtherAgentIsAgent ==
    ASSUME NEW rs, NEW t, Tables(rs, t), NEW r \in DOMAIN rs,
           rs[r].type = "same_host_pair", NEW a
    PROVE  OtherAgentOnHost(rs[r].host, a) \in Agents
<1> DEFINE w == Workers[rs[r].host]
<1>1. rs[r].host \in Hosts /\ Len(w) = 2
  BY DEF Tables, Manned
<1>2. w \in Seq(AllWorkers)
  BY <1>1, RegistryAssumption
<1>3. w[1] \in AllWorkers /\ w[2] \in AllWorkers
  BY <1>1, <1>2
<1> QED
  BY <1>3 DEF OtherAgentOnHost, Agents

LEMMA StartSessionStep ==
    ASSUME TypeInv, StartSession
    PROVE  Step
<1>1. Kept(rounds, iters)
  BY TypeInvTables, SpawnRound1Keeps DEF StartSession, Inputs, SessionStatuses
<1> QED
  BY <1>1, TypeInvTables, KeptIsStep DEF KeepsAnswers, Tables

LEMMA AdvanceRound1Step ==
    ASSUME TypeInv, NEW t, NEW r \in DOMAIN rounds, rounds[r].type = "same_host_pair",
           Tables(rounds, t), KeepsAnswers(iters, t), Answered(t, r) # {},
           AdvanceRound1(t, r)
    PROVE  Step
<1> DEFINE last == t[LatestAnswered(t, r)]
<1>1. t \in Seq(Iteration) /\ Len(t) \in Nat /\ Len(rounds) \in Nat
  BY DEF Tables
<1>2. last \in Iteration /\ last.output \in Texts /\ last.dst \in Agents
  <2>1. LatestAnswered(t, r) \in DOMAIN t /\ last.output \in Texts
    BY <1>1, LatestAnswerIsText
  <2>2. last \in Iteration
    BY <1>1, <2>1
  <2> QED
    BY <2>1, <2>2 DEF Iteration
<1>3. Tables(rounds, iters) /\ session \in SessionStatuses
  BY TypeInvTables
<1>4. CASE /\ rounds' = UpdateRound(rounds, r, "escalated", None)
           /\ iters' = t
           /\ session' = "escalated"
  BY <1>3, <1>4, UpdateRoundKeeps DEF RoundStatuses, SessionStatuses, Step
<1>5. CASE MaybeAdvanceToRound2(UpdateRound(rounds, r, "converged", last.output), t)
  <2>1. /\ Tables(UpdateRound(rounds, r, "converged", last.output), t)
        /\ Len(UpdateRound(rounds, r, "converged", last.output)) = Len(rounds)
    BY <1>2, UpdateRoundKeeps DEF RoundStatuses
  <2>2. Kept(UpdateRound(rounds, r, "converged", last.output), t)
    BY <1>3, <1>5, <2>1, MaybeAdvanceKeeps
  <2> QED
    BY <1>3, <2>1, <2>2, KeptIsStep
<1>6. CASE /\ iters' = SpawnIteration(t, r, last.dst,
                           OtherAgentOnHost(rounds[r].host, last.dst), Draft(last.output))
           /\ UNCHANGED <<session, rounds>>
  <2>1. OtherAgentOnHost(rounds[r].host, last.dst) \in Agents
    BY OtherAgentIsAgent
  <2>2. Draft(last.output) \in Inputs
    BY <1>2 DEF Inputs
  <2>3. Tables(rounds, iters') /\ Extends(t, iters')
    BY <1>2, <1>6, <2>1, <2>2, AddIteration
  <2>4. Kept(rounds, t)
    BY <1>1, <1>3, <1>6, <2>3 DEF Kept
  <2> QED
    BY <1>3, <2>4, KeptIsStep
<1> QED
  BY <1>4, <1>5, <1>6 DEF AdvanceRound1

LEMMA RespondInRound1Step ==
    ASSUME TypeInv, NEW i, NEW output, NEW assess \in {"converged", "more_work_needed"},
           RespondInRound1(i, output, assess)
    PROVE  Step
<1> DEFINE t == Respond(iters, i, output, assess)
           r == iters[i].round
<1>1. Tables(rounds, iters)
  BY TypeInvTables
<1>2. i \in DOMAIN iters /\ iters[i].status # "complete" /\ output \in Texts
  BY DEF RespondInRound1, CanRespond, Texts
<1>3. r \in DOMAIN rounds /\ rounds[r].type = "same_host_pair"
  BY <1>1, <1>2 DEF RespondInRound1, CanRespond, Tables
<1>4. Tables(rounds, t) /\ KeepsAnswers(iters, t) /\ Answered(t, r) # {}
  BY <1>1, <1>2, RespondKeeps
<1> QED
  BY <1>3, <1>4, AdvanceRound1Step DEF RespondInRound1

LEMMA RespondInRound2Step ==
    ASSUME TypeInv, NEW i, NEW output, NEW assess \in {"converged", "more_work_needed"},
           RespondInRound2(i, output, assess)
    PROVE  Step
<1> DEFINE t == Respond(iters, i, output, assess)
           rs == UpdateRound(rounds, iters[i].round, "complete", output)
<1>1. Tables(rounds, iters) /\ session \in SessionStatuses
  BY TypeInvTables
<1>2. i \in DOMAIN iters /\ iters[i].status # "complete" /\ output \in Texts
  BY DEF RespondInRound2, CanRespond, Texts
<1>3. iters[i].round \in DOMAIN rounds
  BY <1>1, <1>2 DEF Tables
<1>4. Tables(rounds, t) /\ KeepsAnswers(iters, t)
  BY <1>1, <1>2, RespondKeeps
<1>5. Tables(rs, t) /\ Len(rs) = Len(rounds)
  BY <1>2, <1>3, <1>4, UpdateRoundKeeps DEF RoundStatuses
<1>6. CASE SpawnRound3(rs, t, Draft(output))
  <2>1. Draft(output) \in Inputs
    BY <1>2 DEF Inputs
  <2> QED
    BY <1>1, <1>4, <1>5, <1>6, <2>1, SpawnRound3Keeps, KeptIsStep
<1>7. CASE rounds' = rs /\ iters' = t /\ UNCHANGED session
  BY <1>1, <1>4, <1>5, <1>7 DEF Step, Tables
<1> QED
  BY <1>6, <1>7 DEF RespondInRound2

LEMMA RespondWithWrongToolStep ==
    ASSUME TypeInv, NEW i, NEW output \in Texts,
           NEW assess \in {"converged", "more_work_needed"},
           RespondWithWrongTool(i, output, assess)
    PROVE  Step
<1>1. Tables(rounds, iters) /\ session \in SessionStatuses
  BY TypeInvTables
<1>2. i \in DOMAIN iters /\ iters[i].status # "complete"
  BY DEF RespondWithWrongTool, CanRespond
<1>3. Tables(rounds, iters') /\ KeepsAnswers(iters, iters')
  BY <1>1, <1>2, RespondKeeps DEF RespondWithWrongTool
<1> QED
  BY <1>1, <1>3 DEF RespondWithWrongTool, Step, Tables

LEMMA CloseReviewStep ==
    ASSUME TypeInv, NEW r \in DOMAIN rounds, NEW vs \in SUBSET Review,
           CloseReview(r, vs)
    PROVE  Step
<1> DEFINE rs == UpdateRound(rounds, r, "complete", None)
           rejecters == RejectersOf(vs, r)
<1>1. Tables(rounds, iters) /\ session \in SessionStatuses
  BY TypeInvTables
<1>2. Tables(rs, iters) /\ Len(rs) = Len(rounds)
  BY <1>1, UpdateRoundKeeps DEF RoundStatuses
<1>3. rejecters \in SUBSET Agents
  BY DEF RejectersOf, Review
<1>4. Round2Outcome(rs) \in Texts \cup {None}
  BY <1>2, Round2OutcomeIsText DEF Tables
<1>5. /\ ProblemWith(rejecters) \in Inputs
      /\ MediationInput(Round2Outcome(rs), rejecters) \in Inputs
  BY <1>3, <1>4 DEF Inputs
<1>6. KeepsAnswers(iters, iters)
  BY <1>1 DEF KeepsAnswers, Tables
<1>7. CASE SpawnExecuteRound(rs, iters)
  BY <1>1, <1>2, <1>6, <1>7, SpawnExecuteRoundKeeps, KeptIsStep
<1>8. CASE SpawnRound2(rs, iters, MediationInput(Round2Outcome(rs), rejecters))
  BY <1>1, <1>2, <1>5, <1>6, <1>8, SpawnRound2Keeps, KeptIsStep
<1>9. CASE SpawnRound1(rs, iters, ProblemWith(rejecters), session)
  BY <1>1, <1>2, <1>5, <1>6, <1>9, SpawnRound1Keeps, KeptIsStep
<1> QED
  BY <1>7, <1>8, <1>9 DEF CloseReview

LEMMA EmitReviewStep ==
    ASSUME TypeInv, NEW r \in DOMAIN rounds, NEW a \in Agents,
           NEW decision \in {"approve", "reject"}, EmitReview(r, a, decision)
    PROVE  /\ Step
           /\ reviews \subseteq reviews'
           /\ reviews' \in SUBSET Review
           /\ \A v \in reviews' : v.round \in DOMAIN rounds
<1> DEFINE new == [round |-> r, reviewer |-> a, decision |-> decision]
           vs == reviews \cup {new}
<1>1. Tables(rounds, iters) /\ session \in SessionStatuses
  BY TypeInvTables
<1>2. r \in Nat \ {0}
  BY <1>1 DEF Tables
<1>3. vs \in SUBSET Review /\ \A v \in vs : v.round \in DOMAIN rounds
  BY <1>2 DEF TypeInv, TypeOK, Review
<1>4. reviews' = vs
  BY DEF EmitReview
<1>5. ASSUME CloseReview(r, vs)
      PROVE  Step
  BY <1>3, <1>5, CloseReviewStep
<1>6. ASSUME UNCHANGED <<session, rounds, iters>>
      PROVE  Step
  BY <1>1, <1>6, UnchangedTablesIsStep
<1>7. Step
  BY <1>5, <1>6 DEF EmitReview
<1> QED
  BY <1>3, <1>4, <1>7

LEMMA ExecutorStep ==
    ASSUME TypeInv, NEW i \in DOMAIN iters, NEW output,
           ExecutorSucceeds(i, output) \/ ExecutorFails(i, output)
    PROVE  Step /\ finalized' \in Texts \cup {None}
<1>1. Tables(rounds, iters) /\ session \in SessionStatuses
  BY TypeInvTables
<1>2. iters[i].status # "complete" /\ output \in Texts
  BY DEF ExecutorSucceeds, ExecutorFails, CanExecute, Texts
<1>3. iters[i].round \in DOMAIN rounds
  BY <1>1 DEF Tables
<1>4. PICK assess \in {"converged", "more_work_needed"}, status \in {"complete", "escalated"} :
          /\ iters' = Respond(iters, i, output, assess)
          /\ rounds' = UpdateRound(rounds, iters[i].round, status, output)
          /\ session' \in {"complete", "escalated"}
  BY DEF ExecutorSucceeds, ExecutorFails
<1>5. Tables(rounds, iters') /\ KeepsAnswers(iters, iters')
  BY <1>1, <1>2, <1>4, RespondKeeps
<1>6. Tables(rounds', iters') /\ Len(rounds') = Len(rounds)
  BY <1>2, <1>3, <1>4, <1>5, UpdateRoundKeeps DEF RoundStatuses
<1>7. Step
  BY <1>1, <1>4, <1>5, <1>6 DEF Step, SessionStatuses, Tables
<1>8. Round2Outcome(rounds) \in Texts \cup {None}
  BY <1>1, Round2OutcomeIsText DEF Tables
<1>9. finalized' \in Texts \cup {None}
  BY <1>2, <1>8 DEF ExecutorSucceeds, ExecutorFails, TypeInv, TypeOK
<1> QED
  BY <1>7, <1>9

\* Rewriting requests that are not answered yet.
LEMMA RewriteOpenRows ==
    ASSUME NEW rs, NEW t, Tables(rs, t), NEW t2 \in [DOMAIN t -> Iteration],
           \A i \in DOMAIN t : t2[i].round = t[i].round,
           \A i \in DOMAIN t : t[i].status = "complete" => t2[i] = t[i]
    PROVE  Tables(rs, t2) /\ KeepsAnswers(t, t2)
<1>1. t \in Seq(Iteration) /\ Len(t) \in Nat /\ DOMAIN t = 1..Len(t)
  BY DEF Tables
<1>2. t2 \in Seq(Iteration) /\ Len(t2) = Len(t) /\ DOMAIN t2 = DOMAIN t
  BY <1>1
<1> QED
  BY <1>1, <1>2 DEF Tables, KeepsAnswers

LEMMA AutoSkipStep ==
    ASSUME TypeInv, AutoSkipExpiredNudges
    PROVE  Step
<1>1. Tables(rounds, iters) /\ session \in SessionStatuses
  BY TypeInvTables
<1>2. iters \in Seq(Iteration) /\ Len(rounds) \in Nat
  BY <1>1 DEF Tables
<1>3. PICK k \in AwaitingNudge :
          iters' = AwaitDestination(iters, {i \in AwaitingNudge : i <= k})
  BY DEF AutoSkipExpiredNudges
<1>4. ASSUME NEW i \in DOMAIN iters
      PROVE  /\ iters'[i] \in Iteration
             /\ iters'[i].round = iters[i].round
             /\ iters[i].status = "complete" => iters'[i] = iters[i]
  <2>1. iters[i] \in Iteration
    BY <1>2
  <2>2. iters'[i] = iters[i] \/ /\ iters'[i] = [iters[i] EXCEPT !.status = "awaiting_destination"]
                                /\ iters[i].status = "awaiting_nudge"
    BY <1>3 DEF AwaitDestination, AwaitingNudge
  <2> QED
    BY <2>1, <2>2 DEF Iteration, IterationStatuses
<1>5. iters' \in [DOMAIN iters -> Iteration]
  BY <1>3, <1>4 DEF AwaitDestination
<1>6. Tables(rounds, iters') /\ KeepsAnswers(iters, iters')
  BY <1>1, <1>4, <1>5, RewriteOpenRows
<1> QED
  BY <1>1, <1>2, <1>6 DEF Step, AutoSkipExpiredNudges

LEMMA PostNudgeStep ==
    ASSUME TypeInv, NEW i, NEW submit \in BOOLEAN, PostNudge(i, submit)
    PROVE  Step
<1> DEFINE row == [iters[i] EXCEPT !.status = "awaiting_destination", !.nudged = submit]
<1>1. Tables(rounds, iters) /\ session \in SessionStatuses
  BY TypeInvTables
<1>2. iters \in Seq(Iteration) /\ Len(rounds) \in Nat
  BY <1>1 DEF Tables
<1>3. i \in DOMAIN iters /\ iters[i].status = "awaiting_nudge" /\ iters[i] \in Iteration
  BY <1>2 DEF PostNudge, AwaitingNudge
<1>4. iters' = [iters EXCEPT ![i] = row]
  BY <1>2, <1>3 DEF PostNudge, Iteration
<1>5. row \in Iteration /\ row.round = iters[i].round
  BY <1>3 DEF Iteration, IterationStatuses
<1> HIDE DEF row
<1>6. iters' \in [DOMAIN iters -> Iteration]
  <2>1. iters \in [DOMAIN iters -> Iteration]
    BY <1>2
  <2> QED
    BY <1>4, <1>5, <2>1
<1>7. /\ \A j \in DOMAIN iters : iters'[j].round = iters[j].round
      /\ \A j \in DOMAIN iters : iters[j].status = "complete" => iters'[j] = iters[j]
  BY <1>2, <1>3, <1>4, <1>5
<1>8. Tables(rounds, iters') /\ KeepsAnswers(iters, iters')
  BY <1>1, <1>6, <1>7, RewriteOpenRows
<1> QED
  BY <1>1, <1>2, <1>8 DEF Step, PostNudge

\* Rewriting rounds without changing what they are.
LEMMA RewriteRounds ==
    ASSUME NEW rs, NEW t, Tables(rs, t), NEW rs2 \in [DOMAIN rs -> Round],
           \A r \in DOMAIN rs : rs2[r].type = rs[r].type /\ rs2[r].host = rs[r].host
    PROVE  Tables(rs2, t) /\ Len(rs2) = Len(rs)
<1>1. rs \in Seq(Round) /\ Len(rs) \in Nat /\ DOMAIN rs = 1..Len(rs)
  BY DEF Tables
<1>2. rs2 \in Seq(Round) /\ Len(rs2) = Len(rs) /\ DOMAIN rs2 = DOMAIN rs
  BY <1>1
<1> QED
  BY <1>1, <1>2 DEF Tables, Manned

LEMMA PostAbortStep ==
    ASSUME TypeInv, PostAbort
    PROVE  Step
<1>1. Tables(rounds, iters)
  BY TypeInvTables
<1>2. iters \in Seq(Iteration) /\ rounds \in Seq(Round) /\ Len(rounds) \in Nat
  BY <1>1 DEF Tables
<1>3. ASSUME NEW r \in DOMAIN rounds
      PROVE  /\ rounds'[r] \in Round
             /\ rounds'[r].type = rounds[r].type
             /\ rounds'[r].host = rounds[r].host
  <2>1. rounds[r] \in Round
    BY <1>2
  <2>2. rounds'[r] = rounds[r] \/ rounds'[r] = [rounds[r] EXCEPT !.status = "aborted"]
    BY DEF PostAbort
  <2> QED
    BY <2>1, <2>2 DEF Round, RoundStatuses
<1>4. rounds' \in [DOMAIN rounds -> Round]
  BY <1>3 DEF PostAbort
<1>5. Tables(rounds', iters) /\ Len(rounds') = Len(rounds)
  BY <1>1, <1>3, <1>4, RewriteRounds
<1> QED
  BY <1>2, <1>5 DEF PostAbort, Step, KeepsAnswers, SessionStatuses

LEMMA CloseWithLastOutputKeeps ==
    ASSUME TypeInv, NEW S \in SUBSET RoundsOfType(rounds, "same_host_pair")
    PROVE  /\ Tables(CloseWithLastOutput(S), iters)
           /\ Len(CloseWithLastOutput(S)) = Len(rounds)
<1> DEFINE rs2 == CloseWithLastOutput(S)
<1>1. Tables(rounds, iters)
  BY TypeInvTables
<1>2. rounds \in Seq(Round) /\ iters \in Seq(Iteration)
  BY <1>1 DEF Tables
<1>3. ASSUME NEW r \in DOMAIN rounds
      PROVE  /\ rs2[r] \in Round
             /\ rs2[r].type = rounds[r].type
             /\ rs2[r].host = rounds[r].host
  <2>1. rounds[r] \in Round
    BY <1>2
  <2>2. CASE r \notin Closable(S)
    BY <2>1, <2>2 DEF CloseWithLastOutput
  <2>3. CASE r \in Closable(S)
    <3>1. rounds[r].host \in Hosts
      BY <1>1, <2>3 DEF Closable, RoundsOfType, Tables, Manned
    <3>2. PICK j \in DOMAIN HostOrder : HostOrder[j] = rounds[r].host
      BY <3>1 DEF Hosts, Elements
    <3>3. ListedBefore(r, r)
      BY <1>2, <3>2 DEF ListedBefore
    <3>4. Answered(iters, r) # {}
      BY <2>3, <3>3 DEF Closable
    <3>5. iters[LatestAnswered(iters, r)].output \in Texts
      BY <1>2, <3>4, LatestAnswerIsText
    <3>6. rs2[r] = [rounds[r] EXCEPT !.status = "converged",
                                     !.outcome = iters[LatestAnswered(iters, r)].output]
      BY <2>3 DEF CloseWithLastOutput
    <3> QED
      BY <2>1, <3>5, <3>6 DEF Round, RoundStatuses
  <2> QED
    BY <2>2, <2>3
<1>4. rs2 \in [DOMAIN rounds -> Round]
  BY <1>3 DEF CloseWithLastOutput
<1> HIDE DEF rs2
<1>5. Tables(rs2, iters) /\ Len(rs2) = Len(rounds)
  BY <1>1, <1>3, <1>4, RewriteRounds
<1> QED
  BY <1>5 DEF rs2

LEMMA ForceConvergeStep ==
    ASSUME TypeInv, ForceConvergeRound1
    PROVE  Step
<1> DEFINE open == {r \in RoundsOfType(rounds, "same_host_pair") :
                       rounds[r].status \in {"in_progress", "escalated", "pending"}}
           rs == CloseWithLastOutput(open)
<1>1. Tables(rounds, iters) /\ session \in SessionStatuses /\ KeepsAnswers(iters, iters)
  BY TypeInvTables DEF Tables, KeepsAnswers
<1>2. Tables(rs, iters) /\ Len(rs) = Len(rounds)
  BY CloseWithLastOutputKeeps
<1>3. CASE MaybeAdvanceToRound2(rs, iters)
  BY <1>1, <1>2, <1>3, MaybeAdvanceKeeps, KeptIsStep
<1>4. CASE rounds' = rs /\ UNCHANGED <<session, iters>>
  <2>1. Len(rounds) \in Nat
    BY <1>1 DEF Tables
  <2> HIDE DEF rs
  <2> QED
    BY <1>1, <1>2, <1>4, <2>1 DEF Step
<1>5. \/ MaybeAdvanceToRound2(rs, iters)
      \/ rounds' = rs /\ UNCHANGED <<session, iters>>
  BY Zenon DEF ForceConvergeRound1
<1> HIDE DEF rs, open
<1> QED
  BY <1>3, <1>4, <1>5

LEMMA ProceedStep ==
    ASSUME TypeInv, ProceedToArbitrator
    PROVE  Step
<1> DEFINE open == {r \in RoundsOfType(rounds, "same_host_pair") :
                       rounds[r].status # "converged"}
           rs == CloseWithLastOutput(open)
           input == ArbitratorInput(RoundOutcomesPerHost(rs))
<1>1. Tables(rounds, iters) /\ session \in SessionStatuses /\ KeepsAnswers(iters, iters)
  BY TypeInvTables DEF Tables, KeepsAnswers
<1>2. Tables(rs, iters) /\ Len(rs) = Len(rounds)
  BY CloseWithLastOutputKeeps
<1>3. CASE SpawnRound2(rs, iters, input)
  <2>1. input \in Inputs
    BY <1>2, OutcomesAreInput DEF Tables
  <2> QED
    BY <1>1, <1>2, <1>3, <2>1, SpawnRound2Keeps, KeptIsStep
<1>4. CASE rounds' = rs /\ UNCHANGED <<session, iters>>
  <2>1. Len(rounds) \in Nat
    BY <1>1 DEF Tables
  <2> HIDE DEF rs
  <2> QED
    BY <1>1, <1>2, <1>4, <2>1 DEF Step
<1>5. \/ SpawnRound2(rs, iters, input)
      \/ rounds' = rs /\ UNCHANGED <<session, iters>>
  BY Zenon DEF ProceedToArbitrator
<1> HIDE DEF rs, open, input
<1> QED
  BY <1>3, <1>4, <1>5

LEMMA RetryStep ==
    ASSUME TypeInv, NEW i \in DOMAIN iters, NEW submit \in BOOLEAN,
           RetryIteration(i, submit)
    PROVE  Step
<1> DEFINE it == iters[i]
           r == it.round
           dst == IF it.src = None THEN it.dst ELSE it.src
           input == IF it.output = None THEN it.input ELSE Draft(it.output)
           t == SpawnIteration(iters, r, it.dst, dst, input)
           last == [t[Len(t)] EXCEPT !.status = "awaiting_destination", !.nudged = TRUE]
<1>1. Tables(rounds, iters) /\ session \in SessionStatuses
  BY TypeInvTables
<1>2. iters \in Seq(Iteration) /\ rounds \in Seq(Round) /\ Len(iters) \in Nat
      /\ Len(rounds) \in Nat /\ it \in Iteration /\ r \in DOMAIN rounds
  BY <1>1 DEF Tables
<1>3. it.dst \in Agents \cup {None} /\ dst \in Agents /\ input \in Inputs
  <2>1. /\ it.dst \in Agents /\ it.src \in Agents \cup {None}
        /\ it.input \in Inputs /\ it.output \in Texts \cup {None}
    BY <1>2 DEF Iteration
  <2>2. it.output # None => Draft(it.output) \in Inputs
    BY <2>1 DEF Inputs
  <2> QED
    BY <2>1, <2>2
<1>4. Tables(rounds, t) /\ Extends(iters, t)
  BY <1>1, <1>2, <1>3, AddIteration
<1>5. t = Append(iters, NewIteration(r, NextNum(iters, r), it.dst, dst, input))
  BY DEF SpawnIteration
<1>6. iters' \in {t, [t EXCEPT ![Len(t)] = last]}
  <2>1. Len(t) \in DOMAIN t /\ t[Len(t)] = NewIteration(r, NextNum(iters, r), it.dst, dst, input)
    BY <1>2, <1>4, <1>5 DEF Tables
  <2>2. \/ iters' = t
        \/ iters' = [t EXCEPT ![Len(t)].status = "awaiting_destination",
                              ![Len(t)].nudged = TRUE]
    BY Zenon DEF RetryIteration
  <2> HIDE DEF t
  <2> QED
    BY <1>4, <2>1, <2>2 DEF Tables, NewIteration
<1>7. /\ t \in Seq(Iteration) /\ Len(t) = Len(iters) + 1 /\ Len(t) \in DOMAIN t
      /\ t[Len(t)] \in Iteration
  BY <1>2, <1>4, <1>5 DEF Tables
<1> HIDE DEF t, it, r, dst, input
<1>8. last \in Iteration /\ last.round = t[Len(t)].round
  BY <1>7 DEF Iteration, IterationStatuses
<1> HIDE DEF last
<1>9. /\ iters' \in Seq(Iteration)
      /\ Len(iters') = Len(t)
      /\ \A j \in DOMAIN t : iters'[j] = IF iters' # t /\ j = Len(t) THEN last ELSE t[j]
  BY <1>6, <1>7, <1>8
<1>10. Tables(rounds, iters')
  BY <1>4, <1>7, <1>8, <1>9 DEF Tables
<1>11. KeepsAnswers(iters, iters')
  BY <1>2, <1>4, <1>7, <1>9 DEF KeepsAnswers, Extends
<1>12. Tables(rounds', iters') /\ Len(rounds') = Len(rounds)
  <2>1. rounds' \in {rounds, [rounds EXCEPT ![r].status = "in_progress"]}
    BY DEF RetryIteration, r, it
  <2>2. \/ rounds' = rounds
        \/ rounds' = UpdateRound(rounds, r, "in_progress", None)
    BY <1>2, <2>1 DEF UpdateRound, Round
  <2> QED
    BY <1>2, <1>10, <2>2, UpdateRoundKeeps DEF RoundStatuses
<1>13. session' \in SessionStatuses
  BY <1>1 DEF RetryIteration, SessionStatuses
<1> QED
  BY <1>2, <1>11, <1>12, <1>13 DEF Step

-----------------------------------------------------------------------------
(***************************************************************************)
(* The theorems.                                                           *)
(***************************************************************************)
LEMMA InitTypeInv == Init => TypeInv
BY DEF Init, TypeInv, TypeOK, Manned, SessionStatuses

\* What every step does to everything but the tables.
Bookkeeping ==
    /\ reviews \subseteq reviews'
    /\ reviews' \in SUBSET Review
    /\ \A v \in reviews' : v.round \in DOMAIN rounds
    /\ skipped' \in SUBSET Agents
    /\ finalized' \in Texts \cup {None}

LEMMA AgentStepKeeps ==
    ASSUME TypeInv, AgentStep
    PROVE  Step /\ Bookkeeping
<1>1. ASSUME EmitResponse
      PROVE  Step /\ Bookkeeping
  <2>1. PICK i \in DOMAIN iters, output \in Texts, assess \in {"converged", "more_work_needed"} :
            RespondInRound1(i, output, assess) \/ RespondInRound2(i, output, assess)
    BY <1>1 DEF EmitResponse
  <2>2. Step
    BY <2>1, RespondInRound1Step, RespondInRound2Step
  <2>3. UNCHANGED <<reviews, skipped, finalized>>
    BY <2>1 DEF RespondInRound1, RespondInRound2
  <2> QED
    BY <2>2, <2>3 DEF Bookkeeping, TypeInv, TypeOK
<1>2. ASSUME NEW r \in DOMAIN rounds, NEW a \in Agents, NEW decision \in {"approve", "reject"},
             EmitReview(r, a, decision)
      PROVE  Step /\ Bookkeeping
  <2>1. UNCHANGED <<skipped, finalized>>
    BY <1>2 DEF EmitReview
  <2> QED
    BY <1>2, <2>1, EmitReviewStep DEF Bookkeeping, TypeInv, TypeOK
<1>3. ASSUME ExecutorEmit
      PROVE  Step /\ Bookkeeping
  <2>1. PICK i \in DOMAIN iters, output \in Texts :
            ExecutorSucceeds(i, output) \/ ExecutorFails(i, output)
    BY <1>3 DEF ExecutorEmit
  <2>2. UNCHANGED <<reviews, skipped>>
    BY <2>1 DEF ExecutorSucceeds, ExecutorFails
  <2> QED
    BY <2>1, <2>2, ExecutorStep DEF Bookkeeping, TypeInv, TypeOK
<1> QED
  BY <1>1, <1>2, <1>3 DEF AgentStep

LEMMA AgentFaultKeeps ==
    ASSUME TypeInv, AgentFault
    PROVE  Step /\ Bookkeeping
<1>1. ASSUME NEW i \in DOMAIN iters, NEW output \in Reports,
             NEW assess \in {"converged", "more_work_needed"},
             RespondWithWrongTool(i, output, assess)
      PROVE  Step /\ Bookkeeping
  <2>1. Step
    BY <1>1, RespondWithWrongToolStep DEF Texts
  <2> QED
    BY <1>1, <2>1 DEF RespondWithWrongTool, Bookkeeping, TypeInv, TypeOK
<1>2. ASSUME NEW r \in DOMAIN rounds, NEW a \in Agents, NEW decision \in {"approve", "reject"},
             EmitReview(r, a, decision)
      PROVE  Step /\ Bookkeeping
  <2>1. UNCHANGED <<skipped, finalized>>
    BY <1>2 DEF EmitReview
  <2> QED
    BY <1>2, <2>1, EmitReviewStep DEF Bookkeeping, TypeInv, TypeOK
<1> QED
  BY <1>1, <1>2 DEF AgentFault

LEMMA OperatorKeeps ==
    ASSUME TypeInv, OperatorRoutine \/ OperatorOverride \/ AutoSkipExpiredNudges
    PROVE  Step /\ Bookkeeping
<1>1. Tables(rounds, iters) /\ session \in SessionStatuses
  BY TypeInvTables
<1>2. CASE StartSession
  BY <1>2, StartSessionStep DEF StartSession, Bookkeeping, TypeInv, TypeOK
<1>3. ASSUME NEW i \in DOMAIN iters, NEW submit \in BOOLEAN, PostNudge(i, submit)
      PROVE  Step /\ Bookkeeping
  <2>1. UNCHANGED <<reviews, skipped, finalized>>
    BY <1>3 DEF PostNudge
  <2> QED
    BY <1>3, <2>1, PostNudgeStep DEF Bookkeeping, TypeInv, TypeOK
<1>4. ASSUME NEW i \in DOMAIN iters, NEW submit \in BOOLEAN, RetryIteration(i, submit)
      PROVE  Step /\ Bookkeeping
  <2>1. UNCHANGED <<reviews, skipped, finalized>>
    BY <1>4 DEF RetryIteration
  <2> QED
    BY <1>4, <2>1, RetryStep DEF Bookkeeping, TypeInv, TypeOK
<1>5. CASE PostAbort
  BY <1>5, PostAbortStep DEF PostAbort, Bookkeeping, TypeInv, TypeOK
<1>6. CASE ResolveAbort
  BY <1>1, <1>6, UnchangedTablesIsStep
     DEF ResolveAbort, Bookkeeping, TypeInv, TypeOK, SessionStatuses
<1>7. CASE ForceConvergeRound1
  <2>1. UNCHANGED <<reviews, skipped, finalized>>
    BY <1>7 DEF ForceConvergeRound1
  <2> QED
    BY <1>7, <2>1, ForceConvergeStep DEF Bookkeeping, TypeInv, TypeOK
<1>8. CASE ProceedToArbitrator
  <2>1. UNCHANGED <<reviews, skipped, finalized>>
    BY <1>8 DEF ProceedToArbitrator
  <2> QED
    BY <1>8, <2>1, ProceedStep DEF Bookkeeping, TypeInv, TypeOK
<1>9. ASSUME NEW a \in AllWorkers, SkipAgent(a)
      PROVE  Step /\ Bookkeeping
  BY <1>1, <1>9, UnchangedTablesIsStep
     DEF SkipAgent, Bookkeeping, TypeInv, TypeOK, Agents
<1>10. CASE AutoSkipExpiredNudges
  <2>1. UNCHANGED <<reviews, skipped, finalized>>
    BY <1>10 DEF AutoSkipExpiredNudges
  <2> QED
    BY <1>10, <2>1, AutoSkipStep DEF Bookkeeping, TypeInv, TypeOK
<1> QED
  BY <1>2, <1>3, <1>4, <1>5, <1>6, <1>7, <1>8, <1>9, <1>10
     DEF OperatorRoutine, OperatorOverride

LEMMA NextKeeps ==
    ASSUME TypeInv, Next
    PROVE  Step /\ Bookkeeping /\ overrides' \in Nat
<1>1. Step /\ Bookkeeping
  BY AgentStepKeeps, AgentFaultKeeps, OperatorKeeps DEF Next
<1>2. overrides' \in Nat
  BY DEF Next, TypeInv, TypeOK
<1> QED
  BY <1>1, <1>2

LEMMA NextTypeInv ==
    ASSUME TypeInv, [Next]_vars
    PROVE  TypeInv'
<1>1. CASE Next
  <2>1. Step /\ Bookkeeping /\ overrides' \in Nat
    BY <1>1, NextKeeps
  <2>2. DOMAIN rounds \subseteq DOMAIN rounds'
    BY <2>1, TypeInvTables DEF Step, Tables
  <2> QED
    BY <2>1, <2>2 DEF Step, Bookkeeping, Tables, TypeInv, TypeOK, Manned
<1>2. CASE UNCHANGED vars
  BY <1>2 DEF vars, TypeInv, TypeOK, Manned
<1> QED
  BY <1>1, <1>2

\* The tables keep the types and references of the schema, whatever the
\* operator and the agents do.
THEOREM TypeCorrect == Spec => []TypeOK
<1>1. Init => TypeInv
  BY InitTypeInv
<1>2. TypeInv /\ [Next]_vars => TypeInv'
  BY NextTypeInv
<1>3. TypeInv => TypeOK
  BY DEF TypeInv
<1> QED
  BY <1>1, <1>2, <1>3, PTL DEF Spec

\* Recorded answers are never rewritten and completed requests never open
\* again, whatever the operator and the agents do.
THEOREM TranscriptOnlyGrows == Spec => TranscriptGrows
<1> DEFINE Grows ==
        /\ Len(iters') >= Len(iters)
        /\ Len(rounds') >= Len(rounds)
        /\ reviews \subseteq reviews'
        /\ \A i \in DOMAIN iters : iters[i].status = "complete" => iters'[i] = iters[i]
<1>1. Init => TypeInv
  BY InitTypeInv
<1>2. TypeInv /\ [Next]_vars => TypeInv'
  BY NextTypeInv
<1>3. TypeInv /\ [Next]_vars => [Grows]_vars
  <2> SUFFICES ASSUME TypeInv, Next
               PROVE  Grows
    OBVIOUS
  <2>1. Step /\ Bookkeeping
    BY NextKeeps
  <2>2. /\ Len(rounds) \in Nat /\ Len(rounds') \in Nat
        /\ Len(iters) \in Nat /\ Len(iters') \in Nat
    BY <2>1, TypeInvTables DEF Step, Tables
  <2> QED
    BY <2>1, <2>2 DEF Step, KeepsAnswers, Bookkeeping
<1>4. Spec => [][Grows]_vars
  BY <1>1, <1>2, <1>3, PTL DEF Spec
<1> QED
  BY <1>4 DEF TranscriptGrows

\* The finalized prompt is written once: the executor's success is the only
\* step that writes it, and it leaves a prompt that is there alone.
THEOREM FinalPromptIsFrozen == Spec => FinalPromptFrozen
<1> DEFINE Frozen == finalized # None => finalized' = finalized
<1>1. ASSUME AgentStep
      PROVE  Frozen
  <2>1. CASE EmitResponse
    BY <2>1 DEF EmitResponse, RespondInRound1, RespondInRound2
  <2>2. ASSUME NEW r, NEW a, NEW decision, EmitReview(r, a, decision)
        PROVE  Frozen
    BY <2>2 DEF EmitReview
  <2>3. CASE ExecutorEmit
    BY <2>3 DEF ExecutorEmit, ExecutorSucceeds, ExecutorFails
  <2> QED
    BY <1>1, <2>1, <2>2, <2>3 DEF AgentStep
<1>2. ASSUME AgentFault
      PROVE  Frozen
  BY <1>2 DEF AgentFault, RespondWithWrongTool, EmitReview
<1>3. ASSUME OperatorRoutine \/ AutoSkipExpiredNudges
      PROVE  Frozen
  BY <1>3 DEF OperatorRoutine, StartSession, PostNudge, AutoSkipExpiredNudges
<1>4. ASSUME OperatorOverride
      PROVE  Frozen
  <2>1. ASSUME NEW i, NEW submit, RetryIteration(i, submit)
        PROVE  Frozen
    BY <2>1 DEF RetryIteration
  <2>2. CASE ForceConvergeRound1
    BY <2>2 DEF ForceConvergeRound1
  <2>3. CASE ProceedToArbitrator
    BY <2>3 DEF ProceedToArbitrator
  <2> QED
    BY <1>4, <2>1, <2>2, <2>3 DEF OperatorOverride, PostAbort, ResolveAbort, SkipAgent
<1>5. [Next]_vars => [Frozen]_vars
  BY <1>1, <1>2, <1>3, <1>4 DEF Next
<1> QED
  BY <1>5, PTL DEF Spec, FinalPromptFrozen

-----------------------------------------------------------------------------
(***************************************************************************)
(* The requests, the rows of table iterations, under every intervention    *)
(* and fault: hosts work in isolation, the requests of a round are         *)
(* numbered in order, mediation is bounded.                                *)
(***************************************************************************)
\* Only a completed request has an answer.
AnswerClosed(t, i) == t[i].output # None => t[i].status = "complete"

\* A request of a pair round is a matter between the two workers of its host,
\* and the draft it hands over was written before in the same round.
StaysHome(rs, t, i) ==
    rs[t[i].round].type = "same_host_pair" =>
        /\ t[i].dst \in Elements(Workers[rs[t[i].round].host])
        /\ t[i].src \in Elements(Workers[rs[t[i].round].host]) \cup {None}
        /\ t[i].input.kind = "draft" =>
               \E j \in IterationsOf(t, t[i].round) :
                   j < i /\ t[j].output = t[i].input.text

\* The requests of row i's round up to row i.
UpTo(t, i) == {j \in IterationsOf(t, t[i].round) : j <= i}

\* The arbitration rounds before round r.
ArbitrationsBefore(rs, r) == {q \in RoundsOfType(rs, "cross_host_arbitration") : q < r}

WithinBudget(rs, t, i) ==
    t[i].input.kind = "mediate" /\ t[i].num = 1 =>
        Cardinality(ArbitrationsBefore(rs, t[i].round)) <= MAX_MEDIATION_ATTEMPTS

RowSound(rs, t, i) ==
    /\ AnswerClosed(t, i)
    /\ StaysHome(rs, t, i)
    /\ t[i].num = Cardinality(UpTo(t, i))
    /\ WithinBudget(rs, t, i)

Sound(rs, t) == \A i \in DOMAIN t : RowSound(rs, t, i)

-----------------------------------------------------------------------------
(***************************************************************************)
(* Rows that are there stay sound.                                         *)
(***************************************************************************)
\* What may become of a request: it may be opened and it may be answered.
SameRequest(a, b) ==
    /\ b.round = a.round /\ b.num = a.num
    /\ b.src = a.src /\ b.dst = a.dst /\ b.input = a.input
    /\ a.output # None => b.output = a.output
    /\ b.output # None => b.status = "complete"

SameRounds(rs, rs2) ==
    /\ Len(rs) <= Len(rs2)
    /\ \A r \in DOMAIN rs : rs2[r].type = rs[r].type /\ rs2[r].host = rs[r].host

SameRequests(t, t2) ==
    /\ Len(t) <= Len(t2)
    /\ \A i \in DOMAIN t : SameRequest(t[i], t2[i])

\* A draft that is handed over is a text.
LEMMA DraftIsText ==
    ASSUME NEW input \in Inputs, input.kind = "draft"
    PROVE  input.text \in Texts
BY DEF Inputs, Problem, ProblemWith, Draft, ArbitratorInput, MediationInput

LEMMA OldRowsStaySound ==
    ASSUME NEW rs, NEW t, Tables(rs, t), Sound(rs, t),
           NEW rs2, NEW t2, Tables(rs2, t2), SameRounds(rs, rs2), SameRequests(t, t2),
           NEW i \in DOMAIN t
    PROVE  RowSound(rs2, t2, i)
<1>1. /\ rs \in Seq(Round) /\ rs2 \in Seq(Round) /\ t \in Seq(Iteration) /\ t2 \in Seq(Iteration)
      /\ Len(rs) \in Nat /\ Len(rs2) \in Nat /\ Len(t) \in Nat /\ Len(t2) \in Nat
  BY DEF Tables
<1>2. RowSound(rs, t, i) /\ SameRequest(t[i], t2[i])
  BY DEF Sound, SameRequests
<1>3. DOMAIN t \subseteq DOMAIN t2 /\ \A j \in DOMAIN t : SameRequest(t[j], t2[j])
  BY <1>1 DEF SameRequests
<1>4. t[i].round \in DOMAIN rs /\ t[i] \in Iteration /\ t2[i].round = t[i].round
  BY <1>1, <1>2 DEF Tables, SameRequest
<1>5. /\ rs2[t[i].round].type = rs[t[i].round].type
      /\ rs2[t[i].round].host = rs[t[i].round].host
  BY <1>4 DEF SameRounds
<1>6. IterationsOf(t, t[i].round) \subseteq IterationsOf(t2, t[i].round)
  BY <1>3 DEF IterationsOf, SameRequest
<1>7. AnswerClosed(t2, i)
  BY <1>2 DEF AnswerClosed, SameRequest
<1>8. StaysHome(rs2, t2, i)
  <2> SUFFICES ASSUME rs[t[i].round].type = "same_host_pair"
               PROVE  /\ t2[i].dst \in Elements(Workers[rs[t[i].round].host])
                      /\ t2[i].src \in Elements(Workers[rs[t[i].round].host]) \cup {None}
                      /\ t2[i].input.kind = "draft" =>
                             \E j \in IterationsOf(t2, t[i].round) :
                                 j < i /\ t2[j].output = t2[i].input.text
    BY <1>4, <1>5 DEF StaysHome
  <2>1. StaysHome(rs, t, i) /\ t2[i].dst = t[i].dst /\ t2[i].src = t[i].src
        /\ t2[i].input = t[i].input
    BY <1>2 DEF RowSound, SameRequest
  <2>2. ASSUME t[i].input.kind = "draft"
        PROVE  \E j \in IterationsOf(t2, t[i].round) :
                   j < i /\ t2[j].output = t[i].input.text
    <3>1. PICK j \in IterationsOf(t, t[i].round) : j < i /\ t[j].output = t[i].input.text
      BY <2>1, <2>2 DEF StaysHome
    <3>2. t[i].input \in Inputs
      BY <1>4 DEF Iteration
    <3>3. t[j].output # None
      BY <2>2, <3>1, <3>2, DraftIsText, RegistryAssumption
    <3>4. t2[j].output = t[j].output
      BY <1>3, <3>1, <3>3 DEF IterationsOf, SameRequest
    <3> QED
      BY <1>6, <3>1, <3>4
  <2> QED
    BY <2>1, <2>2 DEF StaysHome
<1>9. UpTo(t2, i) = UpTo(t, i)
  BY <1>1, <1>3, <1>4 DEF UpTo, IterationsOf, SameRequest
<1>10. ArbitrationsBefore(rs2, t[i].round) = ArbitrationsBefore(rs, t[i].round)
  BY <1>1, <1>4 DEF ArbitrationsBefore, RoundsOfType, SameRounds
<1>11. WithinBudget(rs2, t2, i)
  BY <1>2, <1>4, <1>10 DEF RowSound, WithinBudget, SameRequest
<1> QED
  BY <1>2, <1>7, <1>8, <1>9, <1>11 DEF RowSound, SameRequest

\* Tables rewritten in place stay sound.
LEMMA RewrittenStaySound ==
    ASSUME NEW rs, NEW t, Tables(rs, t), Sound(rs, t),
           NEW rs2, NEW t2, Tables(rs2, t2), SameRounds(rs, rs2), SameRequests(t, t2),
           Len(t2) = Len(t)
    PROVE  Sound(rs2, t2)
<1>1. t \in Seq(Iteration) /\ t2 \in Seq(Iteration)
  BY DEF Tables
<1>2. DOMAIN t2 = DOMAIN t
  BY <1>1
<1> QED
  BY <1>2, OldRowsStaySound DEF Sound

LEMMA RespondStaysSound ==
    ASSUME NEW rs, NEW t, Tables(rs, t), Sound(rs, t), NEW i \in DOMAIN t,
           t[i].status # "complete",
           NEW output \in Texts, NEW assess \in {"converged", "more_work_needed"}
    PROVE  /\ Sound(rs, Respond(t, i, output, assess))
           /\ SameRequests(t, Respond(t, i, output, assess))
           /\ Len(Respond(t, i, output, assess)) = Len(t)
<1> DEFINE row == [t[i] EXCEPT !.output = output, !.assess = assess, !.status = "complete"]
           t2 == Respond(t, i, output, assess)
<1>1. t \in Seq(Iteration) /\ Len(t) \in Nat /\ t[i] \in Iteration /\ Len(rs) \in Nat
  BY DEF Tables
<1>2. t2 = [t EXCEPT ![i] = row]
  BY <1>1 DEF Respond, Iteration
<1>3. t[i].output = None
  BY DEF Sound, RowSound, AnswerClosed
<1>4. SameRequest(t[i], row)
  BY <1>1, <1>3 DEF SameRequest, Iteration
<1>5. \A j \in DOMAIN t : SameRequest(t[j], t[j])
  BY DEF SameRequest, Sound, RowSound, AnswerClosed
<1> HIDE DEF row
<1>6. Len(t2) = Len(t) /\ \A j \in DOMAIN t : t2[j] = IF j = i THEN row ELSE t[j]
  BY <1>1, <1>2
<1> HIDE DEF t2
<1>7. SameRequests(t, t2)
  BY <1>1, <1>4, <1>5, <1>6 DEF SameRequests
<1>8. Tables(rs, t2)
  BY RespondKeeps DEF t2
<1>9. SameRounds(rs, rs)
  BY <1>1 DEF SameRounds
<1>10. Sound(rs, t2)
  BY <1>6, <1>7, <1>8, <1>9, RewrittenStaySound
<1> QED
  BY <1>6, <1>7, <1>10 DEF t2

LEMMA SameRequestsReflexive ==
    ASSUME NEW rs, NEW t, Tables(rs, t), Sound(rs, t)
    PROVE  SameRequests(t, t)
BY DEF SameRequests, SameRequest, Sound, RowSound, AnswerClosed, Tables

\* Rewriting rounds does not touch the requests.
LEMMA RoundsRewrittenStaySound ==
    ASSUME NEW rs, NEW t, Tables(rs, t), Sound(rs, t),
           NEW rs2, Tables(rs2, t), SameRounds(rs, rs2)
    PROVE  Sound(rs2, t)
BY SameRequestsReflexive, RewrittenStaySound

LEMMA UpdateRoundStaysSound ==
    ASSUME NEW rs, NEW t, Tables(rs, t), Sound(rs, t), NEW r \in DOMAIN rs,
           NEW status \in RoundStatuses, NEW outcome \in Texts \cup {None}
    PROVE  Sound(UpdateRound(rs, r, status, outcome), t)
<1> DEFINE rs2 == UpdateRound(rs, r, status, outcome)
<1>1. rs \in Seq(Round) /\ Len(rs) \in Nat
  BY DEF Tables
<1>2. Tables(rs2, t) /\ Len(rs2) = Len(rs)
  BY UpdateRoundKeeps
<1>3. \A q \in DOMAIN rs : rs2[q].type = rs[q].type /\ rs2[q].host = rs[q].host
  BY <1>1 DEF UpdateRound, Round
<1> HIDE DEF rs2
<1>4. SameRounds(rs, rs2)
  BY <1>1, <1>2, <1>3 DEF SameRounds
<1>5. Sound(rs2, t)
  BY <1>2, <1>4, RoundsRewrittenStaySound
<1> QED
  BY <1>5 DEF rs2

-----------------------------------------------------------------------------
(***************************************************************************)
(* New rows.                                                               *)
(***************************************************************************)
LEMMA NewRowsSuffice ==
    ASSUME NEW rs, NEW t, Tables(rs, t), Sound(rs, t),
           NEW rs2, NEW t2, Tables(rs2, t2), SameRounds(rs, rs2), Extends(t, t2),
           \A i \in DOMAIN t2 : i > Len(t) => RowSound(rs2, t2, i)
    PROVE  Sound(rs2, t2)
<1>1. t \in Seq(Iteration) /\ t2 \in Seq(Iteration) /\ Len(t) \in Nat /\ Len(t2) \in Nat
  BY DEF Tables
<1>2. SameRequests(t, t2)
  BY SameRequestsReflexive DEF Extends, SameRequests
<1>3. SUFFICES ASSUME NEW i \in DOMAIN t2
               PROVE  RowSound(rs2, t2, i)
  BY DEF Sound
<1>4. CASE i > Len(t)
  BY <1>4
<1>5. CASE i \in DOMAIN t
  BY <1>2, <1>5, OldRowsStaySound
<1> QED
  BY <1>1, <1>4, <1>5

\* The next number of a round counts its requests.
LEMMA NextNumCounts ==
    ASSUME NEW rs, NEW t, Tables(rs, t), Sound(rs, t), NEW r
    PROVE  /\ IsFiniteSet(IterationsOf(t, r))
           /\ NextNum(t, r) = Cardinality(IterationsOf(t, r)) + 1
<1> DEFINE S == IterationsOf(t, r)
<1>1. Len(t) \in Nat /\ S \in SUBSET (1..Len(t)) /\ DOMAIN t = 1..Len(t)
  BY DEF IterationsOf, Tables
<1>2. IsFiniteSet(S)
  BY <1>1, SubsetOfInterval
<1>3. CASE S = {}
  BY <1>2, <1>3, FS_EmptySet DEF NextNum
<1>4. CASE S # {}
  <2>1. Latest(S) \in S /\ \A j \in S : j <= Latest(S)
    BY <1>1, <1>4, LatestIsMember
  <2>2. Latest(S) \in DOMAIN t /\ t[Latest(S)].round = r
    BY <2>1 DEF IterationsOf
  <2>3. UpTo(t, Latest(S)) = S
    BY <2>1, <2>2 DEF UpTo
  <2>4. t[Latest(S)].num = Cardinality(S)
    BY <2>2, <2>3 DEF Sound, RowSound
  <2> QED
    BY <1>2, <1>4, <2>4 DEF NextNum
<1> QED
  BY <1>2, <1>3, <1>4

\* One more request, for a round that is there.
LEMMA AddedRequestIsSound ==
    ASSUME NEW rs, NEW t, Tables(rs, t), Sound(rs, t), NEW r \in DOMAIN rs,
           NEW src \in Agents \cup {None}, NEW dst \in Agents, NEW input \in Inputs,
           rs[r].type = "same_host_pair" =>
               /\ dst \in Elements(Workers[rs[r].host])
               /\ src \in Elements(Workers[rs[r].host]) \cup {None}
               /\ input.kind = "draft" =>
                      \E j \in IterationsOf(t, r) : t[j].output = input.text,
           input.kind = "mediate" =>
               \/ IterationsOf(t, r) # {}
               \/ Cardinality(ArbitrationsBefore(rs, r)) <= MAX_MEDIATION_ATTEMPTS,
           NEW t2, Tables(rs, t2), Len(t2) = Len(t) + 1, Extends(t, t2),
           LET it == t2[Len(t) + 1]
           IN  /\ it.round = r /\ it.num = NextNum(t, r) /\ it.src = src /\ it.dst = dst
               /\ it.input = input /\ it.output = None
    PROVE  Sound(rs, t2)
<1> DEFINE m == Len(t) + 1
           S == IterationsOf(t, r)
<1>1. Len(t) \in Nat /\ m \in DOMAIN t2 /\ Len(rs) \in Nat
      /\ DOMAIN t = 1..Len(t) /\ DOMAIN t2 = 1..m
  BY DEF Tables
<1>2. \A i \in DOMAIN t2 : i > Len(t) => i = m
  BY <1>1
<1>3. S \subseteq IterationsOf(t2, r) /\ S \subseteq 1..Len(t)
  BY <1>1 DEF IterationsOf, Extends
<1>4. AnswerClosed(t2, m)
  BY DEF AnswerClosed
<1>5. StaysHome(rs, t2, m)
  <2>1. \A j \in S : j < m /\ t2[j].output = t[j].output
    BY <1>1, <1>3 DEF Extends
  <2> QED
    BY <1>3, <2>1 DEF StaysHome
<1>6. UpTo(t2, m) = S \cup {m}
  BY <1>1, <1>3 DEF UpTo, IterationsOf, Extends
<1>7. /\ IsFiniteSet(S) /\ Cardinality(S) \in Nat
      /\ NextNum(t, r) = Cardinality(S) + 1
  BY NextNumCounts, FS_CardinalityType
<1>8. Cardinality(S \cup {m}) = Cardinality(S) + 1
  <2>1. m \notin S
    BY <1>1, <1>3
  <2> QED
    BY <1>7, <2>1, FS_AddElement
<1>9. WithinBudget(rs, t2, m)
  <2>1. CASE S = {}
    BY <2>1 DEF WithinBudget
  <2>2. CASE S # {}
    <3>1. Cardinality(S) # 0
      BY <1>7, <2>2, FS_EmptySet
    <3>2. t2[m].num # 1
      BY <1>7, <3>1
    <3> QED
      BY <3>2 DEF WithinBudget
  <2> QED
    BY <2>1, <2>2
<1>10. RowSound(rs, t2, m)
  BY <1>4, <1>5, <1>6, <1>7, <1>8, <1>9 DEF RowSound
<1>11. SameRounds(rs, rs)
  BY <1>1 DEF SameRounds
<1> QED
  BY <1>2, <1>10, <1>11, NewRowsSuffice

\* A round of another kind than a pair's is added, with no request yet.
LEMMA AddedRoundIsSound ==
    ASSUME NEW rs, NEW t, Tables(rs, t), Sound(rs, t), NEW rd \in Round,
           rd.type # "same_host_pair"
    PROVE  /\ Tables(Append(rs, rd), t) /\ Sound(Append(rs, rd), t)
           /\ Len(rs) + 1 \in DOMAIN Append(rs, rd)
           /\ SameRounds(rs, Append(rs, rd))
           /\ Append(rs, rd)[Len(rs) + 1] = rd
           /\ IterationsOf(t, Len(rs) + 1) = {}
<1>1. rs \in Seq(Round) /\ Len(rs) \in Nat
  BY DEF Tables
<1>2. Tables(Append(rs, rd), t)
  BY AddRound
<1>3. SameRounds(rs, Append(rs, rd))
  BY <1>1 DEF SameRounds
<1>4. Sound(Append(rs, rd), t)
  BY <1>2, <1>3, RoundsRewrittenStaySound
<1>5. IterationsOf(t, Len(rs) + 1) = {}
  BY <1>1 DEF Tables, IterationsOf
<1> QED
  BY <1>1, <1>2, <1>3, <1>4, <1>5

\* A new request that is just appended.
LEMMA SpawnedRequestIsSound ==
    ASSUME NEW rs, NEW t, Tables(rs, t), Sound(rs, t), NEW r \in DOMAIN rs,
           NEW src \in Agents \cup {None}, NEW dst \in Agents, NEW input \in Inputs,
           rs[r].type = "same_host_pair" =>
               /\ dst \in Elements(Workers[rs[r].host])
               /\ src \in Elements(Workers[rs[r].host]) \cup {None}
               /\ input.kind = "draft" =>
                      \E j \in IterationsOf(t, r) : t[j].output = input.text,
           input.kind = "mediate" =>
               \/ IterationsOf(t, r) # {}
               \/ Cardinality(ArbitrationsBefore(rs, r)) <= MAX_MEDIATION_ATTEMPTS
    PROVE  Sound(rs, SpawnIteration(t, r, src, dst, input))
<1> DEFINE it == NewIteration(r, NextNum(t, r), src, dst, input)
           t2 == SpawnIteration(t, r, src, dst, input)
<1>1. Tables(rs, t2) /\ Extends(t, t2)
  BY AddIteration
<1>2. t2 = Append(t, it) /\ t \in Seq(Iteration)
  BY DEF SpawnIteration, Tables
<1>3. Len(t2) = Len(t) + 1 /\ t2[Len(t) + 1] = it
  <2> HIDE DEF it
  <2> QED
    BY <1>2
<1>4. /\ it.round = r /\ it.num = NextNum(t, r) /\ it.src = src /\ it.dst = dst
      /\ it.input = input /\ it.output = None
  BY DEF NewIteration
<1> HIDE DEF it, t2
<1>5. Sound(rs, t2)
  BY <1>1, <1>3, <1>4, AddedRequestIsSound
<1> QED
  BY <1>5 DEF t2

LEMMA SpawnRound2IsSound ==
    ASSUME NEW rs, NEW t, Tables(rs, t), Sound(rs, t), NEW input \in Inputs,
           input.kind = "mediate" =>
               Cardinality(RoundsOfType(rs, "cross_host_arbitration"))
                   <= MAX_MEDIATION_ATTEMPTS,
           SpawnRound2(rs, t, input)
    PROVE  Sound(rounds', iters')
<1> DEFINE rd == NewRound("cross_host_arbitration", None)
           rs2 == Append(rs, rd)
           r == Len(rs) + 1
<1>1. rd \in Round /\ rd.type = "cross_host_arbitration"
  BY NewRoundIsRound DEF NewRound, RoundTypes
<1> HIDE DEF rd
<1>2. /\ Tables(rs2, t) /\ Sound(rs2, t) /\ r \in DOMAIN rs2
      /\ SameRounds(rs, rs2) /\ rs2[r] = rd
  BY <1>1, AddedRoundIsSound
<1>3. rs \in Seq(Round) /\ Len(rs) \in Nat
  BY DEF Tables
<1>4. ArbitrationsBefore(rs2, r) = RoundsOfType(rs, "cross_host_arbitration")
  BY <1>1, <1>3 DEF ArbitrationsBefore, RoundsOfType
<1>5. rounds' = rs2 /\ iters' = SpawnIteration(t, r, None, Arbitrator, input)
  BY DEF SpawnRound2, rd
<1> HIDE DEF rs2, r
<1>6. Sound(rs2, SpawnIteration(t, r, None, Arbitrator, input))
  BY <1>1, <1>2, <1>4, SpawnedRequestIsSound DEF Agents
<1> QED
  BY <1>5, <1>6

LEMMA SpawnExecuteRoundIsSound ==
    ASSUME NEW rs, NEW t, Tables(rs, t), Sound(rs, t), SpawnExecuteRound(rs, t)
    PROVE  Sound(rounds', iters')
<1> DEFINE rd == NewRound("execute", None)
           rs2 == Append(rs, rd)
           r == Len(rs) + 1
           input == Draft(Round2Outcome(rs))
<1>1. rd \in Round /\ rd.type = "execute"
  BY NewRoundIsRound DEF NewRound, RoundTypes
<1>2. /\ rounds' = rs2
      /\ \/ iters' = t
         \/ Round2Outcome(rs) # None /\ iters' = SpawnIteration(t, r, None, Executor, input)
  BY DEF SpawnExecuteRound
<1> HIDE DEF rd
<1>3. /\ Tables(rs2, t) /\ Sound(rs2, t) /\ r \in DOMAIN rs2 /\ rs2[r] = rd
  BY <1>1, AddedRoundIsSound
<1>4. CASE iters' = t
  BY <1>2, <1>3, <1>4
<1>5. CASE Round2Outcome(rs) # None /\ iters' = SpawnIteration(t, r, None, Executor, input)
  <2>1. Round2Outcome(rs) \in Texts
    BY <1>5, Round2OutcomeIsText DEF Tables
  <2>2. input \in Inputs /\ input.kind # "mediate"
    BY <2>1 DEF Inputs, Draft
  <2> HIDE DEF input, rs2, r
  <2>3. Sound(rs2, SpawnIteration(t, r, None, Executor, input))
    BY <1>1, <1>3, <2>2, SpawnedRequestIsSound DEF Agents
  <2> QED
    BY <1>2, <1>5, <2>3
<1> QED
  BY <1>2, <1>4, <1>5

\* The rows a review round is spawned with.
LEMMA SpawnRound3Rows ==
    ASSUME NEW rs, NEW t, Tables(rs, t), NEW input \in Inputs, SpawnRound3(rs, t, input)
    PROVE  LET n == Cardinality(ExpectedReviewers)
               r == Len(rs) + 1
           IN  /\ n \in Nat
               /\ rounds' = Append(rs, NewRound("multi_agent_review", None))
               /\ Len(iters') = Len(t) + n
               /\ \A k \in 1..n : /\ iters'[Len(t) + k].round = r
                                  /\ iters'[Len(t) + k].num = k
                                  /\ iters'[Len(t) + k].output = None
                                  /\ iters'[Len(t) + k].input = input
                                  /\ iters'[Len(t) + k].status = "awaiting_nudge"
<1> DEFINE n == Cardinality(ExpectedReviewers)
           r == Len(rs) + 1
<1>1. PICK order \in [1..n -> ExpectedReviewers] :
          /\ rounds' = Append(rs, NewRound("multi_agent_review", None))
          /\ iters' = t \o [k \in DOMAIN order |-> NewIteration(r, k, None, order[k], input)]
  BY DEF SpawnRound3
<1> DEFINE u == [k \in 1..n |-> NewIteration(r, k, None, order[k], input)]
<1>2. iters' = t \o u
  BY <1>1
<1>3. n \in Nat
  <2>1. IsFiniteSet(ExpectedReviewers)
    BY RegistryAssumption, FS_Subset DEF ExpectedReviewers
  <2> QED
    BY <2>1, FS_CardinalityType
<1>4. t \in Seq(Iteration) /\ Len(t) \in Nat
  BY DEF Tables
<1>5. \A k \in 1..n : /\ u[k].round = r /\ u[k].num = k /\ u[k].output = None
                       /\ u[k].input = input /\ u[k].status = "awaiting_nudge"
  BY DEF NewIteration
<1>6. Len(iters') = Len(t) + n /\ \A k \in 1..n : iters'[Len(t) + k] = u[k]
  <2>1. u \in Seq({u[k] : k \in 1..n}) /\ Len(u) = n
    BY <1>3
  <2>2. t \in Seq(Iteration \cup {u[k] : k \in 1..n})
        /\ u \in Seq(Iteration \cup {u[k] : k \in 1..n})
    BY <1>3, <1>4, <2>1
  <2> HIDE DEF u
  <2>3. /\ Len(t \o u) = Len(t) + Len(u)
        /\ \A k \in 1..(Len(t) + Len(u)) :
               (t \o u)[k] = IF k <= Len(t) THEN t[k] ELSE u[k - Len(t)]
    BY <2>2, ConcatProperties
  <2> QED
    BY <1>2, <1>3, <1>4, <2>1, <2>3
<1> HIDE DEF u
<1> QED
  BY <1>1, <1>3, <1>5, <1>6

\* Every reviewer gets a request, numbered from 1.
LEMMA SpawnRound3IsSound ==
    ASSUME NEW rs, NEW t, Tables(rs, t), Sound(rs, t), NEW input \in Inputs,
           input.kind # "mediate", SpawnRound3(rs, t, input)
    PROVE  Sound(rounds', iters')
<1> DEFINE n == Cardinality(ExpectedReviewers)
           rd == NewRound("multi_agent_review", None)
           rs2 == Append(rs, rd)
           r == Len(rs) + 1
<1>1. /\ n \in Nat /\ rounds' = rs2 /\ Len(iters') = Len(t) + n
      /\ \A k \in 1..n : /\ iters'[Len(t) + k].round = r /\ iters'[Len(t) + k].num = k
                         /\ iters'[Len(t) + k].output = None
                         /\ iters'[Len(t) + k].input = input
  BY SpawnRound3Rows
<1>2. rd \in Round /\ rd.type = "multi_agent_review"
  BY NewRoundIsRound DEF NewRound, RoundTypes
<1> HIDE DEF rd
<1>3. /\ Tables(rs2, t) /\ Sound(rs2, t) /\ r \in DOMAIN rs2 /\ rs2[r] = rd
      /\ SameRounds(rs, rs2)
  BY <1>2, AddedRoundIsSound
<1>4. /\ t \in Seq(Iteration) /\ Len(t) \in Nat /\ rs \in Seq(Round) /\ Len(rs) \in Nat
      /\ \A j \in DOMAIN t : t[j].round < r
  BY DEF Tables
<1>5. Tables(rounds', iters') /\ Extends(t, iters')
  BY SpawnRound3Keeps DEF Kept
<1> HIDE DEF rs2
<1>6. ASSUME NEW i \in DOMAIN iters', i > Len(t)
      PROVE  RowSound(rounds', iters', i)
  <2>1. PICK k \in 1..n : i = Len(t) + k
    <3>1. i \in 1..(Len(t) + n)
      BY <1>1, <1>5, <1>6 DEF Tables
    <3>2. i - Len(t) \in 1..n /\ i = Len(t) + (i - Len(t))
      BY <1>1, <1>4, <1>6, <3>1
    <3> QED
      BY <3>2
  <2>2. /\ iters'[i].round = r /\ iters'[i].num = k /\ iters'[i].output = None
        /\ iters'[i].input = input
    BY <1>1, <2>1
  <2>3. UpTo(iters', i) = (Len(t) + 1)..(Len(t) + k)
    <3>1. DOMAIN iters' = 1..(Len(t) + n)
      BY <1>1, <1>5 DEF Tables
    <3>2. \A j \in 1..Len(t) : iters'[j].round # r
      BY <1>4, <1>5 DEF Extends
    <3>3. ASSUME NEW j \in (Len(t) + 1)..(Len(t) + n)
          PROVE  iters'[j].round = r
      <4>1. j - Len(t) \in 1..n /\ j = Len(t) + (j - Len(t))
        BY <1>1, <1>4
      <4> QED
        BY <1>1, <4>1
    <3> QED
      BY <1>1, <1>4, <2>1, <2>2, <3>1, <3>2, <3>3 DEF UpTo, IterationsOf
  <2>4. Cardinality((Len(t) + 1)..(Len(t) + k)) = k
    BY <1>1, <1>4, FS_Interval
  <2>5. rounds'[r].type = "multi_agent_review"
    BY <1>1, <1>2, <1>3
  <2> QED
    BY <2>2, <2>3, <2>4, <2>5 DEF RowSound, AnswerClosed, StaysHome, WithinBudget
<1> QED
  BY <1>1, <1>3, <1>5, <1>6, NewRowsSuffice

\* The rows round 1 is spawned with.
LEMMA SpawnRound1Rows ==
    ASSUME NEW rs, NEW t, Tables(rs, t), NEW input \in Inputs,
           NEW status \in SessionStatuses, SpawnRound1(rs, t, input, status)
    PROVE  LET n == Cardinality(ReadyHosts)
           IN  /\ n \in Nat
               /\ Len(rounds') = Len(rs) + n
               /\ \A k \in 1..Len(rs) : rounds'[k] = rs[k]
               /\ \A k \in 1..n :
                      rounds'[Len(rs) + k] = NewRound("same_host_pair", HostOrder[k])
               /\ Len(iters') = Len(t) + n
               /\ \A k \in 1..n :
                      iters'[Len(t) + k] = NewIteration(Len(rs) + k, 1, None,
                                                        Workers[HostOrder[k]][1], input)
<1> DEFINE n == Cardinality(ReadyHosts)
           p == [k \in 1..n |-> NewRound("same_host_pair", HostOrder[k])]
           u == [k \in 1..n |-> NewIteration(Len(rs) + k, 1, None,
                                             Workers[HostOrder[k]][1], input)]
           m == Len(t)
           q == Len(rs)
<1>1. rounds' = rs \o p /\ iters' = t \o u
  BY DEF SpawnRound1
<1>2. n \in Nat /\ \A k \in 1..n : HostOrder[k] \in Hosts
  BY ReadyHostsArePrefix, RegistryAssumption
<1>3. t \in Seq(Iteration) /\ m \in Nat /\ rs \in Seq(Round) /\ q \in Nat
  BY DEF Tables
<1>4. Len(iters') = m + n /\ \A k \in 1..n : iters'[m + k] = u[k]
  <2> DEFINE S == {u[k] : k \in 1..n}
  <2>1. u \in Seq(S) /\ Len(u) = n
    BY <1>2
  <2>2. t \in Seq(Iteration \cup S) /\ u \in Seq(Iteration \cup S)
    BY <1>2, <1>3, <2>1
  <2> HIDE DEF u, S
  <2>3. /\ Len(t \o u) = Len(t) + Len(u)
        /\ \A k \in 1..(Len(t) + Len(u)) :
               (t \o u)[k] = IF k <= Len(t) THEN t[k] ELSE u[k - Len(t)]
    BY <2>2, ConcatProperties
  <2> QED
    BY <1>1, <1>2, <1>3, <2>1, <2>3
<1>5. /\ Len(rounds') = q + n
      /\ \A k \in 1..q : rounds'[k] = rs[k]
      /\ \A k \in 1..n : rounds'[q + k] = p[k]
  <2>1. p \in Seq(Round) /\ Len(p) = n
    BY <1>2, NewRoundIsRound DEF RoundTypes
  <2> HIDE DEF p
  <2>2. /\ Len(rs \o p) = Len(rs) + Len(p)
        /\ \A k \in 1..(Len(rs) + Len(p)) :
               (rs \o p)[k] = IF k <= Len(rs) THEN rs[k] ELSE p[k - Len(rs)]
    BY <1>3, <2>1, ConcatProperties
  <2>3. ASSUME NEW k \in 1..n
        PROVE  (rs \o p)[q + k] = p[k]
    <3>1. q + k \in 1..(q + n) /\ ~(q + k <= q) /\ (q + k) - q = k
      BY <1>2, <1>3
    <3> QED
      BY <2>1, <2>2, <3>1
  <2>4. \A k \in 1..q : (rs \o p)[k] = rs[k]
    BY <1>2, <1>3, <2>1, <2>2
  <2> QED
    BY <1>1, <2>1, <2>2, <2>3, <2>4
<1> QED
  BY <1>2, <1>4, <1>5

\* Every host's pair gets its first request, the problem.
LEMMA SpawnRound1IsSound ==
    ASSUME NEW rs, NEW t, Tables(rs, t), Sound(rs, t), NEW input \in Inputs,
           input.kind \notin {"draft", "mediate"}, NEW status \in SessionStatuses,
           SpawnRound1(rs, t, input, status)
    PROVE  Sound(rounds', iters')
<1> DEFINE n == Cardinality(ReadyHosts)
           m == Len(t)
           q == Len(rs)
<1>1. /\ n \in Nat /\ Len(rounds') = q + n /\ Len(iters') = m + n
      /\ \A k \in 1..q : rounds'[k] = rs[k]
  BY SpawnRound1Rows
<1>2. \A k \in 1..n : HostOrder[k] \in Hosts /\ Len(Workers[HostOrder[k]]) = 2
  BY ReadyHostsArePrefix, RegistryAssumption
<1>3. Tables(rounds', iters') /\ Extends(t, iters')
  BY SpawnRound1Keeps DEF Kept
<1>4. /\ t \in Seq(Iteration) /\ m \in Nat /\ rs \in Seq(Round) /\ q \in Nat
      /\ \A j \in DOMAIN t : t[j].round \in 1..q
  BY DEF Tables
<1>5. \A k \in 1..n :
          /\ iters'[m + k].round = q + k /\ iters'[m + k].num = 1
          /\ iters'[m + k].output = None /\ iters'[m + k].input = input
          /\ iters'[m + k].src = None /\ iters'[m + k].dst = Workers[HostOrder[k]][1]
  <2>1. \A k \in 1..n : iters'[m + k] = NewIteration(q + k, 1, None,
                                                    Workers[HostOrder[k]][1], input)
    BY SpawnRound1Rows
  <2> SUFFICES ASSUME NEW k \in 1..n
               PROVE  /\ iters'[m + k].round = q + k /\ iters'[m + k].num = 1
                      /\ iters'[m + k].output = None /\ iters'[m + k].input = input
                      /\ iters'[m + k].src = None
                      /\ iters'[m + k].dst = Workers[HostOrder[k]][1]
    OBVIOUS
  <2>2. iters'[m + k] = NewIteration(q + k, 1, None, Workers[HostOrder[k]][1], input)
    BY <2>1
  <2> HIDE DEF m, q, n
  <2> QED
    BY <2>2 DEF NewIteration
<1>6. \A k \in 1..n : rounds'[q + k].host = HostOrder[k]
  <2>1. \A k \in 1..n : rounds'[q + k] = NewRound("same_host_pair", HostOrder[k])
    BY SpawnRound1Rows
  <2> HIDE DEF q, n
  <2> SUFFICES ASSUME NEW k \in 1..n
               PROVE  rounds'[q + k].host = HostOrder[k]
    OBVIOUS
  <2>2. rounds'[q + k] = NewRound("same_host_pair", HostOrder[k])
    BY <2>1
  <2> QED
    BY <2>2 DEF NewRound
<1>7. SameRounds(rs, rounds')
  BY <1>1, <1>4 DEF SameRounds
<1>8. ASSUME NEW i \in DOMAIN iters', i > m
      PROVE  RowSound(rounds', iters', i)
  <2>1. PICK k \in 1..n : i = m + k
    <3>1. i \in 1..(m + n)
      BY <1>1, <1>3, <1>8 DEF Tables
    <3>2. i - m \in 1..n /\ i = m + (i - m)
      BY <1>1, <1>4, <1>8, <3>1
    <3> QED
      BY <3>2
  <2>2. /\ iters'[i].round = q + k /\ iters'[i].num = 1 /\ iters'[i].output = None
        /\ iters'[i].input = input /\ iters'[i].src = None
        /\ iters'[i].dst = Workers[HostOrder[k]][1]
    BY <1>5, <2>1
  <2>3. UpTo(iters', i) = {i}
    <3>1. \A j \in 1..m : iters'[j].round # q + k
      <4>1. \A j \in 1..m : iters'[j] = t[j] /\ t[j].round \in 1..q
        BY <1>3, <1>4 DEF Extends
      <4>2. q + k \notin 1..q
        BY <1>1, <1>4
      <4> QED
        BY <4>1, <4>2
    <3>2. ASSUME NEW j \in (m + 1)..(m + n), iters'[j].round = q + k
          PROVE  j = i
      <4>1. j - m \in 1..n /\ j = m + (j - m)
        BY <1>1, <1>4
      <4>2. iters'[j].round = q + (j - m)
        BY <1>5, <4>1
      <4>3. q + (j - m) = q + k
        BY <3>2, <4>2, Zenon
      <4>4. q \in Int /\ m \in Int /\ k \in Int /\ j \in Int
        BY <1>1, <1>4
      <4> QED
        BY <2>1, <4>3, <4>4
    <3>3. DOMAIN iters' = 1..(m + n)
      BY <1>1, <1>3 DEF Tables
    <3>4. \A j \in 1..(m + n) : j \in 1..m \/ j \in (m + 1)..(m + n)
      BY <1>1, <1>4
    <3>5. \A j \in DOMAIN iters' : iters'[j].round = q + k => j = i
      BY <3>1, <3>2, <3>3, <3>4
    <3>6. i \in DOMAIN iters' /\ i <= i
      BY <1>1, <1>4, <2>1, <3>3
    <3> QED
      BY <2>2, <3>5, <3>6 DEF UpTo, IterationsOf
  <2>4. Cardinality({i}) = 1
    BY FS_Singleton
  <2>5. StaysHome(rounds', iters', i)
    <3>1. rounds'[q + k].host = HostOrder[k] /\ Len(Workers[HostOrder[k]]) = 2
          /\ Workers[HostOrder[k]] \in Seq(AllWorkers)
      BY <1>2, <1>6, RegistryAssumption
    <3>2. Workers[HostOrder[k]][1] \in Elements(Workers[HostOrder[k]])
      BY <3>1 DEF Elements
    <3> QED
      BY <2>2, <3>1, <3>2 DEF StaysHome
  <2> QED
    BY <2>2, <2>3, <2>4, <2>5 DEF RowSound, AnswerClosed, WithinBudget
<1> QED
  BY <1>3, <1>7, <1>8, NewRowsSuffice

-----------------------------------------------------------------------------
(***************************************************************************)
(* The actions.                                                            *)
(***************************************************************************)
SoundInv == TypeInv /\ Sound(rounds, iters)

LEMMA MaybeAdvanceIsSound ==
    ASSUME NEW rs, NEW t, Tables(rs, t), Sound(rs, t), MaybeAdvanceToRound2(rs, t)
    PROVE  Sound(rounds', iters')
<1> DEFINE input == ArbitratorInput(RoundOutcomesPerHost(rs))
<1>1. \/ rounds' = rs /\ iters' = t
      \/ SpawnRound2(rs, t, input)
  BY DEF MaybeAdvanceToRound2
<1>2. input \in Inputs
  BY OutcomesAreInput DEF Tables
<1>3. input.kind # "mediate"
  BY DEF ArbitratorInput
<1> HIDE DEF input
<1>4. ASSUME SpawnRound2(rs, t, input)
      PROVE  Sound(rounds', iters')
  BY <1>2, <1>3, <1>4, SpawnRound2IsSound
<1> QED
  BY <1>1, <1>4

LEMMA OtherAgentIsOfThePair ==
    ASSUME NEW rs, NEW t, Tables(rs, t), NEW r \in DOMAIN rs,
           rs[r].type = "same_host_pair", NEW a
    PROVE  OtherAgentOnHost(rs[r].host, a) \in Elements(Workers[rs[r].host])
<1>1. rs[r].host \in Hosts /\ Len(Workers[rs[r].host]) = 2
  BY DEF Tables, Manned
<1>2. Workers[rs[r].host] \in Seq(AllWorkers)
  BY <1>1, RegistryAssumption
<1> QED
  BY <1>1, <1>2 DEF OtherAgentOnHost, Elements

LEMMA AdvanceRound1IsSound ==
    ASSUME SoundInv, NEW t, NEW r \in DOMAIN rounds, rounds[r].type = "same_host_pair",
           Tables(rounds, t), Sound(rounds, t), Answered(t, r) # {}, AdvanceRound1(t, r)
    PROVE  Sound(rounds', iters')
<1> DEFINE l == LatestAnswered(t, r)
           last == t[l]
           other == OtherAgentOnHost(rounds[r].host, last.dst)
<1>1. t \in Seq(Iteration)
  BY DEF Tables
<1>2. l \in DOMAIN t /\ last.round = r /\ last.output \in Texts /\ last \in Iteration
  BY <1>1, LatestAnswerIsText
<1>3. CASE rounds' = UpdateRound(rounds, r, "escalated", None) /\ iters' = t
  BY <1>3, UpdateRoundStaysSound DEF RoundStatuses
<1>4. CASE MaybeAdvanceToRound2(UpdateRound(rounds, r, "converged", last.output), t)
  <2>1. /\ Tables(UpdateRound(rounds, r, "converged", last.output), t)
        /\ Sound(UpdateRound(rounds, r, "converged", last.output), t)
    BY <1>2, UpdateRoundKeeps, UpdateRoundStaysSound DEF RoundStatuses
  <2> QED
    BY <1>4, <2>1, MaybeAdvanceIsSound
<1>5. CASE /\ iters' = SpawnIteration(t, r, last.dst, other, Draft(last.output))
           /\ UNCHANGED <<session, rounds>>
  <2>1. other \in Agents /\ other \in Elements(Workers[rounds[r].host])
    BY OtherAgentIsAgent, OtherAgentIsOfThePair
  <2>2. last.dst \in Agents /\ last.dst \in Elements(Workers[rounds[r].host])
    BY <1>2 DEF Iteration, Sound, RowSound, StaysHome
  <2>3. /\ Draft(last.output) \in Inputs /\ Draft(last.output).kind = "draft"
        /\ Draft(last.output).text = last.output
    BY <1>2 DEF Inputs, Draft
  <2>4. l \in IterationsOf(t, r)
    BY <1>2 DEF IterationsOf
  <2>5. Sound(rounds, SpawnIteration(t, r, last.dst, other, Draft(last.output)))
    <3> HIDE DEF other, l
    <3> QED
      BY <2>1, <2>2, <2>3, <2>4, SpawnedRequestIsSound
  <2> QED
    BY <1>5, <2>5
<1> QED
  BY <1>3, <1>4, <1>5 DEF AdvanceRound1

LEMMA RespondInRound1IsSound ==
    ASSUME SoundInv, NEW i, NEW output, NEW assess \in {"converged", "more_work_needed"},
           RespondInRound1(i, output, assess)
    PROVE  Sound(rounds', iters')
<1> DEFINE t == Respond(iters, i, output, assess)
           r == iters[i].round
<1>1. Tables(rounds, iters) /\ Sound(rounds, iters)
  BY TypeInvTables DEF SoundInv
<1>2. i \in DOMAIN iters /\ iters[i].status # "complete" /\ output \in Texts
  BY DEF RespondInRound1, CanRespond, Texts
<1>3. r \in DOMAIN rounds /\ rounds[r].type = "same_host_pair"
  BY <1>1, <1>2 DEF RespondInRound1, CanRespond, Tables
<1>4. Tables(rounds, t) /\ Sound(rounds, t) /\ Answered(t, r) # {}
  BY <1>1, <1>2, RespondKeeps, RespondStaysSound
<1> QED
  BY <1>3, <1>4, AdvanceRound1IsSound DEF RespondInRound1

LEMMA RespondInRound2IsSound ==
    ASSUME SoundInv, NEW i, NEW output, NEW assess \in {"converged", "more_work_needed"},
           RespondInRound2(i, output, assess)
    PROVE  Sound(rounds', iters')
<1> DEFINE t == Respond(iters, i, output, assess)
           rs == UpdateRound(rounds, iters[i].round, "complete", output)
<1>1. Tables(rounds, iters) /\ Sound(rounds, iters)
  BY TypeInvTables DEF SoundInv
<1>2. i \in DOMAIN iters /\ iters[i].status # "complete" /\ output \in Texts
  BY DEF RespondInRound2, CanRespond, Texts
<1>3. iters[i].round \in DOMAIN rounds
  BY <1>1, <1>2 DEF Tables
<1>4. Tables(rounds, t) /\ Sound(rounds, t)
  BY <1>1, <1>2, RespondKeeps, RespondStaysSound
<1>5. Tables(rs, t) /\ Sound(rs, t)
  BY <1>2, <1>3, <1>4, UpdateRoundKeeps, UpdateRoundStaysSound DEF RoundStatuses
<1>6. CASE SpawnRound3(rs, t, Draft(output))
  <2>1. Draft(output) \in Inputs /\ Draft(output).kind # "mediate"
    BY <1>2 DEF Inputs, Draft
  <2> QED
    BY <1>5, <1>6, <2>1, SpawnRound3IsSound
<1>7. CASE rounds' = rs /\ iters' = t /\ UNCHANGED session
  BY <1>5, <1>7
<1> QED
  BY <1>6, <1>7 DEF RespondInRound2

LEMMA CloseReviewIsSound ==
    ASSUME SoundInv, NEW r \in DOMAIN rounds, NEW vs \in SUBSET Review,
           CloseReview(r, vs)
    PROVE  Sound(rounds', iters')
<1> DEFINE rs == UpdateRound(rounds, r, "complete", None)
           rejecters == RejectersOf(vs, r)
           input == MediationInput(Round2Outcome(rs), rejecters)
<1>1. Tables(rounds, iters) /\ Sound(rounds, iters)
  BY TypeInvTables DEF SoundInv
<1>2. Tables(rs, iters) /\ Sound(rs, iters)
  BY <1>1, UpdateRoundKeeps, UpdateRoundStaysSound DEF RoundStatuses
<1>3. rejecters \in SUBSET Agents
  BY DEF RejectersOf, Review
<1>4. Round2Outcome(rs) \in Texts \cup {None}
  BY <1>2, Round2OutcomeIsText DEF Tables
<1>5. CASE SpawnExecuteRound(rs, iters)
  BY <1>2, <1>5, SpawnExecuteRoundIsSound
<1>6. CASE MediationAttempts(rs) < MAX_MEDIATION_ATTEMPTS /\ SpawnRound2(rs, iters, input)
  <2>1. input \in Inputs
    BY <1>3, <1>4 DEF Inputs
  <2>2. Cardinality(RoundsOfType(rs, "cross_host_arbitration")) \in Nat
    <3>1. RoundsOfType(rs, "cross_host_arbitration") \in SUBSET (1..Len(rs)) /\ Len(rs) \in Nat
      BY <1>2 DEF RoundsOfType, Tables
    <3> QED
      BY <3>1, SubsetOfInterval
  <2>3. Cardinality(RoundsOfType(rs, "cross_host_arbitration")) <= MAX_MEDIATION_ATTEMPTS
    BY <1>6, <2>2, LimitAssumption DEF MediationAttempts
  <2> QED
    BY <1>2, <1>6, <2>1, <2>3, SpawnRound2IsSound
<1>7. CASE SpawnRound1(rs, iters, ProblemWith(rejecters), session)
  <2>1. /\ ProblemWith(rejecters) \in Inputs
        /\ ProblemWith(rejecters).kind \notin {"draft", "mediate"}
    BY <1>3 DEF Inputs, ProblemWith
  <2>2. session \in SessionStatuses
    BY TypeInvTables DEF SoundInv
  <2> QED
    BY <1>2, <1>7, <2>1, <2>2, SpawnRound1IsSound
<1> QED
  BY <1>5, <1>6, <1>7 DEF CloseReview

LEMMA EmitReviewIsSound ==
    ASSUME SoundInv, NEW r \in DOMAIN rounds, NEW a \in Agents,
           NEW decision \in {"approve", "reject"}, EmitReview(r, a, decision)
    PROVE  Sound(rounds', iters')
<1> DEFINE vs == reviews \cup {[round |-> r, reviewer |-> a, decision |-> decision]}
<1>1. r \in Nat \ {0} /\ Sound(rounds, iters)
  BY TypeInvTables DEF SoundInv, Tables
<1>2. vs \in SUBSET Review
  BY <1>1 DEF SoundInv, TypeInv, TypeOK, Review
<1>3. CloseReview(r, vs) \/ UNCHANGED <<rounds, iters>>
  BY DEF EmitReview
<1> HIDE DEF vs
<1> QED
  BY <1>1, <1>2, <1>3, CloseReviewIsSound

LEMMA AnswersAreSound ==
    ASSUME SoundInv, NEW i \in DOMAIN iters, iters[i].status # "complete",
           NEW output \in Texts, NEW assess \in {"converged", "more_work_needed"},
           iters' = Respond(iters, i, output, assess),
           \/ rounds' = rounds
           \/ \E status \in {"complete", "escalated"} :
                  rounds' = UpdateRound(rounds, iters[i].round, status, output)
    PROVE  Sound(rounds', iters')
<1>1. Tables(rounds, iters) /\ Sound(rounds, iters)
  BY TypeInvTables DEF SoundInv
<1>2. iters[i].round \in DOMAIN rounds
  BY <1>1 DEF Tables
<1>3. Tables(rounds, iters') /\ Sound(rounds, iters')
  BY <1>1, RespondKeeps, RespondStaysSound
<1> QED
  BY <1>2, <1>3, UpdateRoundStaysSound DEF RoundStatuses

LEMMA TablesAreTyped ==
    ASSUME NEW rs, NEW t, Tables(rs, t)
    PROVE  /\ Len(rs) \in Nat /\ Len(t) \in Nat
           /\ \A i \in DOMAIN t : t[i] \in Iteration
BY DEF Tables

\* A request is left alone, or opened for its destination.
Opened(a, b) ==
    \/ b = a
    \/ /\ a.status = "awaiting_nudge"
       /\ \E submit \in BOOLEAN :
              b = [a EXCEPT !.status = "awaiting_destination", !.nudged = submit]

\* Opening requests changes nothing else of them.
LEMMA OpenedStaySound ==
    ASSUME SoundInv, Step, rounds' = rounds, Len(iters') = Len(iters),
           \A i \in DOMAIN iters : Opened(iters[i], iters'[i])
    PROVE  Sound(rounds', iters')
<1>1. Tables(rounds, iters) /\ Sound(rounds, iters) /\ Tables(rounds', iters')
  BY TypeInvTables DEF SoundInv, Step
<1>2. ASSUME NEW i \in DOMAIN iters
      PROVE  SameRequest(iters[i], iters'[i])
  <2>1. iters[i] \in Iteration /\ AnswerClosed(iters, i)
    <3>1. iters[i] \in Iteration
      BY <1>1, TablesAreTyped, Zenon
    <3> QED
      BY <1>1, <3>1 DEF Sound, RowSound
  <2>2. CASE iters'[i] = iters[i]
    BY <2>1, <2>2 DEF SameRequest, AnswerClosed
  <2>3. ASSUME iters[i].status = "awaiting_nudge", NEW submit \in BOOLEAN,
               iters'[i] = [iters[i] EXCEPT !.status = "awaiting_destination",
                                            !.nudged = submit]
        PROVE  SameRequest(iters[i], iters'[i])
    <3>1. iters[i].output = None
      BY <2>1, <2>3 DEF AnswerClosed
    <3> QED
      BY <2>1, <2>3, <3>1 DEF SameRequest, Iteration
  <2> QED
    BY <2>2, <2>3 DEF Opened
<1>3. SameRequests(iters, iters') /\ SameRounds(rounds, rounds')
  <2>1. Len(iters) \in Nat /\ Len(rounds) \in Nat
    BY <1>1, TablesAreTyped, Zenon
  <2>2. SameRounds(rounds, rounds')
    BY <2>1 DEF SameRounds
  <2>3. Len(iters) <= Len(iters')
    BY <2>1
  <2> QED
    BY <1>2, <2>2, <2>3, Zenon DEF SameRequests
<1> QED
  BY <1>1, <1>3, RewrittenStaySound

LEMMA AutoSkipOpens ==
    ASSUME TypeInv, AutoSkipExpiredNudges
    PROVE  /\ Step /\ rounds' = rounds
           /\ Len(iters') = Len(iters)
           /\ \A i \in DOMAIN iters : Opened(iters[i], iters'[i])
<1>1. Step /\ rounds' = rounds
  BY AutoSkipStep DEF AutoSkipExpiredNudges
<1>2. PICK k \in AwaitingNudge :
          iters' = AwaitDestination(iters, {i \in AwaitingNudge : i <= k})
  BY DEF AutoSkipExpiredNudges
<1>3. iters \in Seq(Iteration) /\ iters' \in Seq(Iteration)
  BY <1>1, TypeInvTables DEF Step, Tables
<1>4. Len(iters') = Len(iters)
  <2>1. DOMAIN iters' = DOMAIN iters
    BY <1>2 DEF AwaitDestination
  <2> QED
    BY <1>3, <2>1
<1>5. ASSUME NEW i \in DOMAIN iters
      PROVE  Opened(iters[i], iters'[i])
  <2>1. iters[i] \in Iteration
    BY <1>3
  <2>2. iters'[i] = iters[i] \/ /\ iters'[i] = [iters[i] EXCEPT !.status = "awaiting_destination"]
                                /\ iters[i].status = "awaiting_nudge"
    BY <1>2 DEF AwaitDestination, AwaitingNudge
  <2>3. [iters[i] EXCEPT !.status = "awaiting_destination"] =
            [iters[i] EXCEPT !.status = "awaiting_destination", !.nudged = iters[i].nudged]
        /\ iters[i].nudged \in BOOLEAN
    BY <2>1 DEF Iteration
  <2> QED
    BY <2>2, <2>3 DEF Opened
<1> QED
  BY <1>1, <1>4, <1>5

LEMMA PostNudgeOpens ==
    ASSUME TypeInv, NEW i, NEW submit \in BOOLEAN, PostNudge(i, submit)
    PROVE  /\ Step /\ rounds' = rounds
           /\ Len(iters') = Len(iters)
           /\ \A j \in DOMAIN iters : Opened(iters[j], iters'[j])
<1>1. Step /\ rounds' = rounds
  BY PostNudgeStep DEF PostNudge
<1>2. iters \in Seq(Iteration) /\ iters' \in Seq(Iteration)
  BY <1>1, TypeInvTables DEF Step, Tables
<1>3. i \in DOMAIN iters /\ iters[i].status = "awaiting_nudge" /\ iters[i] \in Iteration
  BY <1>2 DEF PostNudge, AwaitingNudge
<1>4. iters' = [iters EXCEPT ![i] = [iters[i] EXCEPT !.status = "awaiting_destination",
                                                      !.nudged = submit]]
  BY <1>2, <1>3 DEF PostNudge, Iteration
<1>5. Len(iters') = Len(iters)
  BY <1>2, <1>4
<1>6. \A j \in DOMAIN iters : Opened(iters[j], iters'[j])
  <2>1. \A j \in DOMAIN iters :
            iters'[j] = IF j = i THEN [iters[i] EXCEPT !.status = "awaiting_destination",
                                                       !.nudged = submit]
                        ELSE iters[j]
    BY <1>2, <1>4
  <2> QED
    BY <1>3, <2>1 DEF Opened
<1> QED
  BY <1>1, <1>5, <1>6

LEMMA OpeningIsSound ==
    ASSUME SoundInv,
           \/ AutoSkipExpiredNudges
           \/ \E i \in DOMAIN iters, submit \in BOOLEAN : PostNudge(i, submit)
    PROVE  Sound(rounds', iters')
BY AutoSkipOpens, PostNudgeOpens, OpenedStaySound DEF SoundInv

LEMMA PostAbortIsSound ==
    ASSUME SoundInv, PostAbort
    PROVE  Sound(rounds', iters')
<1>1. Tables(rounds, iters) /\ Sound(rounds, iters) /\ Tables(rounds', iters') /\ iters' = iters
  BY TypeInvTables, PostAbortStep DEF SoundInv, Step, PostAbort
<1>2. rounds \in Seq(Round) /\ rounds' \in Seq(Round) /\ Len(rounds) \in Nat
  BY <1>1 DEF Tables
<1>3. \A r \in DOMAIN rounds : rounds'[r].type = rounds[r].type /\ rounds'[r].host = rounds[r].host
  <2> SUFFICES ASSUME NEW r \in DOMAIN rounds
               PROVE  rounds'[r].type = rounds[r].type /\ rounds'[r].host = rounds[r].host
    OBVIOUS
  <2>1. rounds[r] \in Round
    BY <1>2
  <2>2. rounds'[r] = rounds[r] \/ rounds'[r] = [rounds[r] EXCEPT !.status = "aborted"]
    BY DEF PostAbort
  <2> QED
    BY <2>1, <2>2 DEF Round
<1>4. SameRounds(rounds, rounds')
  <2>1. Len(rounds) <= Len(rounds')
    BY PostAbortStep DEF SoundInv, Step
  <2> QED
    BY <1>3, <2>1 DEF SameRounds
<1> QED
  BY <1>1, <1>4, RoundsRewrittenStaySound

LEMMA CloseWithLastOutputIsSound ==
    ASSUME SoundInv, NEW S \in SUBSET RoundsOfType(rounds, "same_host_pair")
    PROVE  Sound(CloseWithLastOutput(S), iters)
<1> DEFINE rs == CloseWithLastOutput(S)
<1>1. Tables(rounds, iters) /\ Sound(rounds, iters)
  BY TypeInvTables DEF SoundInv
<1>2. Tables(rs, iters) /\ Len(rs) = Len(rounds)
  BY CloseWithLastOutputKeeps DEF SoundInv
<1>3. rounds \in Seq(Round) /\ Len(rounds) \in Nat
  BY <1>1 DEF Tables
<1>4. ASSUME NEW r \in DOMAIN rounds
      PROVE  rs[r].type = rounds[r].type /\ rs[r].host = rounds[r].host
  <2>1. rounds[r] \in Round
    BY <1>3
  <2>2. \/ rs[r] = rounds[r]
        \/ rs[r] = [rounds[r] EXCEPT !.status = "converged",
                                     !.outcome = iters[LatestAnswered(iters, r)].output]
    BY DEF CloseWithLastOutput
  <2> HIDE DEF rs
  <2> QED
    BY <2>1, <2>2 DEF Round
<1> HIDE DEF rs
<1>5. SameRounds(rounds, rs)
  BY <1>2, <1>3, <1>4 DEF SameRounds
<1>6. Sound(rs, iters)
  BY <1>1, <1>2, <1>5, RoundsRewrittenStaySound
<1> QED
  BY <1>6 DEF rs

LEMMA ForceConvergeIsSound ==
    ASSUME SoundInv, ForceConvergeRound1
    PROVE  Sound(rounds', iters')
<1> DEFINE open == {r \in RoundsOfType(rounds, "same_host_pair") :
                       rounds[r].status \in {"in_progress", "escalated", "pending"}}
           rs == CloseWithLastOutput(open)
<1>1. Tables(rs, iters) /\ Sound(rs, iters)
  BY CloseWithLastOutputKeeps, CloseWithLastOutputIsSound DEF SoundInv
<1>2. \/ MaybeAdvanceToRound2(rs, iters)
      \/ rounds' = rs /\ UNCHANGED <<session, iters>>
  BY Zenon DEF ForceConvergeRound1
<1> HIDE DEF rs, open
<1>3. ASSUME MaybeAdvanceToRound2(rs, iters)
      PROVE  Sound(rounds', iters')
  BY <1>1, <1>3, MaybeAdvanceIsSound
<1> QED
  BY <1>1, <1>2, <1>3

LEMMA ProceedIsSound ==
    ASSUME SoundInv, ProceedToArbitrator
    PROVE  Sound(rounds', iters')
<1> DEFINE open == {r \in RoundsOfType(rounds, "same_host_pair") :
                       rounds[r].status # "converged"}
           rs == CloseWithLastOutput(open)
           input == ArbitratorInput(RoundOutcomesPerHost(rs))
<1>1. Tables(rs, iters) /\ Sound(rs, iters)
  BY CloseWithLastOutputKeeps, CloseWithLastOutputIsSound DEF SoundInv
<1>2. input \in Inputs /\ input.kind # "mediate"
  BY <1>1, OutcomesAreInput DEF Tables, ArbitratorInput
<1>3. \/ SpawnRound2(rs, iters, input)
      \/ rounds' = rs /\ UNCHANGED <<session, iters>>
  BY Zenon DEF ProceedToArbitrator
<1> HIDE DEF rs, open, input
<1>4. ASSUME SpawnRound2(rs, iters, input)
      PROVE  Sound(rounds', iters')
  BY <1>1, <1>2, <1>4, SpawnRound2IsSound
<1> QED
  BY <1>1, <1>3, <1>4

LEMMA RetryIsSound ==
    ASSUME SoundInv, NEW i \in DOMAIN iters, NEW submit \in BOOLEAN,
           RetryIteration(i, submit)
    PROVE  Sound(rounds', iters')
<1> DEFINE it == iters[i]
           r == it.round
           dst == IF it.src = None THEN it.dst ELSE it.src
           input == IF it.output = None THEN it.input ELSE Draft(it.output)
           new == NewIteration(r, NextNum(iters, r), it.dst, dst, input)
           t == Append(iters, new)
           m == Len(iters) + 1
<1>1. Tables(rounds, iters) /\ Sound(rounds, iters) /\ Tables(rounds', iters')
  BY TypeInvTables, RetryStep DEF SoundInv, Step
<1>2. /\ iters \in Seq(Iteration) /\ iters' \in Seq(Iteration) /\ Len(iters) \in Nat
      /\ rounds \in Seq(Round) /\ Len(rounds) \in Nat
      /\ it \in Iteration /\ r \in DOMAIN rounds /\ RowSound(rounds, iters, i)
  BY <1>1 DEF Tables, Sound
<1>3. /\ it.dst \in Agents /\ it.src \in Agents \cup {None}
      /\ it.input \in Inputs /\ it.output \in Texts \cup {None}
  BY <1>2 DEF Iteration
<1>4. dst \in Agents /\ input \in Inputs
  <2>1. it.output # None => Draft(it.output) \in Inputs
    BY <1>3 DEF Inputs
  <2> QED
    BY <1>3, <2>1
<1>5. i \in IterationsOf(iters, r)
  BY DEF IterationsOf
<1>6. ASSUME rounds[r].type = "same_host_pair"
      PROVE  /\ dst \in Elements(Workers[rounds[r].host])
             /\ it.dst \in Elements(Workers[rounds[r].host]) \cup {None}
             /\ input.kind = "draft" =>
                    \E j \in IterationsOf(iters, r) : iters[j].output = input.text
  <2>1. StaysHome(rounds, iters, i)
    BY <1>2 DEF RowSound
  <2>2. Draft(it.output).text = it.output
    BY DEF Draft
  <2> QED
    BY <1>5, <1>6, <2>1, <2>2 DEF StaysHome
<1>7. \/ rounds' = rounds
      \/ rounds' = [rounds EXCEPT ![r].status = "in_progress"]
  BY DEF RetryIteration
<1>8. /\ Len(rounds') = Len(rounds)
      /\ \A q \in DOMAIN rounds : /\ rounds'[q].type = rounds[q].type
                                  /\ rounds'[q].host = rounds[q].host
  <2>1. rounds[r] \in Round
    BY <1>2
  <2> HIDE DEF r
  <2> QED
    BY <1>2, <1>7, <2>1 DEF Round
<1>9. Tables(rounds', iters) /\ Sound(rounds', iters)
  <2>1. rounds' \in Seq(Round)
    BY <1>1 DEF Tables
  <2>2. Tables(rounds', iters)
    BY <1>1, <1>2, <1>8, <2>1 DEF Tables, Manned
  <2>3. SameRounds(rounds, rounds')
    BY <1>2, <1>8 DEF SameRounds
  <2> QED
    BY <1>1, <2>2, <2>3, RoundsRewrittenStaySound
<1>10. \/ iters' = t
       \/ iters' = [t EXCEPT ![Len(t)].status = "awaiting_destination",
                              ![Len(t)].nudged = TRUE]
  BY Zenon DEF RetryIteration, SpawnIteration
<1>11. new \in Iteration
  BY <1>2, <1>3, <1>4, NextNumIsPositive, NewIterationIsIteration
<1>12. /\ new.round = r /\ new.num = NextNum(iters, r) /\ new.src = it.dst /\ new.dst = dst
       /\ new.input = input /\ new.output = None
  BY DEF NewIteration
<1> HIDE DEF new, it, r, dst, input
<1>13. t \in Seq(Iteration) /\ Len(t) = m /\ t[m] = new /\ \A j \in DOMAIN iters : t[j] = iters[j]
  BY <1>2, <1>11
<1> HIDE DEF t
<1>14. /\ Len(iters') = m
       /\ \A j \in DOMAIN iters : iters'[j] = iters[j]
       /\ \/ iters'[m] = new
          \/ iters'[m] = [new EXCEPT !.status = "awaiting_destination", !.nudged = TRUE]
  <2>1. m \in DOMAIN t /\ \A j \in DOMAIN iters : j \in DOMAIN t /\ j # m
    BY <1>2, <1>13
  <2>2. CASE iters' = t
    BY <1>13, <2>2
  <2>3. CASE iters' = [t EXCEPT ![Len(t)].status = "awaiting_destination",
                                ![Len(t)].nudged = TRUE]
    <3>1. iters' = [t EXCEPT ![m] = [new EXCEPT !.status = "awaiting_destination",
                                                !.nudged = TRUE]]
      BY <1>11, <1>13, <2>1, <2>3 DEF Iteration
    <3> QED
      BY <1>13, <2>1, <3>1
  <2> QED
    BY <1>10, <2>2, <2>3
<1>15. Extends(iters, iters')
  BY <1>2, <1>14 DEF Extends
<1>16. /\ iters'[m].round = r /\ iters'[m].num = NextNum(iters, r) /\ iters'[m].src = it.dst
       /\ iters'[m].dst = dst /\ iters'[m].input = input /\ iters'[m].output = None
  BY <1>11, <1>12, <1>14 DEF Iteration
<1>17. r \in DOMAIN rounds' /\ it.dst \in Agents \cup {None} /\ IterationsOf(iters, r) # {}
  BY <1>2, <1>3, <1>5, <1>8, <1>9 DEF Tables
<1> QED
  BY <1>1, <1>2, <1>4, <1>6, <1>8, <1>9, <1>14, <1>15, <1>16, <1>17, AddedRequestIsSound

-----------------------------------------------------------------------------
(***************************************************************************)
(* The theorems.                                                           *)
(***************************************************************************)
LEMMA AgentsAreSound ==
    ASSUME SoundInv, AgentStep \/ AgentFault
    PROVE  Sound(rounds', iters')
<1>1. ASSUME EmitResponse
      PROVE  Sound(rounds', iters')
  <2>1. PICK i \in DOMAIN iters, output \in Texts, assess \in {"converged", "more_work_needed"} :
            RespondInRound1(i, output, assess) \/ RespondInRound2(i, output, assess)
    BY <1>1 DEF EmitResponse
  <2> QED
    BY <2>1, RespondInRound1IsSound, RespondInRound2IsSound
<1>2. ASSUME NEW r \in DOMAIN rounds, NEW a \in Agents, NEW decision \in {"approve", "reject"},
             EmitReview(r, a, decision)
      PROVE  Sound(rounds', iters')
  BY <1>2, EmitReviewIsSound
<1>3. ASSUME ExecutorEmit
      PROVE  Sound(rounds', iters')
  <2>1. PICK i \in DOMAIN iters, output \in Texts :
            ExecutorSucceeds(i, output) \/ ExecutorFails(i, output)
    BY <1>3 DEF ExecutorEmit
  <2>2. iters[i].status # "complete"
    BY <2>1 DEF ExecutorSucceeds, ExecutorFails, CanExecute
  <2>3. PICK assess \in {"converged", "more_work_needed"}, status \in {"complete", "escalated"} :
            /\ iters' = Respond(iters, i, output, assess)
            /\ rounds' = UpdateRound(rounds, iters[i].round, status, output)
    BY <2>1 DEF ExecutorSucceeds, ExecutorFails
  <2> QED
    BY <2>2, <2>3, AnswersAreSound
<1>4. ASSUME NEW i \in DOMAIN iters, NEW output \in Reports,
             NEW assess \in {"converged", "more_work_needed"},
             RespondWithWrongTool(i, output, assess)
      PROVE  Sound(rounds', iters')
  <2>1. iters[i].status # "complete" /\ output \in Texts
    BY <1>4 DEF RespondWithWrongTool, CanRespond, Texts
  <2>2. iters' = Respond(iters, i, output, assess) /\ rounds' = rounds
    BY <1>4 DEF RespondWithWrongTool
  <2> QED
    BY <2>1, <2>2, AnswersAreSound
<1> QED
  BY <1>1, <1>2, <1>3, <1>4 DEF AgentStep, AgentFault

LEMMA OperatorIsSound ==
    ASSUME SoundInv, OperatorRoutine \/ OperatorOverride \/ AutoSkipExpiredNudges
    PROVE  Sound(rounds', iters')
<1>1. Tables(rounds, iters) /\ Sound(rounds, iters)
  BY TypeInvTables DEF SoundInv
<1>2. ASSUME StartSession
      PROVE  Sound(rounds', iters')
  <2>1. SpawnRound1(rounds, iters, Problem, "drafting")
    BY <1>2 DEF StartSession
  <2>2. Problem \in Inputs /\ Problem.kind \notin {"draft", "mediate"}
        /\ "drafting" \in SessionStatuses
    BY DEF Inputs, Problem, SessionStatuses
  <2> QED
    BY <1>1, <2>1, <2>2, SpawnRound1IsSound
<1>3. ASSUME NEW a, SkipAgent(a)
      PROVE  Sound(rounds', iters')
  BY <1>1, <1>3 DEF SkipAgent
<1>4. ASSUME ResolveAbort
      PROVE  Sound(rounds', iters')
  BY <1>1, <1>4 DEF ResolveAbort
<1> QED
  BY <1>2, <1>3, <1>4, OpeningIsSound, RetryIsSound, PostAbortIsSound,
     ForceConvergeIsSound, ProceedIsSound DEF OperatorRoutine, OperatorOverride

LEMMA InitSound == Init => SoundInv
BY InitTypeInv DEF Init, SoundInv, Sound

LEMMA NextSound ==
    ASSUME SoundInv, [Next]_vars
    PROVE  SoundInv'
<1>1. TypeInv'
  BY NextTypeInv DEF SoundInv
<1>2. CASE Next
  <2>1. Sound(rounds', iters')
    BY <1>2, AgentsAreSound, OperatorIsSound DEF Next
  <2> QED
    BY <1>1, <2>1 DEF SoundInv, Sound, RowSound, AnswerClosed, StaysHome, WithinBudget, UpTo,
                      ArbitrationsBefore, IterationsOf, RoundsOfType
<1>3. CASE UNCHANGED vars
  BY <1>1, <1>3 DEF vars, SoundInv, Sound, RowSound, AnswerClosed, StaysHome, WithinBudget,
                    UpTo, ArbitrationsBefore, IterationsOf, RoundsOfType
<1> QED
  BY <1>2, <1>3

LEMMA SpecSound == Spec => []SoundInv
BY InitSound, NextSound, PTL DEF Spec

\* The hosts work in isolation, whatever the operator retries, forces or skips
\* and whatever the agents do: no request of a pair round leaves the pair or
\* hands over what was not written in that round before.
THEOREM HostsAreIsolated == Spec => []HostIsolation
<1>1. SoundInv => HostIsolation
  BY DEF SoundInv, Sound, RowSound, StaysHome, HostIsolation, IsType
<1> QED
  BY <1>1, SpecSound, PTL

\* The requests of a round are numbered in the order of their creation, retries
\* included, so that the latest answer is the one with the highest number.
THEOREM RequestsAreNumbered == Spec => []NumberedInOrder
<1>1. SoundInv => NumberedInOrder
  BY DEF SoundInv, Sound, RowSound, UpTo, NumberedInOrder
<1> QED
  BY <1>1, SpecSound, PTL

\* A session asks for at most MAX_MEDIATION_ATTEMPTS mediations, whatever is
\* reviewed twice, reviewed late, retried or forced.
THEOREM MediationIsBounded == Spec => []MediationBudget
<1>1. SoundInv => MediationBudget
  BY DEF SoundInv, Sound, RowSound, WithinBudget, ArbitrationsBefore, MediationBudget
<1> QED
  BY <1>1, SpecSound, PTL
=============================================================================
