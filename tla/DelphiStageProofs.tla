------------------------- MODULE DelphiStageProofs -------------------------
(***************************************************************************)
(* What is proved about the pairs of the Delphi workflow and the stages of *)
(* a session as long as the operator does not force it and the agents      *)
(* follow their inbox: the relay between the two workers of a host is      *)
(* never broken, the arbitrator is given outcomes the pairs agreed on, one *)
(* stage is under way at a time, a running session waits for somebody, and *)
(* the workflow implements the session flow.                               *)
(***************************************************************************)
EXTENDS DelphiApprovalProofs

-----------------------------------------------------------------------------
(***************************************************************************)
(* The relay.                                                              *)
(***************************************************************************)
CompleteAnswered(t) == \A i \in DOMAIN t : t[i].status = "complete" => t[i].output # None

\* Request j of a pair and the requests of its round before it.
Relayed(rs, t, j) ==
    rs[t[j].round].type = "same_host_pair" =>
        \A i \in IterationsOf(t, t[j].round) : i < j =>
            /\ t[i].status = "complete"
            /\ t[j].num = t[i].num + 1 =>
                   /\ t[j].src = t[i].dst
                   /\ t[j].dst # t[i].dst
                   /\ t[j].input = Draft(t[i].output)
                   /\ t[j].num <= MAX_ITERS_PER_ROUND_1

Relay(rs, t) == \A j \in DOMAIN t : Relayed(rs, t, j)

\* The numbers of a round rise with its requests.
LEMMA NumbersRise ==
    ASSUME NEW rs, NEW t, Tables(rs, t), Sound(rs, t),
           NEW i \in DOMAIN t, NEW j \in DOMAIN t, t[i].round = t[j].round, i < j
    PROVE  t[i].num < t[j].num
<1>1. Len(t) \in Nat /\ DOMAIN t = 1..Len(t)
  BY DEF Tables
<1>2. /\ UpTo(t, i) \in SUBSET (1..Len(t)) /\ UpTo(t, j) \in SUBSET (1..Len(t))
      /\ UpTo(t, i) \subseteq UpTo(t, j) /\ j \in UpTo(t, j) /\ j \notin UpTo(t, i)
  BY <1>1 DEF UpTo, IterationsOf
<1>3. IsFiniteSet(UpTo(t, j)) /\ IsFiniteSet(UpTo(t, i))
  BY <1>1, <1>2, SubsetOfInterval
<1>4. UpTo(t, i) # UpTo(t, j)
  BY <1>2
<1>5. /\ Cardinality(UpTo(t, i)) <= Cardinality(UpTo(t, j))
      /\ Cardinality(UpTo(t, i)) # Cardinality(UpTo(t, j))
  BY <1>2, <1>3, <1>4, FS_Subset
<1>6. Cardinality(UpTo(t, i)) \in Nat /\ Cardinality(UpTo(t, j)) \in Nat
  BY <1>3, FS_CardinalityType
<1>7. t[i].num = Cardinality(UpTo(t, i)) /\ t[j].num = Cardinality(UpTo(t, j))
  BY DEF Sound, RowSound
<1> QED
  BY <1>5, <1>6, <1>7

\* The other worker of the host is another worker.
LEMMA OtherAgentIsAnother ==
    ASSUME NEW rs, NEW t, Tables(rs, t), NEW r \in DOMAIN rs,
           rs[r].type = "same_host_pair", NEW a
    PROVE  OtherAgentOnHost(rs[r].host, a) # a
<1>1. rs[r].host \in Hosts /\ Len(Workers[rs[r].host]) = 2
  BY DEF Tables, Manned
<1>2. Workers[rs[r].host] \in Seq(AllWorkers)
  BY <1>1, RegistryAssumption
<1>3. DOMAIN Workers[rs[r].host] = {1, 2}
  BY <1>1, <1>2
<1>4. Workers[rs[r].host][1] # Workers[rs[r].host][2]
  BY <1>1, <1>3, DistinctAssumption
<1> QED
  BY <1>4 DEF OtherAgentOnHost

\* What is complete stays as it is, so requests that are there stay relayed.
LEMMA OldRowsStayRelayed ==
    ASSUME NEW rs, NEW t, Tables(rs, t), Relay(rs, t),
           NEW rs2, NEW t2, Tables(rs2, t2), Len(rs) <= Len(rs2), Len(t) <= Len(t2),
           \A r \in DOMAIN rs : rs2[r].type = rs[r].type,
           \A i \in DOMAIN t : /\ SameAsk(t[i], t2[i])
                               /\ t[i].status = "complete" => t2[i] = t[i],
           NEW j \in DOMAIN t
    PROVE  Relayed(rs2, t2, j)
<1>1. /\ Len(t) \in Nat /\ Len(t2) \in Nat /\ DOMAIN t = 1..Len(t) /\ DOMAIN t2 = 1..Len(t2)
      /\ t[j].round \in DOMAIN rs
  BY DEF Tables
<1>2. SUFFICES ASSUME rs[t[j].round].type = "same_host_pair",
                      NEW i \in IterationsOf(t2, t[j].round), i < j
               PROVE  /\ t2[i].status = "complete"
                      /\ t2[j].num = t2[i].num + 1 =>
                             /\ t2[j].src = t2[i].dst
                             /\ t2[j].dst # t2[i].dst
                             /\ t2[j].input = Draft(t2[i].output)
                             /\ t2[j].num <= MAX_ITERS_PER_ROUND_1
  BY <1>1 DEF Relayed, SameAsk
<1>3. i \in DOMAIN t /\ i \in IterationsOf(t, t[j].round)
  BY <1>1, <1>2 DEF IterationsOf, SameAsk
<1>4. t[i].status = "complete" /\ t2[i] = t[i]
  BY <1>2, <1>3 DEF Relay, Relayed
<1> QED
  BY <1>2, <1>3, <1>4 DEF Relay, Relayed, SameAsk

LEMMA MovedStaysRelayed ==
    ASSUME NEW rs, NEW t, Tables(rs, t), Relay(rs, t), CompleteAnswered(t),
           NEW rs2, NEW t2, Tables(rs2, t2), Moved(rs, t, rs2, t2)
    PROVE  Relay(rs2, t2) /\ CompleteAnswered(t2)
<1>1. /\ Len(rs) \in Nat /\ Len(t) \in Nat /\ DOMAIN t2 = DOMAIN t
      /\ Len(rs2) = Len(rs) /\ Len(t2) = Len(t)
  BY DEF Tables, Moved
<1>2. /\ \A r \in DOMAIN rs : rs2[r].type = rs[r].type
      /\ \A i \in DOMAIN t : /\ SameAsk(t[i], t2[i])
                             /\ t[i].status = "complete" => t2[i] = t[i]
  BY DEF Moved
<1>3. Relay(rs2, t2)
  <2>1. Len(rs) <= Len(rs2) /\ Len(t) <= Len(t2)
    BY <1>1
  <2>2. \A j \in DOMAIN t : Relayed(rs2, t2, j)
    BY <1>2, <2>1, OldRowsStayRelayed
  <2> QED
    BY <1>1, <2>2 DEF Relay
<1>4. CompleteAnswered(t2)
  BY <1>1 DEF Moved, CompleteAnswered
<1> QED
  BY <1>3, <1>4

LEMMA SpawnedIsRelayed ==
    ASSUME NEW rs, NEW t, Tables(rs, t), Relay(rs, t), CompleteAnswered(t),
           NEW type, NEW input, Spawned(rs, t, type, input),
           type = "same_host_pair" =>
               \A i, j \in DOMAIN iters' :
                   i > Len(t) /\ j > Len(t) /\ iters'[i].round = iters'[j].round => i = j
    PROVE  Relay(rounds', iters') /\ CompleteAnswered(iters')
<1>1. /\ Len(t) \in Nat /\ Len(iters') \in Nat /\ Len(rs) \in Nat
      /\ DOMAIN t = 1..Len(t) /\ DOMAIN iters' = 1..Len(iters') /\ DOMAIN rs = 1..Len(rs)
      /\ Tables(rounds', iters')
  BY DEF Tables, Spawned
<1>2. /\ Len(rs) <= Len(rounds') /\ \A r \in DOMAIN rs : rounds'[r] = rs[r]
      /\ Len(t) <= Len(iters') /\ \A i \in DOMAIN t : iters'[i] = t[i]
      /\ \A i \in DOMAIN iters' : i > Len(t) =>
             iters'[i].round > Len(rs) /\ iters'[i].status = "awaiting_nudge"
  BY DEF Spawned, Extends
<1>3. \A j \in DOMAIN t : Relayed(rounds', iters', j)
  BY <1>1, <1>2, OldRowsStayRelayed DEF SameAsk
<1>4. ASSUME NEW j \in DOMAIN iters', j > Len(t)
      PROVE  Relayed(rounds', iters', j)
  <2> SUFFICES ASSUME rounds'[iters'[j].round].type = "same_host_pair",
                      NEW i \in IterationsOf(iters', iters'[j].round), i < j
               PROVE  FALSE
    BY DEF Relayed
  <2>1. i \in DOMAIN iters' /\ iters'[i].round = iters'[j].round /\ iters'[j].round > Len(rs)
    BY <1>2, <1>4 DEF IterationsOf
  <2>2. i \notin DOMAIN t
    <3>1. \A k \in DOMAIN t : t[k].round \in 1..Len(rs)
      BY <1>1 DEF Tables
    <3> QED
      BY <1>1, <1>2, <2>1, <3>1
  <2>3. i > Len(t)
    BY <1>1, <2>1, <2>2
  <2>4. type = "same_host_pair"
    <3>1. iters'[j].round \in DOMAIN rounds'
      BY <1>1 DEF Tables
    <3> QED
      BY <2>1, <3>1 DEF Spawned
  <2> QED
    BY <1>1, <1>4, <2>1, <2>3, <2>4
<1>5. \A j \in DOMAIN iters' : j \in DOMAIN t \/ j > Len(t)
  BY <1>1
<1>6. CompleteAnswered(iters')
  BY <1>2, <1>5 DEF CompleteAnswered
<1> QED
  BY <1>3, <1>4, <1>5, <1>6 DEF Relay

-----------------------------------------------------------------------------
(***************************************************************************)
(* Orderly tables: what is true of the rounds and requests of a session    *)
(* that nobody forces.                                                     *)
(***************************************************************************)
\* Every worker host can be iterated on: _spawn_round_1 raises on another.
EveryHostPaired == \A h \in Hosts : Len(Workers[h]) = 2

OnScript(t) == \A i \in DOMAIN t : t[i].status # "off_script"

Agrees(rs, t, r) ==
    IsConverged(t, r) /\ t[LatestAnswered(t, r)].output = rs[r].outcome

\* A pair that has converged agreed on the outcome of its round.
Agreed(rs, t) ==
    \A r \in DOMAIN rs :
        rs[r].type = "same_host_pair" /\ rs[r].status = "converged" => Agrees(rs, t, r)

Covered(rs) == rs # <<>> => \A h \in Hosts : PairRoundsOn(rs, h) # {}

\* o is what the pairs of all hosts agreed on in rounds before round n.
Backed(rs, n, o) ==
    \A h \in Hosts : \E r \in DOMAIN rs :
        /\ rs[r].type = "same_host_pair" /\ rs[r].host = h
        /\ r < n
        /\ rs[r].status = "converged" /\ rs[r].outcome = o[h]

Arbitrated(rs, t) ==
    \A i \in DOMAIN t : t[i].input.kind = "arbitrate" =>
        Backed(rs, t[i].round, t[i].input.outcomes)

\* A round in progress still can move the session on.
Lively(rs, t) == \A r \in DOMAIN rs : rs[r].status = "in_progress" => Active(rs, t, r)

PairsApart(rs) ==
    \A q, r \in DOMAIN rs :
        /\ rs[q].type = "same_host_pair" /\ rs[r].type = "same_host_pair"
        /\ rs[q].status = "in_progress" /\ rs[r].status = "in_progress"
        /\ rs[q].host = rs[r].host
        => q = r

\* There is a synthesis to review or to execute.
Synthesized(rs, t) ==
    \A r \in DOMAIN rs :
        Active(rs, t, r) /\ rs[r].type \in {"multi_agent_review", "execute"} =>
            Round2Outcome(rs) # None

AllConverged(rs) ==
    \A r \in DOMAIN rs : rs[r].type = "same_host_pair" => rs[r].status = "converged"

\* Beyond round 1 the pairs have converged.
Settled(rs, t) ==
    \A r \in DOMAIN rs :
        Active(rs, t, r) /\ rs[r].type # "same_host_pair" => AllConverged(rs)

Orderly(rs, t) ==
    /\ CompleteAnswered(t)
    /\ OnScript(t)
    /\ Relay(rs, t)
    /\ Agreed(rs, t)
    /\ EveryHostPaired => Covered(rs) /\ Arbitrated(rs, t)
    /\ Lively(rs, t)
    /\ PairsApart(rs)
    /\ Synthesized(rs, t)
    /\ Settled(rs, t)

\* What a step that only rewrites rows must leave as it is.
Concluding(rs, t, rs2, t2) ==
    \A r \in DOMAIN rs :
        /\ rs[r].type = "same_host_pair" /\ rs[r].status = "converged" => rs2[r] = rs[r]
        /\ rs[r].type = "same_host_pair" /\ rs2[r].status = "converged" =>
               rs[r].status = "converged" \/ Agrees(rs2, t2, r)
        /\ rs2[r].status = "in_progress" => Active(rs2, t2, r)
        /\ Active(rs2, t2, r) /\ rs[r].type \in {"multi_agent_review", "execute"} =>
               Round2Outcome(rs2) = Round2Outcome(rs)

\* Agreement rests on the requests of the round alone.
LEMMA AgreementStays ==
    ASSUME NEW rs, NEW t, Tables(rs, t), NEW rs2, NEW t2, NEW r,
           IterationsOf(t2, r) = IterationsOf(t, r),
           \A i \in IterationsOf(t, r) : t2[i] = t[i],
           rs2[r].outcome = rs[r].outcome, Agrees(rs, t, r)
    PROVE  Agrees(rs2, t2, r)
<1> DEFINE S == Answered(t, r)
<1>1. Answered(t2, r) = S
  BY DEF Answered
<1>2. Len(t) \in Nat /\ S \in SUBSET (1..Len(t)) /\ IsFiniteSet(S)
  <2>1. Len(t) \in Nat /\ S \in SUBSET (1..Len(t))
    BY DEF Tables, Answered, IterationsOf
  <2> QED
    BY <2>1, SubsetOfInterval
<1>3. Cardinality(S) >= 2 /\ Cardinality(S) \in Nat
  BY <1>2, FS_CardinalityType DEF Agrees, IsConverged
<1>4. S # {}
  BY <1>3, FS_EmptySet
<1>5. Latest(S) \in S
  BY <1>2, <1>4, LatestIsMember
<1>6. S \ {Latest(S)} # {}
  <2> HIDE DEF S
  <2>1. Cardinality(S \ {Latest(S)}) = Cardinality(S) - 1
    BY <1>2, <1>5, FS_RemoveElement
  <2>2. ASSUME S \ {Latest(S)} = {}
        PROVE  Cardinality(S \ {Latest(S)}) = 0
    BY <2>2, FS_EmptySet
  <2> QED
    BY <1>3, <2>1, <2>2
<1>7. Latest(S \ {Latest(S)}) \in S
  BY <1>2, <1>6, LatestIsMember
<1>8. /\ LatestAnswered(t2, r) = LatestAnswered(t, r)
      /\ PreviousAnswered(t2, r) = PreviousAnswered(t, r)
  BY <1>1 DEF LatestAnswered, PreviousAnswered
<1>9. /\ t2[LatestAnswered(t, r)] = t[LatestAnswered(t, r)]
      /\ t2[PreviousAnswered(t, r)] = t[PreviousAnswered(t, r)]
  BY <1>5, <1>7 DEF LatestAnswered, PreviousAnswered, Answered
<1> QED
  BY <1>1, <1>8, <1>9 DEF Agrees, IsConverged, LatestSimilarity

\* The requests of a pair that has converged are all complete.
LEMMA ConvergedIsComplete ==
    ASSUME NEW rs, NEW t, Tables(rs, t), Track(rs, t), NEW r \in DOMAIN rs,
           rs[r].type = "same_host_pair", rs[r].status = "converged"
    PROVE  \A i \in IterationsOf(t, r) : t[i].status = "complete"
BY DEF Track, UpToDate, Active

LEMMA BackedStays ==
    ASSUME NEW rs, NEW rs2, NEW n, NEW o, Backed(rs, n, o),
           DOMAIN rs \subseteq DOMAIN rs2,
           \A r \in DOMAIN rs : rs[r].type = "same_host_pair" /\ rs[r].status = "converged" =>
               rs2[r] = rs[r]
    PROVE  Backed(rs2, n, o)
BY DEF Backed

LEMMA MovedStaysOrderly ==
    ASSUME NEW rs, NEW t, Tables(rs, t), Track(rs, t), Orderly(rs, t),
           NEW rs2, NEW t2, Tables(rs2, t2), Moved(rs, t, rs2, t2), Concluding(rs, t, rs2, t2)
    PROVE  Orderly(rs2, t2)
<1>1. /\ DOMAIN rs2 = DOMAIN rs /\ DOMAIN t2 = DOMAIN t
      /\ \A r \in DOMAIN rs : rs2[r].type = rs[r].type /\ rs2[r].host = rs[r].host
      /\ \A i \in DOMAIN t : SameAsk(t[i], t2[i])
  BY DEF Tables, Moved
<1>2. Relay(rs2, t2) /\ CompleteAnswered(t2)
  BY MovedStaysRelayed DEF Orderly
<1>3. OnScript(t2)
  BY <1>1 DEF Orderly, OnScript, Moved
<1>4. Agreed(rs2, t2)
  <2> SUFFICES ASSUME NEW r \in DOMAIN rs,
                      rs[r].type = "same_host_pair", rs[r].status = "converged"
               PROVE  Agrees(rs2, t2, r)
    BY <1>1 DEF Agreed, Concluding
  <2>1. IterationsOf(t2, r) = IterationsOf(t, r)
    BY <1>1 DEF IterationsOf, SameAsk
  <2>2. \A i \in IterationsOf(t, r) : t2[i] = t[i]
    BY ConvergedIsComplete DEF Moved, IterationsOf
  <2>3. Agrees(rs, t, r) /\ rs2[r].outcome = rs[r].outcome
    BY DEF Orderly, Agreed, Concluding
  <2> QED
    BY <2>1, <2>2, <2>3, AgreementStays
<1>5. ASSUME EveryHostPaired
      PROVE  Covered(rs2) /\ Arbitrated(rs2, t2)
  <2>1. Covered(rs) /\ Arbitrated(rs, t)
    BY <1>5 DEF Orderly
  <2>2. rs2 # <<>> => rs # <<>>
    BY DEF Moved, Tables
  <2>3. Covered(rs2)
    BY <1>1, <2>1, <2>2 DEF Covered, PairRoundsOn, RoundsOfType
  <2>4. Arbitrated(rs2, t2)
    BY <1>1, <2>1, BackedStays DEF Arbitrated, SameAsk, Concluding
  <2> QED
    BY <2>3, <2>4
<1>6. Lively(rs2, t2)
  BY <1>1 DEF Lively, Concluding
<1>7. PairsApart(rs2)
  BY <1>1 DEF Orderly, PairsApart, Moved
<1>8. \A r \in DOMAIN rs : Active(rs2, t2, r) => Active(rs, t, r)
  BY MovedIsLessActive
<1>9. Synthesized(rs2, t2)
  BY <1>1, <1>8 DEF Orderly, Synthesized, Concluding
<1>10. Settled(rs2, t2)
  BY <1>1, <1>8 DEF Orderly, Settled, AllConverged, Concluding
<1> QED
  BY <1>2, <1>3, <1>4, <1>5, <1>6, <1>7, <1>9, <1>10 DEF Orderly

LEMMA SpawnedIsOrderly ==
    ASSUME NEW rs, NEW t, Tables(rs, t), Quiet(rs, t), Orderly(rs, t),
           NEW type, NEW input, Spawned(rs, t, type, input),
           type = "same_host_pair" =>
               /\ \A i, j \in DOMAIN iters' :
                      i > Len(t) /\ j > Len(t) /\ iters'[i].round = iters'[j].round => i = j
               /\ \A q, r \in DOMAIN rounds' :
                      q > Len(rs) /\ r > Len(rs) /\ rounds'[q].host = rounds'[r].host => q = r,
           type # "same_host_pair" => AllConverged(rs),
           type # "multi_agent_review" =>
               \A r \in DOMAIN rounds' : r > Len(rs) => IterationsOf(iters', r) # {},
           type \in {"multi_agent_review", "execute"} => Round2Outcome(rs) # None,
           EveryHostPaired /\ rs = <<>> => Covered(rounds'),
           EveryHostPaired /\ input.kind = "arbitrate" =>
               Backed(rs, Len(rs) + 1, input.outcomes)
    PROVE  Orderly(rounds', iters')
<1>1. /\ Len(rs) \in Nat /\ Len(rounds') \in Nat /\ Len(t) \in Nat /\ Len(iters') \in Nat
      /\ DOMAIN rs = 1..Len(rs) /\ DOMAIN rounds' = 1..Len(rounds')
      /\ DOMAIN t = 1..Len(t) /\ DOMAIN iters' = 1..Len(iters')
      /\ rs \in Seq(Round) /\ rounds' \in Seq(Round)
      /\ \A i \in DOMAIN t : t[i].round \in DOMAIN rs
      /\ \A i \in DOMAIN iters' : iters'[i].round \in DOMAIN rounds'
  BY DEF Spawned, Tables
<1>2. /\ Len(rs) <= Len(rounds') /\ Len(t) <= Len(iters')
      /\ \A r \in DOMAIN rs : rounds'[r] = rs[r]
      /\ \A i \in DOMAIN t : iters'[i] = t[i]
      /\ \A r \in DOMAIN rounds' :
             r > Len(rs) => rounds'[r].type = type /\ rounds'[r].status = "in_progress"
      /\ \A i \in DOMAIN iters' : i > Len(t) =>
             /\ iters'[i].round > Len(rs) /\ iters'[i].input = input
             /\ iters'[i].status = "awaiting_nudge"
  BY DEF Spawned, Extends
<1>3. /\ \A r \in DOMAIN rounds' : r \in DOMAIN rs \/ r > Len(rs)
      /\ \A i \in DOMAIN iters' : i \in DOMAIN t \/ i > Len(t)
      /\ DOMAIN rs \subseteq DOMAIN rounds' /\ DOMAIN t \subseteq DOMAIN iters'
  BY <1>1, <1>2
<1>4. Relay(rounds', iters') /\ CompleteAnswered(iters')
  BY SpawnedIsRelayed DEF Orderly
<1>5. OnScript(iters')
  BY <1>2, <1>3 DEF Orderly, OnScript
<1>6. ASSUME NEW r \in DOMAIN rs
      PROVE  /\ IterationsOf(iters', r) = IterationsOf(t, r)
             /\ \A i \in IterationsOf(t, r) : iters'[i] = t[i]
             /\ rs[r].status # "in_progress"
             /\ ~Active(rounds', iters', r)
  <2>1. IterationsOf(iters', r) = IterationsOf(t, r)
    BY <1>1, <1>2, <1>3 DEF IterationsOf
  <2>2. \A i \in IterationsOf(t, r) : iters'[i] = t[i]
    BY <1>2 DEF IterationsOf
  <2>3. ~Active(rs, t, r) /\ rs[r].status # "in_progress"
    BY DEF Quiet, Orderly, Lively
  <2> QED
    BY <1>2, <2>1, <2>2, <2>3 DEF Active
<1>7. Agreed(rounds', iters')
  <2> SUFFICES ASSUME NEW r \in DOMAIN rounds',
                      rounds'[r].type = "same_host_pair", rounds'[r].status = "converged"
               PROVE  Agrees(rounds', iters', r)
    BY DEF Agreed
  <2>1. r \in DOMAIN rs
    BY <1>2, <1>3
  <2>2. Agrees(rs, t, r)
    BY <1>2, <2>1 DEF Orderly, Agreed
  <2> QED
    BY <1>2, <1>6, <2>1, <2>2, AgreementStays
<1>8. ASSUME EveryHostPaired
      PROVE  Covered(rounds') /\ Arbitrated(rounds', iters')
  <2>1. Covered(rs) /\ Arbitrated(rs, t)
    BY <1>8 DEF Orderly
  <2>2. Covered(rounds')
    <3>1. CASE rs = <<>>
      BY <1>8, <3>1
    <3>2. CASE rs # <<>>
      BY <1>2, <1>3, <2>1, <3>2 DEF Covered, PairRoundsOn, RoundsOfType
    <3> QED
      BY <3>1, <3>2
  <2>3. ASSUME NEW i \in DOMAIN iters', iters'[i].input.kind = "arbitrate"
        PROVE  Backed(rounds', iters'[i].round, iters'[i].input.outcomes)
    <3>1. CASE i \in DOMAIN t
      BY <1>2, <1>3, <2>1, <2>3, <3>1, BackedStays DEF Arbitrated
    <3>2. CASE i > Len(t)
      <4>1. Backed(rs, Len(rs) + 1, iters'[i].input.outcomes)
        BY <1>2, <1>8, <2>3, <3>2
      <4>2. Backed(rounds', Len(rs) + 1, iters'[i].input.outcomes)
        BY <1>2, <1>3, <4>1, BackedStays
      <4>3. Len(rs) + 1 <= iters'[i].round /\ iters'[i].round \in Nat
        BY <1>1, <1>2, <3>2
      <4> QED
        BY <1>1, <4>2, <4>3 DEF Backed
    <3> QED
      BY <1>3, <3>1, <3>2
  <2> QED
    BY <2>2, <2>3 DEF Arbitrated
<1>9. Lively(rounds', iters')
  <2> SUFFICES ASSUME NEW r \in DOMAIN rounds', rounds'[r].status = "in_progress"
               PROVE  Active(rounds', iters', r)
    BY DEF Lively
  <2>1. r > Len(rs) /\ rounds'[r].type = type
    BY <1>2, <1>3, <1>6
  <2>2. CASE type = "multi_agent_review"
    BY <2>1, <2>2 DEF Active
  <2>3. CASE type # "multi_agent_review"
    <3>1. PICK i \in IterationsOf(iters', r) : TRUE
      BY <2>1, <2>3
    <3>2. i \notin DOMAIN t
      BY <1>1, <1>2, <2>1, <3>1 DEF IterationsOf
    <3>3. iters'[i].status = "awaiting_nudge"
      BY <1>2, <1>3, <3>1, <3>2 DEF IterationsOf
    <3> QED
      BY <2>1, <2>3, <3>1, <3>3 DEF Active
  <2> QED
    BY <2>2, <2>3
<1>10. PairsApart(rounds')
  BY <1>2, <1>3, <1>6 DEF PairsApart
<1>11. Synthesized(rounds', iters')
  <2> SUFFICES ASSUME NEW r \in DOMAIN rounds', Active(rounds', iters', r),
                      rounds'[r].type \in {"multi_agent_review", "execute"}
               PROVE  Round2Outcome(rounds') # None
    BY DEF Synthesized
  <2>1. type \in {"multi_agent_review", "execute"}
    BY <1>2, <1>3, <1>6
  <2>2. Round2Outcome(rounds') = Round2Outcome(rs)
    <3>1. \A q \in DOMAIN rounds' :
              q > Len(rs) => rounds'[q].type # "cross_host_arbitration"
      BY <1>2, <2>1
    <3>2. \A q \in DOMAIN rs :
              /\ rounds'[q].type = rs[q].type
              /\ rs[q].type = "cross_host_arbitration" => rounds'[q].outcome = rs[q].outcome
      BY <1>2
    <3> QED
      BY <1>1, <1>2, <3>1, <3>2, Round2OutcomeStays
  <2> QED
    BY <2>1, <2>2
<1>12. Settled(rounds', iters')
  <2> SUFFICES ASSUME NEW r \in DOMAIN rounds', Active(rounds', iters', r),
                      rounds'[r].type # "same_host_pair"
               PROVE  AllConverged(rounds')
    BY DEF Settled
  <2>1. type # "same_host_pair"
    BY <1>2, <1>3, <1>6
  <2> QED
    BY <1>2, <1>3, <2>1 DEF AllConverged
<1> QED
  BY <1>4, <1>5, <1>7, <1>8, <1>9, <1>10, <1>11, <1>12 DEF Orderly

\* The answer of one worker becomes the other worker's request.
LEMMA AskedStaysOrderly ==
    ASSUME NEW rs, NEW t0, Tables(rs, t0), Track(rs, t0), Orderly(rs, t0),
           NEW t, Tables(rs, t), Moved(rs, t0, rs, t), Sound(rs, t),
           NEW r \in DOMAIN rs, rs[r].type = "same_host_pair", rs[r].status # "converged",
           ~Active(rs, t, r), Answered(t, r) # {},
           \A i \in DOMAIN t0 : t0[i].round # r => t[i] = t0[i],
           \A q \in DOMAIN rs : Active(rs, t, q) => rs[q].type = "same_host_pair",
           ~Stalled(t, r), ~IsConverged(t, r),
           NEW t2, Tables(rs, t2),
           t2 = SpawnIteration(t, r, t[LatestAnswered(t, r)].dst,
                    OtherAgentOnHost(rs[r].host, t[LatestAnswered(t, r)].dst),
                    Draft(t[LatestAnswered(t, r)].output))
    PROVE  Orderly(rs, t2)
<1> DEFINE l == LatestAnswered(t, r)
           m == Len(t) + 1
           it == NewIteration(r, NextNum(t, r), t[l].dst,
                              OtherAgentOnHost(rs[r].host, t[l].dst), Draft(t[l].output))
<1>1. /\ t \in Seq(Iteration) /\ Len(t) \in Nat /\ Len(t0) = Len(t) /\ DOMAIN t0 = DOMAIN t
      /\ DOMAIN t = 1..Len(t)
      /\ \A i \in DOMAIN t : t[i].round \in DOMAIN rs /\ t[i].num \in Nat
      /\ \A i \in DOMAIN t : SameAsk(t0[i], t[i])
  <2>1. \A i \in DOMAIN t : t[i] \in Iteration
    BY DEF Tables
  <2>2. \A i \in DOMAIN t : t[i].num \in Nat
    BY <2>1 DEF Iteration
  <2> QED
    BY <2>2 DEF Tables, Moved
<1>2. /\ it.round = r /\ it.num = NextNum(t, r) /\ it.src = t[l].dst
      /\ it.dst = OtherAgentOnHost(rs[r].host, t[l].dst)
      /\ it.input = Draft(t[l].output) /\ it.status = "awaiting_nudge"
      /\ it.input.kind = "draft"
  BY DEF NewIteration, Draft
<1>3. t2 = Append(t, it)
  BY DEF SpawnIteration
<1> HIDE DEF it
<1>4. /\ DOMAIN t2 = 1..m /\ Len(t2) = m /\ t2[m] = it /\ m \notin DOMAIN t
      /\ \A i \in DOMAIN t : t2[i] = t[i]
      /\ \A i \in DOMAIN t2 : i \in DOMAIN t \/ i = m
      /\ DOMAIN t \subseteq DOMAIN t2 /\ m \in DOMAIN t2
  BY <1>1, <1>3
<1>5. Relay(rs, t) /\ CompleteAnswered(t)
  BY MovedStaysRelayed DEF Orderly
<1>6. \A i \in IterationsOf(t, r) : t[i].status = "complete"
  BY DEF Active
<1>7. CompleteAnswered(t2) /\ OnScript(t2)
  BY <1>1, <1>2, <1>4, <1>5 DEF CompleteAnswered, OnScript, Orderly, Moved
<1>8. /\ l \in IterationsOf(t, r) /\ l \in DOMAIN t
      /\ \A i \in IterationsOf(t, r) : i <= l
      /\ it.num = t[l].num + 1
  <2>1. Answered(t, r) = IterationsOf(t, r)
    BY <1>5, <1>6 DEF Answered, CompleteAnswered, IterationsOf
  <2>2. IterationsOf(t, r) \in SUBSET (1..Len(t))
    BY <1>1 DEF IterationsOf
  <2>3. l = Latest(IterationsOf(t, r)) /\ IterationsOf(t, r) # {}
    BY <2>1 DEF LatestAnswered
  <2>4. l \in IterationsOf(t, r) /\ \A i \in IterationsOf(t, r) : i <= l
    BY <1>1, <2>2, <2>3, LatestIsMember
  <2> QED
    BY <1>2, <2>3, <2>4 DEF NextNum, IterationsOf
<1>9. Relay(rs, t2)
  <2>1. ASSUME NEW j \in DOMAIN t
        PROVE  Relayed(rs, t2, j)
    <3>1. \A i \in IterationsOf(t2, t[j].round) : i < j => i \in IterationsOf(t, t[j].round)
      BY <1>1, <1>4 DEF IterationsOf
    <3>2. \A i \in IterationsOf(t, t[j].round) : t2[i] = t[i]
      BY <1>4 DEF IterationsOf
    <3> QED
      BY <1>4, <1>5, <2>1, <3>1, <3>2 DEF Relay, Relayed
  <2>2. Relayed(rs, t2, m)
    <3> SUFFICES ASSUME NEW i \in IterationsOf(t2, r), i < m
                 PROVE  /\ t2[i].status = "complete"
                        /\ it.num = t2[i].num + 1 =>
                               /\ it.src = t2[i].dst
                               /\ it.dst # t2[i].dst
                               /\ it.input = Draft(t2[i].output)
                               /\ it.num <= MAX_ITERS_PER_ROUND_1
      BY <1>2, <1>4 DEF Relayed
    <3>1. i \in IterationsOf(t, r) /\ i \in DOMAIN t /\ t2[i] = t[i]
      BY <1>4 DEF IterationsOf
    <3>2. t[i].round = t[l].round
      BY <1>8, <3>1 DEF IterationsOf
    <3>3. it.num = t[i].num + 1 => i = l
      <4>1. i < l => t[i].num < t[l].num
        BY <1>8, <3>1, <3>2, NumbersRise
      <4> QED
        BY <1>1, <1>8, <3>1, <4>1
    <3>4. it.dst # t[l].dst
      BY <1>2, OtherAgentIsAnother
    <3>5. it.num <= MAX_ITERS_PER_ROUND_1
      BY <1>1, <1>8, LimitAssumption DEF Stalled
    <3> QED
      BY <1>2, <1>6, <3>1, <3>3, <3>4, <3>5
  <2> QED
    BY <1>4, <2>1, <2>2 DEF Relay
<1>10. ASSUME NEW q \in DOMAIN rs, q # r
       PROVE  /\ IterationsOf(t2, q) = IterationsOf(t0, q)
              /\ \A i \in IterationsOf(t0, q) : t2[i] = t0[i]
              /\ Active(rs, t2, q) <=> Active(rs, t0, q)
              /\ Active(rs, t2, q) <=> Active(rs, t, q)
  <2>1. /\ IterationsOf(t2, q) = IterationsOf(t0, q)
        /\ IterationsOf(t, q) = IterationsOf(t0, q)
    BY <1>1, <1>2, <1>4, <1>10 DEF IterationsOf, SameAsk
  <2>2. \A i \in IterationsOf(t0, q) : t2[i] = t0[i] /\ t[i] = t0[i]
    BY <1>1, <1>4, <1>10 DEF IterationsOf
  <2> QED
    BY <2>1, <2>2 DEF Active
<1>11. Agreed(rs, t2)
  BY <1>10, AgreementStays DEF Agreed, Orderly
<1>12. ASSUME EveryHostPaired
       PROVE  Covered(rs) /\ Arbitrated(rs, t2)
  <2>1. Covered(rs) /\ Arbitrated(rs, t0)
    BY <1>12 DEF Orderly
  <2>2. ASSUME NEW i \in DOMAIN t2, t2[i].input.kind = "arbitrate"
        PROVE  Backed(rs, t2[i].round, t2[i].input.outcomes)
    BY <1>1, <1>2, <1>4, <2>1, <2>2 DEF Arbitrated, SameAsk
  <2> QED
    BY <2>1, <2>2 DEF Arbitrated
<1>13. Lively(rs, t2)
  <2>1. Active(rs, t2, r)
    BY <1>2, <1>4 DEF Active, IterationsOf
  <2> QED
    BY <1>10, <2>1 DEF Orderly, Lively
<1>14. \A q \in DOMAIN rs : Active(rs, t2, q) => rs[q].type = "same_host_pair"
  BY <1>10
<1> QED
  BY <1>7, <1>9, <1>11, <1>12, <1>13, <1>14 DEF Orderly, Synthesized, Settled

-----------------------------------------------------------------------------
(***************************************************************************)
(* The stages: the session status and the rounds in progress.              *)
(***************************************************************************)
NobodySkipped == "skip_agent" \notin OperatorActions

Announced(s, rs) ==
    s \in DOMAIN StageType =>
        \A r \in DOMAIN rs : rs[r].status = "in_progress" => rs[r].type \in StageType[s]

\* Somebody has to act: a running session has a round in progress, a round 1
\* no pair that was given up, and a review a reviewer that is still to come.
Awaited(s, rs, vs) ==
    /\ rs # <<>> => HostOrder # <<>>
    /\ s \in {"round_1", "round_2", "round_3", "executing"} =>
           \E r \in DOMAIN rs : rs[r].status = "in_progress"
    /\ s = "round_1" =>
           \A r \in DOMAIN rs :
               rs[r].type = "same_host_pair" => rs[r].status \in {"converged", "in_progress"}
    /\ \A r \in DOMAIN rs :
           rs[r].type = "multi_agent_review" /\ rs[r].status = "in_progress" =>
               ~(AllWorkers \subseteq ReviewersOf(vs, r))

Stages(s, rs, vs) ==
    EveryHostPaired =>
        /\ Announced(s, rs)
        /\ NobodySkipped => Awaited(s, rs, vs)

StageInv ==
    /\ ApprovalInv
    /\ Sound(rounds, iters)
    /\ Orderly(rounds, iters)
    /\ NobodySkipped => skipped = {}
    /\ Stages(session, rounds, reviews)

\* What a step makes of the tables and the session.
Staged == Orderly(rounds', iters') /\ Stages(session', rounds', reviews')

LEMMA StageTables ==
    ASSUME StageInv
    PROVE  /\ ApprovalInv /\ Orderly(rounds, iters) /\ Sound(rounds, iters)
           /\ Tables(rounds, iters) /\ Track(rounds, iters)
           /\ Len(rounds) \in Nat /\ DOMAIN rounds = 1..Len(rounds)
           /\ reviews \in SUBSET Review /\ \A v \in reviews : v.round \in DOMAIN rounds
           /\ session \in SessionStatuses
<1>1. ApprovalInv /\ Orderly(rounds, iters) /\ Sound(rounds, iters)
  BY DEF StageInv
<1>2. /\ Tables(rounds, iters) /\ Track(rounds, iters)
      /\ rounds \in Seq(Round) /\ Len(rounds) \in Nat
  BY <1>1, ApprovalTables
<1>3. /\ reviews \in SUBSET Review /\ \A v \in reviews : v.round \in DOMAIN rounds
      /\ session \in SessionStatuses
  BY <1>1 DEF ApprovalInv, TypeInv, TypeOK
<1> QED
  BY <1>1, <1>2, <1>3

LEMMA NothingIsInProgress ==
    ASSUME NEW s, NEW rs, NEW vs, \A r \in DOMAIN rs : rs[r].status # "in_progress",
           s \notin {"round_1", "round_2", "round_3", "executing"},
           rs # <<>> => HostOrder # <<>>
    PROVE  Stages(s, rs, vs)
BY DEF Stages, Announced, Awaited

\* Once the open request of a round beyond the pairs is answered, or its review
\* closed, nothing is in progress.
LEMMA DoneIsOrderly ==
    ASSUME StageInv, NEW r \in DOMAIN rounds, Active(rounds, iters, r),
           rounds[r].type # "same_host_pair",
           NEW rs, NEW t, Tables(rs, t), Moved(rounds, iters, rs, t), Quiet(rs, t),
           \A q \in DOMAIN rounds : q # r => rs[q] = rounds[q]
    PROVE  /\ rs[r].status # "in_progress" => Orderly(rs, t)
           /\ rs[r].status # "in_progress" => \A q \in DOMAIN rs : rs[q].status # "in_progress"
           /\ AllConverged(rs)
           /\ rs # <<>>
<1>1. /\ Orderly(rounds, iters) /\ Tables(rounds, iters) /\ Track(rounds, iters)
      /\ DOMAIN rs = DOMAIN rounds /\ Len(rounds) \in Nat /\ Len(rs) = Len(rounds)
  BY StageTables DEF Tables, Moved
<1>2. \A q \in DOMAIN rounds : q # r => rounds[q].status # "in_progress"
  BY <1>1 DEF Orderly, Lively, Track, OneTrack
<1>3. rs[r].status # "in_progress" => Concluding(rounds, iters, rs, t)
  BY <1>1, <1>2 DEF Concluding, Quiet
<1>4. AllConverged(rs)
  BY <1>1 DEF Orderly, Settled, AllConverged, Moved
<1>5. rs # <<>>
  BY <1>1
<1> QED
  BY <1>1, <1>2, <1>3, <1>4, <1>5, MovedStaysOrderly

\* Once there are rounds there are hosts, and workers to review.
LEMMA HostsAreThere ==
    ASSUME StageInv, EveryHostPaired, NobodySkipped, rounds # <<>>
    PROVE  HostOrder # <<>> /\ AllWorkers # {}
<1>1. HostOrder # <<>>
  BY DEF StageInv, Stages, Awaited
<1>2. HostOrder[1] \in Hosts
  BY <1>1, RegistryAssumption DEF Hosts, Elements
<1>3. Len(Workers[HostOrder[1]]) = 2 /\ Workers[HostOrder[1]] \in Seq(AllWorkers)
  BY <1>2, RegistryAssumption DEF EveryHostPaired
<1>4. ASSUME NEW s \in Seq(AllWorkers), Len(s) = 2
      PROVE  s[1] \in AllWorkers
  BY <1>4
<1>5. AllWorkers # {}
  BY <1>3, <1>4
<1> QED
  BY <1>1, <1>5

\* What is spawned from quiet tables is all that is in progress.
LEMMA SpawnedAlone ==
    ASSUME NEW rs, NEW t, Tables(rs, t), Quiet(rs, t), Orderly(rs, t),
           NEW type, NEW input, Spawned(rs, t, type, input)
    PROVE  /\ \A r \in DOMAIN rounds' : rounds'[r].status = "in_progress" =>
                  r > Len(rs) /\ rounds'[r].type = type
           /\ Len(rounds') > Len(rs) =>
                  \E r \in DOMAIN rounds' : rounds'[r].status = "in_progress"
           /\ Len(rounds') \in Nat /\ Len(rs) \in Nat
<1>1. Len(rs) \in Nat /\ Len(rounds') \in Nat /\ DOMAIN rs = 1..Len(rs)
      /\ DOMAIN rounds' = 1..Len(rounds')
  BY DEF Spawned, Tables
<1>2. \A r \in DOMAIN rs : rounds'[r] = rs[r] /\ rs[r].status # "in_progress"
  BY DEF Spawned, Quiet, Orderly, Lively
<1>3. \A r \in DOMAIN rounds' : r > Len(rs) =>
          rounds'[r].type = type /\ rounds'[r].status = "in_progress"
  BY DEF Spawned
<1>4. Len(rounds') > Len(rs) => Len(rounds') \in DOMAIN rounds'
  BY <1>1
<1> QED
  BY <1>1, <1>2, <1>3, <1>4

LEMMA OneRoundIsOrderly ==
    ASSUME NEW rs, NEW t, Tables(rs, t), Quiet(rs, t), Orderly(rs, t),
           AllConverged(rs), rs # <<>>,
           NEW type \in {"cross_host_arbitration", "execute"}, NEW input,
           Spawned(rs, t, type, input),
           NEW n, NEW dst, rounds' = Append(rs, NewRound(type, None)),
           iters' = Append(t, NewIteration(Len(rs) + 1, n, None, dst, input)),
           type = "execute" => Round2Outcome(rs) # None,
           EveryHostPaired /\ input.kind = "arbitrate" =>
               Backed(rs, Len(rs) + 1, input.outcomes)
    PROVE  Orderly(rounds', iters') /\ Len(rounds') > Len(rs)
<1> DEFINE it == NewIteration(Len(rs) + 1, n, None, dst, input)
           rd == NewRound(type, None)
<1>1. it.round = Len(rs) + 1
  BY DEF NewIteration
<1>2. iters' = Append(t, it) /\ rounds' = Append(rs, rd)
  OBVIOUS
<1> HIDE DEF it, rd
<1>3. /\ rs \in Seq(Round) /\ Len(rs) \in Nat /\ t \in Seq(Iteration) /\ Len(t) \in Nat
  BY DEF Tables
<1>4. /\ DOMAIN rounds' = 1..(Len(rs) + 1) /\ Len(rounds') = Len(rs) + 1
      /\ DOMAIN iters' = 1..(Len(t) + 1) /\ iters'[Len(t) + 1] = it
  BY <1>2, <1>3
<1>5. \A r \in DOMAIN rounds' : r > Len(rs) => IterationsOf(iters', r) # {}
  BY <1>1, <1>3, <1>4 DEF IterationsOf
<1>6. Orderly(rounds', iters')
  BY <1>5, SpawnedIsOrderly
<1> QED
  BY <1>3, <1>4, <1>6

LEMMA SpawnRound2Orderly ==
    ASSUME NEW rs, NEW t, Tables(rs, t), Quiet(rs, t), Orderly(rs, t),
           AllConverged(rs), rs # <<>>, NEW input \in Inputs, SpawnRound2(rs, t, input),
           EveryHostPaired /\ input.kind = "arbitrate" =>
               Backed(rs, Len(rs) + 1, input.outcomes)
    PROVE  /\ Orderly(rounds', iters')
           /\ \A r \in DOMAIN rounds' : rounds'[r].status = "in_progress" =>
                  rounds'[r].type = "cross_host_arbitration"
           /\ \E r \in DOMAIN rounds' : rounds'[r].status = "in_progress"
           /\ session' = "round_2"
<1>1. Spawned(rs, t, "cross_host_arbitration", input)
  BY SpawnRound2OnTrack
<1>2. /\ rounds' = Append(rs, NewRound("cross_host_arbitration", None))
      /\ iters' = Append(t, NewIteration(Len(rs) + 1, NextNum(t, Len(rs) + 1), None,
                                         Arbitrator, input))
      /\ session' = "round_2"
  BY DEF SpawnRound2, SpawnIteration
<1>3. Orderly(rounds', iters') /\ Len(rounds') > Len(rs)
  BY <1>1, <1>2, OneRoundIsOrderly
<1> QED
  BY <1>1, <1>2, <1>3, SpawnedAlone

LEMMA SpawnExecuteRoundOrderly ==
    ASSUME NEW rs, NEW t, Tables(rs, t), Quiet(rs, t), Orderly(rs, t),
           AllConverged(rs), rs # <<>>, session \in SessionStatuses,
           Round2Outcome(rs) # None, SpawnExecuteRound(rs, t)
    PROVE  /\ Orderly(rounds', iters')
           /\ \A r \in DOMAIN rounds' : rounds'[r].status = "in_progress" =>
                  rounds'[r].type = "execute"
           /\ \E r \in DOMAIN rounds' : rounds'[r].status = "in_progress"
           /\ session' = "executing"
<1> DEFINE input == Draft(Round2Outcome(rs))
<1>1. Spawned(rs, t, "execute", input)
  BY SpawnExecuteRoundOnTrack
<1>2. /\ rounds' = Append(rs, NewRound("execute", None))
      /\ iters' = Append(t, NewIteration(Len(rs) + 1, NextNum(t, Len(rs) + 1), None,
                                         Executor, input))
      /\ session' = "executing"
  BY DEF SpawnExecuteRound, SpawnIteration
<1>3. input.kind # "arbitrate"
  BY DEF Draft
<1> HIDE DEF input
<1>4. Orderly(rounds', iters') /\ Len(rounds') > Len(rs)
  BY <1>1, <1>2, <1>3, OneRoundIsOrderly
<1> QED
  BY <1>1, <1>2, <1>4, SpawnedAlone

LEMMA SpawnRound3Orderly ==
    ASSUME NEW rs, NEW t, Tables(rs, t), Quiet(rs, t), Orderly(rs, t),
           AllConverged(rs), rs # <<>>, NEW output \in Texts, Round2Outcome(rs) = output,
           SpawnRound3(rs, t, Draft(output))
    PROVE  /\ Orderly(rounds', iters')
           /\ \A r \in DOMAIN rounds' : rounds'[r].status = "in_progress" =>
                  r > Len(rs) /\ rounds'[r].type = "multi_agent_review"
           /\ \E r \in DOMAIN rounds' : rounds'[r].status = "in_progress"
           /\ session' = "round_3"
<1> DEFINE input == Draft(output)
<1>1. input \in Inputs /\ input.kind # "arbitrate" /\ output # None
  BY RegistryAssumption DEF Inputs, Draft
<1>2. Spawned(rs, t, "multi_agent_review", input)
  BY <1>1, SpawnRound3OnTrack
<1>3. rounds' = Append(rs, NewRound("multi_agent_review", None)) /\ session' = "round_3"
  BY DEF SpawnRound3
<1>4. Len(rounds') > Len(rs)
  BY <1>3 DEF Tables
<1> HIDE DEF input
<1>5. Orderly(rounds', iters')
  BY <1>1, <1>2, SpawnedIsOrderly
<1> QED
  BY <1>2, <1>3, <1>4, <1>5, SpawnedAlone

LEMMA SpawnRound1Orderly ==
    ASSUME NEW rs, NEW t, Tables(rs, t), Quiet(rs, t), Orderly(rs, t),
           NEW input \in Inputs, input.kind # "arbitrate",
           NEW status \in SessionStatuses, SpawnRound1(rs, t, input, status)
    PROVE  /\ Orderly(rounds', iters')
           /\ \A r \in DOMAIN rs : rounds'[r] = rs[r]
           /\ \A r \in DOMAIN rounds' : r \notin DOMAIN rs =>
                  /\ rounds'[r].type = "same_host_pair"
                  /\ rounds'[r].status = "in_progress"
           /\ \A r \in DOMAIN rounds' : rounds'[r].status = "in_progress" =>
                  rounds'[r].type = "same_host_pair"
           /\ EveryHostPaired => session' = "round_1"
           /\ EveryHostPaired /\ HostOrder # <<>> =>
                  \E r \in DOMAIN rounds' : rounds'[r].status = "in_progress"
<1> DEFINE n == Cardinality(ReadyHosts)
<1>1. /\ Spawned(rs, t, "same_host_pair", input)
      /\ \A i, j \in DOMAIN iters' :
             i > Len(t) /\ j > Len(t) /\ iters'[i].round = iters'[j].round => i = j
  BY SpawnRound1OnTrack
<1>2. /\ n \in Nat /\ Len(rounds') = Len(rs) + n /\ Len(iters') = Len(t) + n
      /\ \A k \in 1..n : rounds'[Len(rs) + k] = NewRound("same_host_pair", HostOrder[k])
      /\ \A k \in 1..n : iters'[Len(t) + k] =
             NewIteration(Len(rs) + k, 1, None, Workers[HostOrder[k]][1], input)
  BY SpawnRound1Rows
<1>3. /\ \A k \in 1..n : rounds'[Len(rs) + k].host = HostOrder[k]
      /\ \A k \in 1..n : iters'[Len(t) + k].round = Len(rs) + k
  <2>1. \A type, h : NewRound(type, h).host = h
    BY DEF NewRound
  <2>2. \A r, num, dst : NewIteration(r, num, None, dst, input).round = r
    BY DEF NewIteration
  <2> HIDE DEF n
  <2>3. ASSUME NEW k \in 1..n
        PROVE  rounds'[Len(rs) + k].host = HostOrder[k]
    <3>1. rounds'[Len(rs) + k] = NewRound("same_host_pair", HostOrder[k])
      BY <1>2
    <3> QED
      BY <3>1, <2>1
  <2>4. ASSUME NEW k \in 1..n
        PROVE  iters'[Len(t) + k].round = Len(rs) + k
    <3>1. iters'[Len(t) + k] =
              NewIteration(Len(rs) + k, 1, None, Workers[HostOrder[k]][1], input)
      BY <1>2
    <3> QED
      BY <3>1, <2>2
  <2> QED
    BY <2>3, <2>4
<1>4. /\ Len(rs) \in Nat /\ Len(t) \in Nat /\ DOMAIN rs = 1..Len(rs)
      /\ DOMAIN rounds' = 1..(Len(rs) + n) /\ DOMAIN iters' = 1..(Len(t) + n)
  BY <1>1, <1>2 DEF Tables, Spawned
<1>5. /\ n \in 0..Len(HostOrder) /\ Len(HostOrder) \in Nat
      /\ DOMAIN HostOrder = 1..Len(HostOrder)
  BY ReadyHostsArePrefix, RegistryAssumption
<1> HIDE DEF n
<1>6. \A r \in DOMAIN rounds' : r > Len(rs) =>
          r - Len(rs) \in 1..n /\ r = Len(rs) + (r - Len(rs))
  BY <1>2, <1>4
<1>7. ASSUME NEW r \in DOMAIN rounds', r > Len(rs)
      PROVE  /\ r - Len(rs) \in DOMAIN HostOrder /\ rounds'[r].host = HostOrder[r - Len(rs)]
             /\ IterationsOf(iters', r) # {}
  <2> DEFINE k == r - Len(rs)
  <2>1. k \in 1..n /\ r = Len(rs) + k
    BY <1>6, <1>7
  <2> HIDE DEF k
  <2>2. Len(t) + k \in DOMAIN iters' /\ iters'[Len(t) + k].round = r
    BY <1>2, <1>3, <1>4, <2>1
  <2>3. k \in DOMAIN HostOrder /\ rounds'[r].host = HostOrder[k]
    BY <1>2, <1>3, <1>5, <2>1
  <2> QED
    BY <2>2, <2>3 DEF IterationsOf, k
<1>8. \A q, r \in DOMAIN rounds' :
          q > Len(rs) /\ r > Len(rs) /\ rounds'[q].host = rounds'[r].host => q = r
  BY <1>4, <1>6, <1>7, DistinctAssumption
<1>9. ASSUME EveryHostPaired
      PROVE  n = Len(HostOrder)
  <2>1. \A k \in DOMAIN HostOrder : HostOrder[k] \in Hosts
    BY DEF Hosts, Elements
  <2>2. \A k \in DOMAIN HostOrder : \A j \in 1..k : Len(Workers[HostOrder[j]]) = 2
    BY <1>5, <1>9, <2>1 DEF EveryHostPaired
  <2>3. ReadyHosts = 1..Len(HostOrder)
    BY <1>5, <2>2 DEF ReadyHosts
  <2>4. \A m \in Nat : Cardinality(1..m) = m
    BY FS_Interval
  <2> QED
    BY <1>5, <2>3, <2>4 DEF n
<1>10. ASSUME EveryHostPaired
       PROVE  Covered(rounds')
  <2> SUFFICES ASSUME NEW h \in Hosts
               PROVE  PairRoundsOn(rounds', h) # {}
    BY DEF Covered
  <2>1. PICK k \in DOMAIN HostOrder : HostOrder[k] = h
    BY DEF Hosts, Elements
  <2>2. k \in 1..n
    BY <1>5, <1>9, <1>10, <2>1
  <2>3. Len(rs) + k \in DOMAIN rounds' /\ Len(rs) + k > Len(rs)
    BY <1>2, <1>4, <2>2
  <2>4. rounds'[Len(rs) + k].type = "same_host_pair" /\ rounds'[Len(rs) + k].host = h
    BY <1>1, <1>3, <2>1, <2>2, <2>3 DEF Spawned
  <2> QED
    BY <2>3, <2>4 DEF PairRoundsOn, RoundsOfType
<1>11. Orderly(rounds', iters')
  BY <1>1, <1>7, <1>8, <1>10, SpawnedIsOrderly
<1>12. \A r \in DOMAIN rs : rounds'[r] = rs[r]
  BY <1>1 DEF Spawned
<1>13. \A r \in DOMAIN rounds' : r \notin DOMAIN rs =>
           rounds'[r].type = "same_host_pair" /\ rounds'[r].status = "in_progress"
  BY <1>1, <1>4 DEF Spawned
<1>14. EveryHostPaired => session' = "round_1"
  BY <1>9 DEF SpawnRound1, n
<1>15. ASSUME EveryHostPaired, HostOrder # <<>>
       PROVE  \E r \in DOMAIN rounds' : rounds'[r].status = "in_progress"
  <2>1. Len(HostOrder) # 0
    BY <1>15, RegistryAssumption
  <2>2. Len(rounds') > Len(rs)
    BY <1>2, <1>4, <1>5, <1>9, <1>15, <2>1
  <2> QED
    BY <1>1, <2>2, SpawnedAlone
<1> QED
  BY <1>1, <1>11, <1>12, <1>13, <1>14, <1>15, SpawnedAlone

-----------------------------------------------------------------------------
(***************************************************************************)
(* The steps.                                                              *)
(***************************************************************************)
\* When all pairs have converged the arbitrator is given what they agreed on.
LEMMA OutcomesAreBacked ==
    ASSUME NEW rs, NEW t, Tables(rs, t), EveryHostPaired, Orderly(rs, t), rs # <<>>,
           AllConverged(rs)
    PROVE  Backed(rs, Len(rs) + 1, RoundOutcomesPerHost(rs))
<1>1. /\ Len(rs) \in Nat /\ DOMAIN rs = 1..Len(rs)
      /\ \A h \in Hosts : PairRoundsOn(rs, h) # {}
  BY DEF Tables, Orderly, Covered
<1> SUFFICES ASSUME NEW h \in Hosts
             PROVE  \E r \in DOMAIN rs :
                        /\ rs[r].type = "same_host_pair" /\ rs[r].host = h
                        /\ r < Len(rs) + 1
                        /\ rs[r].status = "converged"
                        /\ rs[r].outcome = RoundOutcomesPerHost(rs)[h]
  BY DEF Backed
<1> DEFINE r == Latest(PairRoundsOn(rs, h))
<1>2. r \in PairRoundsOn(rs, h)
  <2>1. PairRoundsOn(rs, h) \in SUBSET (1..Len(rs))
    BY <1>1 DEF PairRoundsOn, RoundsOfType
  <2> QED
    BY <1>1, <2>1, LatestIsMember
<1>3. /\ r \in DOMAIN rs /\ rs[r].type = "same_host_pair" /\ rs[r].host = h
      /\ rs[r].status = "converged" /\ r < Len(rs) + 1
  BY <1>1, <1>2 DEF PairRoundsOn, RoundsOfType, AllConverged
<1>4. RoundOutcomesPerHost(rs)[h] = rs[r].outcome
  <2>1. h \in {rs[q].host : q \in RoundsOfType(rs, "same_host_pair")}
    BY <1>3 DEF RoundsOfType
  <2> QED
    BY <2>1 DEF RoundOutcomesPerHost
<1> QED
  BY <1>3, <1>4

\* No review is in progress while only pairs are active.
LEMMA PairsAreAnnounced ==
    ASSUME NEW rs, NEW t, Tables(rs, t), Orderly(rs, t),
           \A q \in DOMAIN rs : Active(rs, t, q) => rs[q].type = "same_host_pair"
    PROVE  \A q \in DOMAIN rs : rs[q].status = "in_progress" => rs[q].type = "same_host_pair"
BY DEF Orderly, Lively

LEMMA MaybeAdvanceStaged ==
    ASSUME StageInv, NEW r \in DOMAIN rounds, Active(rounds, iters, r),
           rounds[r].type = "same_host_pair",
           NEW rs, NEW t, Moved(rounds, iters, rs, t), Tables(rs, t), Orderly(rs, t),
           rs[r].status = "converged", \A q \in DOMAIN rounds : q # r => rs[q] = rounds[q],
           \A q \in DOMAIN rs : Active(rs, t, q) =>
               rs[q].type = "same_host_pair" /\ rs[q].status # "converged",
           MaybeAdvanceToRound2(rs, t), UNCHANGED reviews
    PROVE  Staged
<1> DEFINE input == ArbitratorInput(RoundOutcomesPerHost(rs))
<1>1. /\ Tables(rounds, iters) /\ Track(rounds, iters) /\ Orderly(rounds, iters)
      /\ DOMAIN rs = DOMAIN rounds /\ Len(rounds) \in Nat /\ rs # <<>> /\ rounds # <<>>
      /\ \A q \in DOMAIN rounds : rs[q].type = rounds[q].type
  <2>1. Tables(rounds, iters) /\ Track(rounds, iters) /\ Orderly(rounds, iters)
        /\ Len(rounds) \in Nat /\ DOMAIN rounds = 1..Len(rounds)
    BY StageTables
  <2> QED
    BY <2>1 DEF Tables, Moved
<1>2. \A q \in DOMAIN rs : rs[q].status = "in_progress" => rs[q].type = "same_host_pair"
  BY PairsAreAnnounced
<1>3. \A q \in DOMAIN rounds : rounds[q].status = "in_progress" =>
          rounds[q].type = "same_host_pair"
  BY <1>1 DEF Orderly, Lively, Track, OneTrack
<1>4. \/ /\ ~AllConverged(rs)
         /\ rounds' = rs /\ iters' = t /\ session' = session
      \/ /\ AllConverged(rs)
         /\ rounds' = rs /\ iters' = t /\ session' = "escalated"
      \/ /\ AllConverged(rs)
         /\ SpawnRound2(rs, t, input)
  BY DEF MaybeAdvanceToRound2, AllConverged, RoundsOfType
<1>5. input \in Inputs /\ (input.kind = "arbitrate" => input.outcomes = RoundOutcomesPerHost(rs))
  BY OutcomesAreInput DEF Tables, ArbitratorInput
<1>6. EveryHostPaired /\ NobodySkipped => HostOrder # <<>>
  BY <1>1, HostsAreThere
<1> HIDE DEF input
<1>7. ASSUME ~AllConverged(rs), rounds' = rs, iters' = t, session' = session
      PROVE  Staged
  <2>1. ASSUME EveryHostPaired
        PROVE  Announced(session, rs)
    BY <1>1, <1>2, <1>3, <2>1 DEF StageInv, Stages, Announced, Moved
  <2>2. ASSUME EveryHostPaired, NobodySkipped
        PROVE  Awaited(session, rs, reviews)
    <3>1. Awaited(session, rounds, reviews) /\ Announced(session, rounds)
      BY <2>2 DEF StageInv, Stages
    <3>2. session \notin {"round_2", "round_3", "executing"}
      <4> SUFFICES ASSUME session \in {"round_2", "round_3", "executing"}
                   PROVE  FALSE
        OBVIOUS
      <4>1. PICK q \in DOMAIN rounds : rounds[q].status = "in_progress"
        BY <3>1 DEF Awaited
      <4>2. rounds[q].type # "same_host_pair"
        BY <3>1, <4>1 DEF Announced, StageType
      <4> QED
        BY <1>3, <4>1, <4>2
    <3>3. PICK q \in DOMAIN rs : rs[q].type = "same_host_pair" /\ rs[q].status # "converged"
      BY <1>7 DEF AllConverged
    <3>4. q # r /\ rs[q] = rounds[q]
      BY <1>1, <3>3
    <3>5. session = "round_1" => rs[q].status = "in_progress"
      BY <1>1, <3>1, <3>3, <3>4 DEF Awaited
    <3>6. session = "round_1" => \A p \in DOMAIN rs : rs[p].type = "same_host_pair" =>
              rs[p].status \in {"converged", "in_progress"}
      BY <1>1, <3>1 DEF Awaited
    <3> QED
      BY <1>2, <1>6, <2>2, <3>2, <3>5, <3>6 DEF Awaited
  <2> QED
    BY <1>7, <2>1, <2>2 DEF Staged, Stages
<1>8. ASSUME AllConverged(rs), rounds' = rs, iters' = t, session' = "escalated"
      PROVE  Staged
  <2>1. \A q \in DOMAIN rs : rs[q].status # "in_progress"
    BY <1>2, <1>8 DEF AllConverged
  <2>2. Stages("escalated", rs, reviews)
    <3>1. Announced("escalated", rs)
      BY <2>1 DEF Announced
    <3>2. EveryHostPaired /\ NobodySkipped => Awaited("escalated", rs, reviews)
      BY <1>6, <2>1 DEF Awaited
    <3> QED
      BY <3>1, <3>2 DEF Stages
  <2> QED
    BY <1>8, <2>2 DEF Staged
<1>9. ASSUME AllConverged(rs), SpawnRound2(rs, t, input)
      PROVE  Staged
  <2>1. Quiet(rs, t)
    BY <1>9 DEF Quiet, AllConverged
  <2>2. EveryHostPaired /\ input.kind = "arbitrate" => Backed(rs, Len(rs) + 1, input.outcomes)
    BY <1>1, <1>5, <1>9, OutcomesAreBacked
  <2>3. /\ Orderly(rounds', iters')
        /\ \A q \in DOMAIN rounds' : rounds'[q].status = "in_progress" =>
               rounds'[q].type = "cross_host_arbitration"
        /\ \E q \in DOMAIN rounds' : rounds'[q].status = "in_progress"
        /\ session' = "round_2"
    BY <1>1, <1>5, <1>9, <2>1, <2>2, SpawnRound2Orderly
  <2>4. Stages(session', rounds', reviews')
    BY <1>6, <2>3 DEF Stages, Announced, Awaited, StageType
  <2> QED
    BY <2>3, <2>4 DEF Staged
<1> QED
  BY <1>4, <1>7, <1>8, <1>9

\* An answer is written into the row it answers.
LEMMA AnswerStaysHome ==
    ASSUME NEW rs, NEW t, Tables(rs, t), NEW i \in DOMAIN t, NEW output, NEW assess
    PROVE  \A j \in DOMAIN t : t[j].round # t[i].round => Respond(t, i, output, assess)[j] = t[j]
BY DEF Tables, Respond

LEMMA OthersStayActive ==
    ASSUME NEW rs, NEW t, Tables(rs, t), NEW rs2, NEW t2, Tables(rs2, t2), Moved(rs, t, rs2, t2),
           NEW q \in DOMAIN rs, rs2[q] = rs[q],
           \A j \in DOMAIN t : t[j].round = q => t2[j] = t[j]
    PROVE  Active(rs2, t2, q) <=> Active(rs, t, q)
<1>1. DOMAIN t2 = DOMAIN t
  BY DEF Tables, Moved
<1>2. IterationsOf(t2, q) = IterationsOf(t, q)
  BY <1>1 DEF IterationsOf, Moved, SameAsk
<1>3. \A i \in IterationsOf(t, q) : t2[i] = t[i]
  BY DEF IterationsOf
<1> QED
  BY <1>2, <1>3 DEF Active

\* A pair that is closed, with an outcome it agrees on or escalated.
LEMMA ClosedPairIsOrderly ==
    ASSUME StageInv, NEW i, NEW output, NEW assess \in {"converged", "more_work_needed"},
           RespondInRound1(i, output, assess),
           NEW rs, NEW status \in {"escalated", "converged"}, NEW outcome,
           ClosedPair(rs, Respond(iters, i, output, assess), iters[i].round, status, outcome),
           status = "converged" =>
               Agrees(rs, Respond(iters, i, output, assess), iters[i].round)
    PROVE  Orderly(rs, Respond(iters, i, output, assess))
<1> DEFINE t == Respond(iters, i, output, assess)
           r == iters[i].round
<1>1. ApprovalInv /\ Tables(rounds, iters) /\ Track(rounds, iters) /\ Orderly(rounds, iters)
  BY StageTables
<1>2. i \in DOMAIN iters /\ r \in DOMAIN rounds /\ rounds[r].status # "converged"
  BY <1>1, PairAnswered
<1>3. \A j \in DOMAIN iters : iters[j].round # r => t[j] = iters[j]
  BY <1>1, <1>2, AnswerStaysHome
<1>4. /\ Tables(rs, t) /\ Moved(rounds, iters, rs, t) /\ rs[r].status = status
      /\ \A q \in DOMAIN rounds : q # r => rs[q] = rounds[q]
      /\ \A q \in DOMAIN rs : Active(rs, t, q) => rs[q].type = "same_host_pair"
      /\ status = "converged" => Agrees(rs, t, r)
  BY DEF ClosedPair
<1> HIDE DEF t, r
<1>5. DOMAIN rs = DOMAIN rounds /\ \A q \in DOMAIN rounds : rs[q].type = rounds[q].type
  BY <1>1, <1>4 DEF Tables, Moved
<1>6. ASSUME NEW q \in DOMAIN rounds, rs[q].status = "in_progress"
      PROVE  Active(rs, t, q)
  <2>1. q # r /\ rs[q] = rounds[q]
    BY <1>4, <1>6
  <2>2. Active(rounds, iters, q)
    BY <1>1, <1>6, <2>1 DEF Orderly, Lively
  <2>3. \A j \in DOMAIN iters : iters[j].round = q => t[j] = iters[j]
    BY <1>3, <2>1
  <2> QED
    BY <1>1, <1>4, <2>1, <2>2, <2>3, OthersStayActive
<1>7. Concluding(rounds, iters, rs, t)
  <2> SUFFICES ASSUME NEW q \in DOMAIN rounds
               PROVE  /\ rounds[q].type = "same_host_pair" /\ rounds[q].status = "converged" =>
                             rs[q] = rounds[q]
                      /\ rounds[q].type = "same_host_pair" /\ rs[q].status = "converged" =>
                             rounds[q].status = "converged" \/ Agrees(rs, t, q)
                      /\ rs[q].status = "in_progress" => Active(rs, t, q)
                      /\ ~(Active(rs, t, q) /\ rounds[q].type \in {"multi_agent_review", "execute"})
    BY DEF Concluding
  <2>1. CASE q = r
    BY <1>2, <1>4, <1>5, <1>6, <2>1
  <2>2. CASE q # r
    BY <1>4, <1>5, <1>6, <2>2
  <2> QED
    BY <2>1, <2>2
<1>8. Orderly(rs, t)
  BY <1>1, <1>4, <1>7, MovedStaysOrderly
<1> QED
  BY <1>8 DEF t

LEMMA RespondInRound1Staged ==
    ASSUME StageInv, NEW i, NEW output, NEW assess \in {"converged", "more_work_needed"},
           RespondInRound1(i, output, assess), Tables(rounds', iters')
    PROVE  Staged
<1> DEFINE t == Respond(iters, i, output, assess)
           r == iters[i].round
           l == LatestAnswered(t, r)
<1>1. /\ ApprovalInv /\ Tables(rounds, iters) /\ Track(rounds, iters)
      /\ Orderly(rounds, iters) /\ Sound(rounds, iters)
  BY StageTables
<1>2. /\ i \in DOMAIN iters /\ iters[i].status # "complete" /\ output \in Texts
      /\ r \in DOMAIN rounds
      /\ rounds[r].type = "same_host_pair" /\ rounds[r].status # "converged"
      /\ Tables(rounds, t) /\ Answered(t, r) # {}
      /\ Active(rounds, iters, r) /\ ~Active(rounds, t, r)
      /\ Moved(rounds, iters, rounds, t)
      /\ \A q \in DOMAIN rounds : Active(rounds, t, q) => rounds[q].type = "same_host_pair"
      /\ AdvanceRound1(t, r)
      /\ UNCHANGED <<reviews, skipped, finalized>>
  BY <1>1, PairAnswered
<1>3. \A j \in DOMAIN iters : iters[j].round # r => t[j] = iters[j]
  BY <1>1, <1>2, AnswerStaysHome
<1>4. Sound(rounds, t)
  BY <1>1, <1>2, RespondStaysSound
<1>5. t[l].output \in Texts
  BY <1>2, LatestAnswerIsText DEF Tables
<1>6. ASSUME NEW status \in {"escalated", "converged"}, NEW outcome \in Texts \cup {None},
             status = "converged" => IsConverged(t, r) /\ outcome = t[l].output
      PROVE  /\ ClosedPair(UpdateRound(rounds, r, status, outcome), t, r, status, outcome)
             /\ Orderly(UpdateRound(rounds, r, status, outcome), t)
  <2> DEFINE rs == UpdateRound(rounds, r, status, outcome)
  <2>1. ClosedPair(rs, t, r, status, outcome)
    BY <1>1, PairClosed
  <2>2. status = "converged" => Agrees(rs, t, r)
    BY <1>5, <1>6, <2>1, RegistryAssumption DEF ClosedPair, Agrees
  <2> HIDE DEF rs
  <2>3. Orderly(rs, t)
    BY <2>1, <2>2, ClosedPairIsOrderly
  <2> QED
    BY <2>1, <2>3 DEF rs
<1> HIDE DEF t, r, l
<1>7. ASSUME rounds' = UpdateRound(rounds, r, "escalated", None), iters' = t,
             session' = "escalated"
      PROVE  Staged
  <2> DEFINE rs == UpdateRound(rounds, r, "escalated", None)
  <2>1. ClosedPair(rs, t, r, "escalated", None) /\ Orderly(rs, t)
    BY <1>6
  <2> HIDE DEF rs
  <2>2. \A q \in DOMAIN rs : rs[q].status = "in_progress" => rs[q].type = "same_host_pair"
    BY <2>1, PairsAreAnnounced DEF ClosedPair
  <2>3. rounds # <<>>
    BY <1>2
  <2>4. Stages("escalated", rs, reviews)
    BY <2>2, <2>3, HostsAreThere DEF Stages, Announced, Awaited, StageType
  <2> QED
    BY <1>2, <1>7, <2>1, <2>4 DEF Staged, rs
<1>8. ASSUME IsConverged(t, r),
             MaybeAdvanceToRound2(UpdateRound(rounds, r, "converged", t[l].output), t)
      PROVE  Staged
  <2> DEFINE rs == UpdateRound(rounds, r, "converged", t[l].output)
  <2>1. ClosedPair(rs, t, r, "converged", t[l].output) /\ Orderly(rs, t)
    BY <1>5, <1>6, <1>8
  <2>2. MaybeAdvanceToRound2(rs, t)
    BY <1>8
  <2> HIDE DEF rs
  <2> QED
    BY <1>2, <2>1, <2>2, MaybeAdvanceStaged DEF ClosedPair
<1>9. ASSUME ~Stalled(t, r), ~IsConverged(t, r), UNCHANGED <<session, rounds>>,
             iters' = SpawnIteration(t, r, t[l].dst,
                          OtherAgentOnHost(rounds[r].host, t[l].dst), Draft(t[l].output))
      PROVE  Staged
  <2>1. Tables(rounds, iters')
    BY <1>9
  <2>2. Orderly(rounds, iters')
    BY <1>1, <1>2, <1>3, <1>4, <1>9, <2>1, AskedStaysOrderly DEF l
  <2> QED
    BY <1>2, <1>9, <2>2 DEF StageInv, Staged
<1> QED
  BY <1>2, <1>7, <1>8, <1>9 DEF AdvanceRound1, l

\* The new review round still waits for every reviewer: nobody has reviewed in
\* a round that was not there.
LEMMA RespondInRound2Staged ==
    ASSUME StageInv, NEW i, NEW output, NEW assess \in {"converged", "more_work_needed"},
           RespondInRound2(i, output, assess)
    PROVE  Staged
<1> DEFINE t == Respond(iters, i, output, assess)
           r == iters[i].round
           rs == UpdateRound(rounds, r, "complete", output)
<1>1. /\ ApprovalInv /\ Tables(rounds, iters) /\ reviews \in SUBSET Review
      /\ \A v \in reviews : v.round \in DOMAIN rounds
  BY StageTables
<1>2. /\ output \in Texts /\ r \in DOMAIN rounds
      /\ rounds[r].type = "cross_host_arbitration" /\ Active(rounds, iters, r)
      /\ Tables(rs, t) /\ Moved(rounds, iters, rs, t) /\ Quiet(rs, t)
      /\ rs[r].status = "complete"
      /\ \A q \in DOMAIN rounds : q # r => rs[q] = rounds[q]
      /\ Round2Outcome(rs) = output
  BY <1>1, ArbitratorAnswered
<1>3. /\ \/ ExpectedReviewers # {} /\ SpawnRound3(rs, t, Draft(output))
         \/ ExpectedReviewers = {} /\ rounds' = rs /\ iters' = t /\ session' = session
      /\ reviews' = reviews
  BY DEF RespondInRound2
<1> HIDE DEF t, r, rs
<1>4. /\ Orderly(rs, t) /\ AllConverged(rs) /\ rs # <<>>
      /\ \A q \in DOMAIN rs : rs[q].status # "in_progress"
  BY <1>2, DoneIsOrderly
<1>5. ASSUME EveryHostPaired, NobodySkipped
      PROVE  HostOrder # <<>> /\ AllWorkers # {} /\ ExpectedReviewers = AllWorkers
  <2>1. skipped = {}
    BY <1>5 DEF StageInv
  <2>2. rounds # <<>>
    BY <1>2
  <2> QED
    BY <1>5, <2>1, <2>2, HostsAreThere DEF ExpectedReviewers
<1>6. ASSUME SpawnRound3(rs, t, Draft(output))
      PROVE  Staged
  <2>1. /\ Orderly(rounds', iters')
        /\ \A q \in DOMAIN rounds' : rounds'[q].status = "in_progress" =>
               q > Len(rs) /\ rounds'[q].type = "multi_agent_review"
        /\ \E q \in DOMAIN rounds' : rounds'[q].status = "in_progress"
        /\ session' = "round_3"
    BY <1>2, <1>4, <1>6, SpawnRound3Orderly
  <2>2. /\ Len(rs) = Len(rounds) /\ Len(rounds) \in Nat /\ DOMAIN rounds = 1..Len(rounds)
    BY <1>1, <1>2 DEF Tables, Moved
  <2>3. ASSUME NEW q, q > Len(rs)
        PROVE  ReviewersOf(reviews, q) = {}
    BY <1>1, <2>2, <2>3 DEF ReviewersOf
  <2>4. Stages(session', rounds', reviews')
    BY <1>3, <1>5, <2>1, <2>3 DEF Stages, Announced, Awaited, StageType
  <2> QED
    BY <2>1, <2>4 DEF Staged
<1>7. ASSUME ExpectedReviewers = {}, rounds' = rs, iters' = t, session' = session
      PROVE  Staged
  <2>1. Stages(session, rs, reviews)
    BY <1>4, <1>5, <1>7 DEF Stages, Announced
  <2> QED
    BY <1>3, <1>4, <1>7, <2>1 DEF Staged
<1> QED
  BY <1>3, <1>6, <1>7

LEMMA CloseReviewStaged ==
    ASSUME StageInv, NEW r \in DOMAIN rounds,
           rounds[r].type = "multi_agent_review", rounds[r].status = "in_progress",
           NEW vs \in SUBSET Review, CloseReview(r, vs)
    PROVE  Staged
<1> DEFINE rs == UpdateRound(rounds, r, "complete", None)
           rejecters == RejectersOf(vs, r)
<1>1. /\ ApprovalInv /\ Tables(rounds, iters) /\ Orderly(rounds, iters)
      /\ session \in SessionStatuses
  BY StageTables
<1>2. /\ Active(rounds, iters, r)
      /\ Tables(rs, iters) /\ Moved(rounds, iters, rs, iters) /\ Quiet(rs, iters)
      /\ rs[r].status = "complete"
      /\ \A q \in DOMAIN rounds : q # r => rs[q] = rounds[q]
      /\ Round2Outcome(rs) = Round2Outcome(rounds)
      /\ Round2Outcome(rs) \in Texts \cup {None}
  BY <1>1, ReviewClosed
<1>3. Round2Outcome(rs) # None
  <2> HIDE DEF rs
  <2> QED
    BY <1>1, <1>2 DEF Orderly, Synthesized
<1>4. \/ SpawnExecuteRound(rs, iters)
      \/ SpawnRound2(rs, iters, MediationInput(Round2Outcome(rs), rejecters))
      \/ SpawnRound1(rs, iters, ProblemWith(rejecters), session)
  BY DEF CloseReview
<1>5. rejecters \in SUBSET Agents
  BY DEF RejectersOf, Review
<1> HIDE DEF rs, rejecters
<1>6. /\ Orderly(rs, iters) /\ AllConverged(rs) /\ rs # <<>>
      /\ \A q \in DOMAIN rs : rs[q].status # "in_progress"
  BY <1>2, DoneIsOrderly
<1>7. EveryHostPaired /\ NobodySkipped => HostOrder # <<>>
  <2>1. rounds # <<>>
    OBVIOUS
  <2> QED
    BY <2>1, HostsAreThere
<1>8. ASSUME SpawnExecuteRound(rs, iters)
      PROVE  Staged
  <2>1. /\ Orderly(rounds', iters')
        /\ \A q \in DOMAIN rounds' : rounds'[q].status = "in_progress" =>
               rounds'[q].type = "execute"
        /\ \E q \in DOMAIN rounds' : rounds'[q].status = "in_progress"
        /\ session' = "executing"
    BY <1>1, <1>2, <1>3, <1>6, <1>8, SpawnExecuteRoundOrderly
  <2>2. Stages(session', rounds', reviews')
    BY <1>7, <2>1 DEF Stages, Announced, Awaited, StageType
  <2> QED
    BY <2>1, <2>2 DEF Staged
<1>9. ASSUME SpawnRound2(rs, iters, MediationInput(Round2Outcome(rs), rejecters))
      PROVE  Staged
  <2> DEFINE input == MediationInput(Round2Outcome(rs), rejecters)
  <2>1. input \in Inputs /\ input.kind # "arbitrate"
    BY <1>2, <1>5 DEF Inputs, MediationInput
  <2>2. SpawnRound2(rs, iters, input)
    BY <1>9
  <2> HIDE DEF input
  <2>3. /\ Orderly(rounds', iters')
        /\ \A q \in DOMAIN rounds' : rounds'[q].status = "in_progress" =>
               rounds'[q].type = "cross_host_arbitration"
        /\ \E q \in DOMAIN rounds' : rounds'[q].status = "in_progress"
        /\ session' = "round_2"
    BY <1>2, <1>6, <2>1, <2>2, SpawnRound2Orderly
  <2>4. Stages(session', rounds', reviews')
    BY <1>7, <2>3 DEF Stages, Announced, Awaited, StageType
  <2> QED
    BY <2>3, <2>4 DEF Staged
<1>10. ASSUME SpawnRound1(rs, iters, ProblemWith(rejecters), session)
       PROVE  Staged
  <2> DEFINE input == ProblemWith(rejecters)
  <2>1. input \in Inputs /\ input.kind # "arbitrate"
    BY <1>5 DEF Inputs, ProblemWith
  <2>2. SpawnRound1(rs, iters, input, session)
    BY <1>10
  <2> HIDE DEF input
  <2>3. /\ Orderly(rounds', iters')
        /\ \A q \in DOMAIN rs : rounds'[q] = rs[q]
        /\ \A q \in DOMAIN rounds' : q \notin DOMAIN rs =>
               rounds'[q].type = "same_host_pair" /\ rounds'[q].status = "in_progress"
        /\ \A q \in DOMAIN rounds' : rounds'[q].status = "in_progress" =>
               rounds'[q].type = "same_host_pair"
        /\ EveryHostPaired => session' = "round_1"
        /\ EveryHostPaired /\ HostOrder # <<>> =>
               \E q \in DOMAIN rounds' : rounds'[q].status = "in_progress"
    BY <1>1, <1>2, <1>6, <2>1, <2>2, SpawnRound1Orderly
  <2>4. \A q \in DOMAIN rounds' : rounds'[q].type = "same_host_pair" =>
            rounds'[q].status \in {"converged", "in_progress"}
    BY <1>6, <2>3 DEF AllConverged
  <2>5. Stages(session', rounds', reviews')
    BY <1>7, <2>3, <2>4 DEF Stages, Announced, Awaited, StageType
  <2> QED
    BY <2>3, <2>5 DEF Staged
<1> QED
  BY <1>4, <1>8, <1>9, <1>10

LEMMA EmitReviewStaged ==
    ASSUME StageInv, NEW r \in DOMAIN rounds, NEW a \in Agents,
           NEW decision \in {"approve", "reject"},
           OpenReviewRequest(r, a), EmitReview(r, a, decision)
    PROVE  Staged
<1> DEFINE vs == reviews \cup {[round |-> r, reviewer |-> a, decision |-> decision]}
<1>1. Orderly(rounds, iters) /\ reviews \in SUBSET Review /\ Len(rounds) \in Nat
      /\ DOMAIN rounds = 1..Len(rounds)
  BY StageTables
<1>2. vs \in SUBSET Review /\ reviews' = vs
  BY <1>1 DEF EmitReview, Review
<1>3. rounds[r].type = "multi_agent_review" /\ rounds[r].status = "in_progress"
  BY DEF EmitReview, OpenReviewRequest
<1>4. CASE CloseReview(r, vs)
  BY <1>2, <1>3, <1>4, CloseReviewStaged
<1>5. CASE ~(ExpectedReviewers \subseteq ReviewersOf(vs, r)) /\ UNCHANGED <<session, rounds, iters>>
  <2>1. ASSUME EveryHostPaired, NobodySkipped
        PROVE  Awaited(session, rounds, vs)
    <3>1. Awaited(session, rounds, reviews) /\ ExpectedReviewers = AllWorkers
      BY <2>1 DEF StageInv, Stages, ExpectedReviewers
    <3>2. \A q : q # r => ReviewersOf(vs, q) = ReviewersOf(reviews, q)
      BY DEF ReviewersOf
    <3> HIDE DEF vs
    <3> QED
      BY <1>5, <3>1, <3>2 DEF Awaited
  <2>2. Stages(session, rounds, vs)
    BY <2>1 DEF StageInv, Stages
  <2> QED
    BY <1>1, <1>2, <1>5, <2>2 DEF Staged
<1> QED
  BY <1>4, <1>5 DEF EmitReview

LEMMA ExecutorStaged ==
    ASSUME StageInv, NEW i \in DOMAIN iters, NEW output,
           ExecutorSucceeds(i, output) \/ ExecutorFails(i, output)
    PROVE  Staged
<1> DEFINE r == iters[i].round
<1>1. ApprovalInv
  BY StageTables
<1>2. /\ r \in DOMAIN rounds /\ rounds[r].type = "execute" /\ Active(rounds, iters, r)
      /\ Tables(rounds', iters') /\ Moved(rounds, iters, rounds', iters')
      /\ Quiet(rounds', iters')
      /\ rounds'[r].status \in {"complete", "escalated"}
      /\ \A q \in DOMAIN rounds : q # r => rounds'[q] = rounds[q]
      /\ UNCHANGED <<reviews, skipped>>
  BY <1>1, ExecutorAnswered
<1>3. session' \in {"complete", "escalated"}
  BY DEF ExecutorSucceeds, ExecutorFails
<1> HIDE DEF r
<1>4. /\ Orderly(rounds', iters') /\ \A q \in DOMAIN rounds' : rounds'[q].status # "in_progress"
  BY <1>2, DoneIsOrderly
<1>5. EveryHostPaired /\ NobodySkipped => HostOrder # <<>>
  <2>1. rounds # <<>>
    BY <1>2
  <2> QED
    BY <2>1, HostsAreThere
<1>6. Stages(session', rounds', reviews')
  BY <1>3, <1>4, <1>5 DEF Stages, Announced, Awaited
<1> QED
  BY <1>4, <1>6 DEF Staged

LEMMA OpenedStaged ==
    ASSUME StageInv, Tables(rounds', iters'), UNCHANGED <<session, rounds, reviews>>,
           Len(iters') = Len(iters), \A i \in DOMAIN iters : Opened(iters[i], iters'[i])
    PROVE  Staged
<1>1. Tables(rounds, iters) /\ Track(rounds, iters) /\ Orderly(rounds, iters)
  BY StageTables
<1>2. Moved(rounds, iters, rounds', iters')
  BY <1>1, OpenedMoves
<1>3. \A i \in DOMAIN iters : iters[i].status # "complete" => iters'[i].status # "complete"
  <2>1. \A i \in DOMAIN iters : iters[i] \in Iteration
    BY <1>1 DEF Tables
  <2> QED
    BY <2>1 DEF Opened, Iteration
<1>4. /\ DOMAIN iters' = DOMAIN iters
      /\ \A r : IterationsOf(iters', r) = IterationsOf(iters, r)
  BY <1>1, <1>2 DEF Tables, Moved, SameAsk, IterationsOf
<1>5. \A r \in DOMAIN rounds : Active(rounds, iters, r) => Active(rounds, iters', r)
  BY <1>3, <1>4 DEF Active, IterationsOf
<1>6. Concluding(rounds, iters, rounds', iters')
  BY <1>1, <1>5 DEF Concluding, Orderly, Lively
<1>7. Orderly(rounds', iters')
  BY <1>1, <1>2, <1>6, MovedStaysOrderly
<1> QED
  BY <1>7 DEF StageInv, Staged

\* The session alone is set: aborted without the abort of its rounds.
LEMMA ResolveAbortStaged ==
    ASSUME StageInv, ResolveAbort
    PROVE  Staged
<1>1. Orderly(rounds, iters) /\ UNCHANGED <<rounds, iters, reviews>> /\ session' = "aborted"
  BY StageTables DEF ResolveAbort
<1>2. Stages("aborted", rounds, reviews)
  BY DEF StageInv, Stages, Announced, Awaited, StageType
<1> QED
  BY <1>1, <1>2 DEF Staged

LEMMA PostAbortStaged ==
    ASSUME StageInv, PostAbort, Tables(rounds', iters')
    PROVE  Staged
<1>1. Tables(rounds, iters) /\ Track(rounds, iters) /\ Orderly(rounds, iters)
  BY StageTables
<1>2. /\ Moved(rounds, iters, rounds', iters') /\ iters' = iters
      /\ \A r \in DOMAIN rounds :
             \/ rounds'[r] = rounds[r]
             \/ /\ rounds[r].status \in {"in_progress", "pending"}
                /\ rounds'[r].status = "aborted"
      /\ \A r \in DOMAIN rounds : /\ rounds'[r].outcome = rounds[r].outcome
                                  /\ rounds'[r].status # "in_progress"
  BY <1>1, PostAbortMoves
<1>3. /\ rounds \in Seq(Round) /\ rounds' \in Seq(Round) /\ Len(rounds) \in Nat
      /\ Len(rounds') = Len(rounds) /\ DOMAIN rounds' = DOMAIN rounds
      /\ \A r \in DOMAIN rounds : rounds'[r].type = rounds[r].type
      /\ \A r \in DOMAIN rounds' : ~(r > Len(rounds))
  BY <1>1, <1>2 DEF Tables, Moved
<1>4. Round2Outcome(rounds') = Round2Outcome(rounds)
  BY <1>2, <1>3, Round2OutcomeStays
<1>5. Concluding(rounds, iters, rounds', iters')
  BY <1>2, <1>4 DEF Concluding
<1>6. Orderly(rounds', iters')
  BY <1>1, <1>2, <1>5, MovedStaysOrderly
<1>7. session' = "aborted" /\ reviews' = reviews
  BY DEF PostAbort
<1>8. Stages(session', rounds', reviews')
  <2>1. rounds' # <<>> => rounds # <<>>
    BY <1>3
  <2> QED
    BY <1>2, <1>3, <1>7, <2>1 DEF StageInv, Stages, Announced, Awaited
<1> QED
  BY <1>6, <1>8 DEF Staged

LEMMA StartSessionStaged ==
    ASSUME StageInv, StartSession
    PROVE  Staged
<1>1. /\ ApprovalInv /\ Tables(rounds, iters) /\ Orderly(rounds, iters)
      /\ rounds = <<>> /\ reviews' = reviews /\ HostOrder # <<>>
  BY StageTables DEF ApprovalInv, StartSession
<1>2. Quiet(rounds, iters)
  BY <1>1 DEF Quiet
<1>3. /\ SpawnRound1(rounds, iters, Problem, "drafting")
      /\ Problem \in Inputs /\ Problem.kind # "arbitrate" /\ "drafting" \in SessionStatuses
  BY DEF StartSession, Inputs, Problem, SessionStatuses
<1>4. /\ Orderly(rounds', iters')
      /\ \A q \in DOMAIN rounds' : q \notin DOMAIN rounds =>
             rounds'[q].type = "same_host_pair" /\ rounds'[q].status = "in_progress"
      /\ \A q \in DOMAIN rounds' : rounds'[q].status = "in_progress" =>
             rounds'[q].type = "same_host_pair"
      /\ EveryHostPaired => session' = "round_1"
      /\ EveryHostPaired /\ HostOrder # <<>> =>
             \E q \in DOMAIN rounds' : rounds'[q].status = "in_progress"
  BY <1>1, <1>2, <1>3, SpawnRound1Orderly
<1>5. Stages(session', rounds', reviews')
  BY <1>1, <1>4 DEF Stages, Announced, Awaited, StageType
<1> QED
  BY <1>4, <1>5 DEF Staged

LEMMA NextStaged ==
    ASSUME Unforced, StageInv, Next
    PROVE  Staged
<1>1. Tables(rounds', iters')
  BY NextKeeps DEF StageInv, ApprovalInv, Step
<1>2. ASSUME EmitResponse
      PROVE  Staged
  <2>1. PICK i \in DOMAIN iters, output \in Texts, assess \in {"converged", "more_work_needed"} :
            RespondInRound1(i, output, assess) \/ RespondInRound2(i, output, assess)
    BY <1>2 DEF EmitResponse
  <2> QED
    BY <1>1, <2>1, RespondInRound1Staged, RespondInRound2Staged
<1>3. ASSUME ExecutorEmit
      PROVE  Staged
  BY <1>3, ExecutorStaged DEF ExecutorEmit
<1>4. ASSUME AgentStep
      PROVE  Staged
  BY <1>2, <1>3, <1>4, EmitReviewStaged DEF AgentStep
<1>5. ~AgentFault
  BY DEF Unforced, AgentFault, UnrequestedReview, OpenReviewRequest
<1>6. ASSUME \/ AutoSkipExpiredNudges
             \/ \E i \in DOMAIN iters, submit \in BOOLEAN : PostNudge(i, submit)
      PROVE  Staged
  <2>1. UNCHANGED <<session, rounds, reviews>>
    BY <1>6 DEF AutoSkipExpiredNudges, PostNudge
  <2>2. /\ Len(iters') = Len(iters)
        /\ \A i \in DOMAIN iters : Opened(iters[i], iters'[i])
    BY <1>6, AutoSkipOpens, PostNudgeOpens DEF StageInv, ApprovalInv
  <2> QED
    BY <1>1, <2>1, <2>2, OpenedStaged
<1>7. ASSUME OperatorOverride
      PROVE  Staged
  <2>1. PostAbort \/ ResolveAbort \/ \E a \in AllWorkers : SkipAgent(a)
    BY <1>7 DEF Unforced, OperatorOverride, RetryIteration, ForceConvergeRound1,
                ProceedToArbitrator
  <2>2. ASSUME NEW a, SkipAgent(a)
        PROVE  Staged
    BY <2>2 DEF SkipAgent, StageInv, Staged
  <2> QED
    BY <1>1, <2>1, <2>2, PostAbortStaged, ResolveAbortStaged
<1> QED
  BY <1>4, <1>5, <1>6, <1>7, StartSessionStaged DEF Next, OperatorRoutine

\* Only a skip changes who is expected to review.
LEMMA SkippedStays ==
    ASSUME Next, NobodySkipped
    PROVE  skipped' = skipped
<1>1. ~ \E a \in AllWorkers : SkipAgent(a)
  BY DEF SkipAgent, NobodySkipped
<1> QED
  BY <1>1 DEF Next, AgentStep, EmitResponse, RespondInRound1, RespondInRound2, EmitReview,
         ExecutorEmit, ExecutorSucceeds, ExecutorFails, AutoSkipExpiredNudges,
         OperatorRoutine, StartSession, PostNudge, AgentFault, RespondWithWrongTool,
         OperatorOverride, RetryIteration, PostAbort, ResolveAbort, ForceConvergeRound1,
         ProceedToArbitrator

LEMMA InitStages == Init => StageInv
<1> SUFFICES ASSUME Init
             PROVE  StageInv
  OBVIOUS
<1>1. ApprovalInv /\ SoundInv
  BY InitApproval, InitSound
<1>2. /\ session = "none" /\ rounds = <<>> /\ iters = <<>> /\ skipped = {}
      /\ DOMAIN rounds = {} /\ DOMAIN iters = {}
  BY DEF Init
<1>3. Orderly(rounds, iters)
  BY <1>2 DEF Orderly, CompleteAnswered, OnScript, Relay, Agreed, Covered, Arbitrated, Lively,
              PairsApart, Synthesized, Settled
<1>4. Stages(session, rounds, reviews)
  BY <1>2 DEF Stages, Announced, Awaited
<1> QED
  BY <1>1, <1>2, <1>3, <1>4 DEF StageInv, SoundInv

\* The parts of Orderly and Stages in the next state.
LEMMA StagedIsNext ==
    ASSUME Staged
    PROVE  /\ Orderly(rounds, iters)'
           /\ Stages(session, rounds, reviews)'
<1>1. CompleteAnswered(iters)' /\ OnScript(iters)'
  BY DEF Staged, Orderly, CompleteAnswered, OnScript
<1>2. Relay(rounds, iters)'
  BY DEF Staged, Orderly, Relay, Relayed, IterationsOf
<1>3. Agreed(rounds, iters)'
  BY DEF Staged, Orderly, Agreed, Agrees, IsConverged, LatestSimilarity, LatestAnswered,
         PreviousAnswered, Answered, IterationsOf
<1>4. (EveryHostPaired => Covered(rounds) /\ Arbitrated(rounds, iters))'
  BY DEF Staged, Orderly, EveryHostPaired, Covered, Arbitrated, Backed, PairRoundsOn,
         RoundsOfType
<1>5. Lively(rounds, iters)' /\ PairsApart(rounds)'
  BY DEF Staged, Orderly, Lively, PairsApart, Active, IterationsOf
<1>6. Synthesized(rounds, iters)'
  BY DEF Staged, Orderly, Synthesized, Active, IterationsOf, Round2Outcome, RoundsOfType
<1>7. Settled(rounds, iters)'
  BY DEF Staged, Orderly, Settled, AllConverged, Active, IterationsOf
<1>8. Orderly(rounds, iters)'
  BY <1>1, <1>2, <1>3, <1>4, <1>5, <1>6, <1>7 DEF Orderly
<1>9. Stages(session, rounds, reviews)'
  BY DEF Staged, Stages, Announced, Awaited, EveryHostPaired, NobodySkipped, ReviewersOf
<1> QED
  BY <1>8, <1>9

LEMMA NextStages ==
    ASSUME Unforced, StageInv, [Next]_vars
    PROVE  StageInv'
<1>1. ApprovalInv'
  BY NextApproval DEF StageInv
<1>2. Sound(rounds, iters)'
  BY NextSound DEF StageInv, SoundInv, ApprovalInv
<1>3. Staged
  <2>1. CASE Next
    BY <2>1, NextStaged
  <2>2. CASE UNCHANGED vars
    BY <2>2 DEF vars, StageInv, Staged
  <2> QED
    BY <2>1, <2>2
<1>4. (NobodySkipped => skipped = {})'
  <2>1. NobodySkipped => skipped' = skipped
    BY SkippedStays DEF vars
  <2> QED
    BY <2>1 DEF StageInv, NobodySkipped
<1> QED
  BY <1>1, <1>2, <1>3, <1>4, StagedIsNext DEF StageInv

LEMMA SpecStages ==
    ASSUME Unforced
    PROVE  Spec => []StageInv
BY InitStages, NextStages, PTL DEF Spec

-----------------------------------------------------------------------------
(***************************************************************************)
(* The theorems.                                                           *)
(***************************************************************************)
\* Whatever is nudged, skipped or aborted, and when: every request of a pair but
\* the last is answered, the next one hands exactly that answer to the other
\* worker of the host, and no pair is asked more than MAX_ITERS_PER_ROUND_1 times.
THEOREM RelayIsUnbroken ==
    ASSUME Unforced
    PROVE  Spec => []RelayUnbroken
<1>1. ASSUME StageInv
      PROVE  RelayUnbroken
  <2> SUFFICES ASSUME NEW i \in DOMAIN iters, NEW j \in DOMAIN iters,
                      iters[i].round = iters[j].round,
                      rounds[iters[i].round].type = "same_host_pair",
                      iters[j].num = iters[i].num + 1
               PROVE  /\ iters[i].status = "complete"
                      /\ iters[j].src = iters[i].dst
                      /\ iters[j].dst # iters[i].dst
                      /\ iters[j].input = Draft(iters[i].output)
                      /\ iters[j].num <= MAX_ITERS_PER_ROUND_1
    BY DEF RelayUnbroken, IsType
  <2>1. /\ Tables(rounds, iters) /\ Sound(rounds, iters)
        /\ Relayed(rounds, iters, j)
    BY <1>1, StageTables DEF Orderly, Relay
  <2>2. i \in Nat /\ j \in Nat /\ iters[i].num \in Nat
    <3>1. /\ iters \in Seq(Iteration) /\ DOMAIN iters = 1..Len(iters) /\ Len(iters) \in Nat
          /\ iters[i] \in Iteration
      BY <2>1 DEF Tables
    <3>2. iters[i].num \in Nat
      BY <3>1 DEF Iteration
    <3> QED
      BY <3>1, <3>2
  <2>3. i < j
    <3>1. CASE j < i
      <4>1. iters[j].num < iters[i].num
        BY <2>1, <3>1, NumbersRise
      <4> QED
        BY <2>2, <4>1
    <3>2. CASE i = j
      BY <2>2, <3>2
    <3> QED
      BY <2>2, <3>1, <3>2
  <2>4. i \in IterationsOf(iters, iters[j].round)
    BY DEF IterationsOf
  <2> QED
    BY <2>1, <2>3, <2>4 DEF Relayed
<1> QED
  BY <1>1, SpecStages, PTL

\* Where every worker host has its pair, the arbitrator compares what the pairs
\* agreed on: for every host the outcome of a round of its own before, with the
\* last two answers alike and the later one reporting convergence.
THEOREM ArbitratorGetsAgreements ==
    ASSUME Unforced, EveryHostPaired
    PROVE  Spec => []ArbitratesConvergedOutcomes
<1>1. ASSUME StageInv
      PROVE  ArbitratesConvergedOutcomes
  <2> SUFFICES ASSUME NEW i \in DOMAIN iters, iters[i].input.kind = "arbitrate",
                      NEW h \in Hosts
               PROVE  \E r \in PairRoundsOn(rounds, h) :
                          /\ r < iters[i].round
                          /\ rounds[r].status = "converged"
                          /\ rounds[r].outcome = iters[i].input.outcomes[h]
                          /\ IsConverged(iters, r)
                          /\ iters[LatestAnswered(iters, r)].output = rounds[r].outcome
    BY DEF ArbitratesConvergedOutcomes
  <2>1. Agreed(rounds, iters) /\ Arbitrated(rounds, iters)
    BY <1>1, StageTables DEF Orderly
  <2>2. PICK r \in DOMAIN rounds :
            /\ rounds[r].type = "same_host_pair" /\ rounds[r].host = h
            /\ r < iters[i].round
            /\ rounds[r].status = "converged" /\ rounds[r].outcome = iters[i].input.outcomes[h]
    BY <2>1 DEF Arbitrated, Backed
  <2>3. r \in PairRoundsOn(rounds, h)
    BY <2>2 DEF PairRoundsOn, RoundsOfType
  <2>4. Agrees(rounds, iters, r)
    BY <2>1, <2>2 DEF Agreed
  <2> QED
    BY <2>2, <2>3, <2>4 DEF Agrees
<1> QED
  BY <1>1, SpecStages, PTL

\* Where every worker host has its pair, one stage is under way at a time: the
\* rounds in progress are those the session status announces, one per host in
\* round 1 and one in the session afterwards.
THEOREM StagesAreSeparate ==
    ASSUME Unforced, EveryHostPaired
    PROVE  Spec => []OneStage
<1>1. ASSUME StageInv
      PROVE  OneStage
  <2>1. /\ Lively(rounds, iters) /\ PairsApart(rounds) /\ OneTrack(rounds, iters)
        /\ Announced(session, rounds)
    BY <1>1, StageTables DEF StageInv, Stages, Orderly, Track
  <2>2. ASSUME NEW q \in InProgress, NEW r \in InProgress
        PROVE  /\ rounds[q].type = rounds[r].type
               /\ q # r => rounds[q].host # rounds[r].host
    <3>1. /\ q \in DOMAIN rounds /\ r \in DOMAIN rounds
          /\ rounds[q].status = "in_progress" /\ rounds[r].status = "in_progress"
      BY DEF InProgress
    <3>2. Active(rounds, iters, q) /\ Active(rounds, iters, r)
      BY <2>1, <3>1 DEF Lively
    <3>3. \/ q = r
          \/ rounds[q].type = "same_host_pair" /\ rounds[r].type = "same_host_pair"
      BY <2>1, <3>1, <3>2 DEF OneTrack
    <3> QED
      BY <2>1, <3>1, <3>3 DEF PairsApart
  <2>3. session \in DOMAIN StageType => \A r \in InProgress : rounds[r].type \in StageType[session]
    BY <2>1 DEF Announced, InProgress
  <2> QED
    BY <2>2, <2>3 DEF OneStage
<1> QED
  BY <1>1, SpecStages, PTL

\* Where every worker host has its pair and no reviewer is skipped, a running
\* session always waits for somebody: no answer, review or restart leaves it
\* without an open request or a review that is still to come.
THEOREM SomebodyIsAlwaysAsked ==
    ASSUME Unforced, EveryHostPaired, NobodySkipped
    PROVE  Spec => []SomebodyIsAsked
<1>1. ASSUME StageInv
      PROVE  SomebodyIsAsked
  <2> SUFFICES ASSUME session \in {"round_1", "round_2", "round_3", "executing"}
               PROVE  \E r \in InProgress :
                          \/ /\ ~IsType(r, "multi_agent_review")
                             /\ \E i \in IterationsOf(iters, r) : Open(i)
                          \/ /\ IsType(r, "multi_agent_review")
                             /\ ~(ExpectedReviewers \subseteq ReviewersOf(reviews, r))
    BY DEF SomebodyIsAsked
  <2>1. /\ Lively(rounds, iters) /\ OnScript(iters) /\ Tables(rounds, iters)
        /\ Awaited(session, rounds, reviews) /\ ExpectedReviewers = AllWorkers
    BY <1>1, StageTables DEF StageInv, Stages, Orderly, ExpectedReviewers
  <2>2. PICK r \in DOMAIN rounds : rounds[r].status = "in_progress"
    BY <2>1 DEF Awaited
  <2>3. CASE rounds[r].type = "multi_agent_review"
    BY <2>1, <2>2, <2>3 DEF Awaited, InProgress, IsType
  <2>4. CASE rounds[r].type # "multi_agent_review"
    <3>1. PICK i \in IterationsOf(iters, r) : iters[i].status # "complete"
      BY <2>1, <2>2, <2>4 DEF Lively, Active
    <3>2. i \in DOMAIN iters /\ iters[i] \in Iteration
      BY <2>1, <3>1 DEF IterationsOf, Tables
    <3>3. Open(i)
      BY <2>1, <3>1, <3>2 DEF Open, OnScript, Iteration, IterationStatuses
    <3> QED
      BY <2>2, <2>4, <3>1, <3>3 DEF InProgress, IsType
  <2> QED
    BY <2>3, <2>4
<1> QED
  BY <1>1, SpecStages, PTL

-----------------------------------------------------------------------------
(***************************************************************************)
(* The session flow.  Where every host has its two workers, the operator   *)
(* only opens and nudges and the agents follow their inbox, each step of   *)
(* module Delphi is a step of SessionFlow or leaves what it speaks of      *)
(* alone.                                                                  *)
(***************************************************************************)
\* The operator opens the session and nudges, the agents follow their inbox.
Routine ==
    /\ OperatorActions \subseteq {"nudge"}
    /\ AgentFaults = {}

LEMMA RoutineIsUnforced ==
    ASSUME Routine
    PROVE  Unforced /\ NobodySkipped
BY DEF Routine, Unforced, NobodySkipped

-----------------------------------------------------------------------------
(***************************************************************************)
(* The invariant.                                                          *)
(***************************************************************************)
\* Without an abort, what still can move the session on is in progress.
Running(rs, t) == \A r \in DOMAIN rs : Active(rs, t, r) => rs[r].status = "in_progress"

\* The review that is open is the latest.
Newest(rs) ==
    \A q, r \in DOMAIN rs :
        /\ rs[q].type = "multi_agent_review" /\ rs[r].type = "multi_agent_review"
        /\ rs[r].status = "in_progress"
        => q <= r

\* While pairs iterate in a session that is escalated, one of them was given up:
\* the others cannot move it on.
GivenUp(s, rs) ==
    s = "escalated" /\ (\E r \in DOMAIN rs : rs[r].status = "in_progress") =>
        \E q \in DOMAIN rs : /\ rs[q].type = "same_host_pair"
                             /\ rs[q].status \notin {"converged", "in_progress"}

\* Every arbitration but the last was turned down.
Counted(s, rs, vs) ==
    LET arbitrations == Cardinality(RoundsOfType(rs, "cross_host_arbitration"))
        turndowns == Cardinality(Turndowns(rs, vs))
    IN  /\ s \in {"none", "round_1"} => arbitrations = turndowns
        /\ s \in {"round_2", "round_3"} => arbitrations = turndowns + 1

Phases == {"none"} \cup DOMAIN StageType

FlowInv ==
    /\ StageInv
    /\ session \in Phases
    /\ Running(rounds, iters)
    /\ Newest(rounds)
    /\ GivenUp(session, rounds)
    /\ Counted(session, rounds, reviews)
    /\ finalized # None => session = "complete"
    /\ \A v \in reviews : v.reviewer \in AllWorkers

\* What a step makes of it.
Flowing ==
    /\ session' \in Phases
    /\ Running(rounds', iters')
    /\ Newest(rounds')
    /\ GivenUp(session', rounds')
    /\ Counted(session', rounds', reviews')
    /\ finalized' # None => session' = "complete"
    /\ \A v \in reviews' : v.reviewer \in AllWorkers

\* A step of the session flow, or none.
Follows == Flow!FlowNext \/ UNCHANGED Flow!flow

\* The part of the operator's run that the theorems are about.
LEMMA FlowTables ==
    ASSUME FlowInv
    PROVE  /\ StageInv /\ ApprovalInv
           /\ Orderly(rounds, iters) /\ Tables(rounds, iters) /\ Track(rounds, iters)
           /\ Len(rounds) \in Nat /\ DOMAIN rounds = 1..Len(rounds)
           /\ reviews \in SUBSET Review /\ \A v \in reviews : v.round \in DOMAIN rounds
           /\ session \in SessionStatuses
BY StageTables DEF FlowInv

\* What is active is in progress and is what the session status announces.
LEMMA ActiveIsAnnounced ==
    ASSUME FlowInv, EveryHostPaired, NEW r \in DOMAIN rounds, Active(rounds, iters, r)
    PROVE  /\ rounds[r].status = "in_progress"
           /\ session \in DOMAIN StageType
           /\ rounds[r].type \in StageType[session]
<1>1. rounds[r].status = "in_progress"
  BY DEF FlowInv, Running
<1>2. session # "none"
  <2>1. rounds # <<>>
    OBVIOUS
  <2> QED
    BY <2>1, FlowTables DEF ApprovalInv
<1>3. session \in DOMAIN StageType
  BY <1>2 DEF FlowInv, Phases
<1>4. Announced(session, rounds)
  BY DEF FlowInv, StageInv, Stages
<1> QED
  BY <1>1, <1>3, <1>4 DEF Announced

-----------------------------------------------------------------------------
(***************************************************************************)
(* The mapping.                                                            *)
(***************************************************************************)
LEMMA MappingInTheNextState ==
    /\ OnTheTable(session, rounds)' = OnTheTable(session', rounds')
    /\ VotesCast(session, rounds, reviews)' = VotesCast(session', rounds', reviews')
    /\ Cardinality(Turndowns(rounds, reviews))' = Cardinality(Turndowns(rounds', reviews'))
<1>1. OnTheTable(session, rounds)' = OnTheTable(session', rounds')
  BY DEF OnTheTable, Round2Outcome, RoundsOfType, Latest
<1>2. VotesCast(session, rounds, reviews)' = VotesCast(session', rounds', reviews')
  BY DEF VotesCast, VoteOf, ReviewersOf, RejectersOf, RoundsOfType, Latest
<1>3. Cardinality(Turndowns(rounds, reviews))' = Cardinality(Turndowns(rounds', reviews'))
  BY DEF Turndowns, RoundsOfType, RejectersOf, Cardinality
<1> QED
  BY <1>1, <1>2, <1>3

\* Before the review there is nothing on the table.
LEMMA EarlyStepFollows ==
    ASSUME session \in {"none", "round_1", "round_2", "escalated"},
           session' \in {"none", "round_1", "round_2", "escalated"},
           \/ session' = session
           \/ session = "none" /\ session' = "round_1"
           \/ session = "round_1" /\ session' \in {"round_2", "escalated"},
           Turndowns(rounds', reviews') = Turndowns(rounds, reviews),
           finalized' = finalized
    PROVE  Follows
<1>1. /\ OnTheTable(session, rounds) = None /\ OnTheTable(session', rounds') = None
      /\ VotesCast(session', rounds', reviews') = VotesCast(session, rounds, reviews)
  BY DEF OnTheTable, VotesCast
<1>2. UNCHANGED <<OnTheTable(session, rounds), VotesCast(session, rounds, reviews),
                  Cardinality(Turndowns(rounds, reviews)), finalized>>
  BY <1>1, MappingInTheNextState
<1>3. CASE session' = session
  BY <1>2, <1>3 DEF Follows, Flow!flow
<1>4. CASE session = "none" /\ session' = "round_1"
  BY <1>2, <1>4 DEF Follows, Flow!FlowNext, Flow!Opens
<1>5. CASE session = "round_1" /\ session' = "round_2"
  BY <1>2, <1>5 DEF Follows, Flow!FlowNext, Flow!PairsAgree
<1>6. CASE session = "round_1" /\ session' = "escalated"
  BY <1>2, <1>6 DEF Follows, Flow!FlowNext, Flow!PairsFail
<1> QED
  BY <1>3, <1>4, <1>5, <1>6

\* Rounds that are not reviews do not turn anything down, nor do new ones.
LEMMA TurndownsStay ==
    ASSUME NEW rs, NEW t, Tables(rs, t), NEW rs2, NEW t2, Tables(rs2, t2),
           Len(rs) <= Len(rs2),
           \A r \in DOMAIN rs :
               /\ rs2[r].type = rs[r].type
               /\ rs[r].type = "multi_agent_review" => rs2[r].status = rs[r].status,
           \A r \in DOMAIN rs2 : r > Len(rs) => rs2[r].status = "in_progress",
           NEW vs
    PROVE  Turndowns(rs2, vs) = Turndowns(rs, vs)
<1>1. /\ Len(rs) \in Nat /\ Len(rs2) \in Nat
      /\ DOMAIN rs = 1..Len(rs) /\ DOMAIN rs2 = 1..Len(rs2)
  BY DEF Tables
<1>2. \A r \in DOMAIN rs2 : r \in DOMAIN rs \/ r > Len(rs)
  BY <1>1
<1>3. DOMAIN rs \subseteq DOMAIN rs2
  BY <1>1
<1> QED
  BY <1>2, <1>3 DEF Turndowns, RoundsOfType

LEMMA ArbitrationsStay ==
    ASSUME NEW rs, NEW t, Tables(rs, t), NEW rs2, NEW t2, Tables(rs2, t2),
           Len(rs) <= Len(rs2),
           \A r \in DOMAIN rs : rs2[r].type = rs[r].type,
           \A r \in DOMAIN rs2 : r > Len(rs) => rs2[r].type # "cross_host_arbitration"
    PROVE  RoundsOfType(rs2, "cross_host_arbitration") =
               RoundsOfType(rs, "cross_host_arbitration")
<1>1. /\ Len(rs) \in Nat /\ Len(rs2) \in Nat
      /\ DOMAIN rs = 1..Len(rs) /\ DOMAIN rs2 = 1..Len(rs2)
  BY DEF Tables
<1>2. \A r \in DOMAIN rs2 : r \in DOMAIN rs \/ r > Len(rs)
  BY <1>1
<1>3. DOMAIN rs \subseteq DOMAIN rs2
  BY <1>1
<1> QED
  BY <1>2, <1>3 DEF RoundsOfType

LEMMA OneMoreArbitration ==
    ASSUME NEW rs, NEW t, Tables(rs, t),
           rounds' = Append(rs, NewRound("cross_host_arbitration", None))
    PROVE  Cardinality(RoundsOfType(rounds', "cross_host_arbitration")) =
               Cardinality(RoundsOfType(rs, "cross_host_arbitration")) + 1
<1> DEFINE S == RoundsOfType(rs, "cross_host_arbitration")
           rd == NewRound("cross_host_arbitration", None)
<1>1. rs \in Seq(Round) /\ Len(rs) \in Nat /\ DOMAIN rs = 1..Len(rs)
  BY DEF Tables
<1>2. rd.type = "cross_host_arbitration"
  BY DEF NewRound
<1> HIDE DEF rd
<1>3. /\ DOMAIN rounds' = 1..(Len(rs) + 1) /\ rounds'[Len(rs) + 1] = rd
      /\ \A r \in 1..Len(rs) : rounds'[r] = rs[r]
  BY <1>1 DEF rd
<1>4. RoundsOfType(rounds', "cross_host_arbitration") = S \cup {Len(rs) + 1}
  BY <1>1, <1>2, <1>3 DEF RoundsOfType
<1>5. S \in SUBSET (1..Len(rs)) /\ Len(rs) + 1 \notin S
  BY <1>1 DEF RoundsOfType
<1>6. IsFiniteSet(S)
  BY <1>1, <1>5, SubsetOfInterval
<1> HIDE DEF S
<1>7. Cardinality(S \cup {Len(rs) + 1}) = Cardinality(S) + 1
  BY <1>5, <1>6, FS_AddElement
<1> QED
  BY <1>4, <1>7 DEF S

-----------------------------------------------------------------------------
(***************************************************************************)
(* The tables.                                                             *)
(***************************************************************************)
\* Rows that are rewritten keep running, if those that are active are not.
LEMMA MovedRuns ==
    ASSUME FlowInv, NEW rs, NEW t, Tables(rs, t), Moved(rounds, iters, rs, t),
           \A r \in DOMAIN rounds : Active(rs, t, r) => rs[r] = rounds[r]
    PROVE  Running(rs, t) /\ Newest(rs)
<1>1. /\ Tables(rounds, iters)
      /\ DOMAIN rs = DOMAIN rounds
  BY FlowTables DEF Moved, Tables
<1>2. ASSUME NEW r \in DOMAIN rounds, Active(rs, t, r)
      PROVE  rs[r].status = "in_progress"
  <2>1. Active(rounds, iters, r)
    BY <1>1, <1>2, MovedIsLessActive
  <2> QED
    BY <1>2, <2>1 DEF FlowInv, Running
<1>3. Newest(rs)
  BY <1>1 DEF FlowInv, Newest, Moved
<1> QED
  BY <1>1, <1>2, <1>3 DEF Running

\* What is spawned from quiet tables is in progress, and a review is the latest.
LEMMA SpawnedRuns ==
    ASSUME NEW rs, NEW t, Tables(rs, t), Quiet(rs, t), Orderly(rs, t),
           NEW type, NEW input, Spawned(rs, t, type, input),
           type = "multi_agent_review" => Len(rounds') = Len(rs) + 1
    PROVE  Running(rounds', iters') /\ Newest(rounds')
<1>1. /\ Len(rs) \in Nat /\ rs \in Seq(Round)
      /\ Len(rounds') \in Nat /\ rounds' \in Seq(Round)
  BY DEF Spawned, Tables
<1>2. /\ Len(t) \in Nat /\ Len(iters') \in Nat
      /\ DOMAIN t = 1..Len(t) /\ DOMAIN iters' = 1..Len(iters')
  BY DEF Spawned, Tables
<1>3. \A r \in DOMAIN rounds' : r \in DOMAIN rs \/ r > Len(rs)
  BY <1>1
<1>4. \A i \in DOMAIN iters' : i \in DOMAIN t \/ i > Len(t)
  BY <1>2
<1>5. \A r \in DOMAIN rs : ~(r > Len(rs))
  BY <1>1
<1>6. ASSUME NEW r \in DOMAIN rs, Active(rounds', iters', r)
      PROVE  FALSE
  <2>1. \A i \in IterationsOf(iters', r) : i \in IterationsOf(t, r) /\ iters'[i] = t[i]
    BY <1>4, <1>5 DEF IterationsOf, Spawned, Extends
  <2>2. Active(rs, t, r)
    BY <1>6, <2>1 DEF Active, Spawned
  <2> QED
    BY <2>2 DEF Quiet
<1>7. Running(rounds', iters')
  BY <1>3, <1>6 DEF Running, Spawned
<1>8. \A r \in DOMAIN rounds' : rounds'[r].status = "in_progress" =>
          r > Len(rs) /\ rounds'[r].type = type
  BY SpawnedAlone
<1>9. Newest(rounds')
  <2> SUFFICES ASSUME NEW q \in DOMAIN rounds', NEW r \in DOMAIN rounds',
                      rounds'[r].type = "multi_agent_review",
                      rounds'[r].status = "in_progress"
               PROVE  q <= r
    BY DEF Newest
  <2>1. r > Len(rs) /\ Len(rounds') = Len(rs) + 1
    BY <1>8
  <2>2. q \in 1..Len(rounds') /\ r \in 1..Len(rounds')
    BY <1>1
  <2> QED
    BY <1>1, <2>1, <2>2
<1> QED
  BY <1>7, <1>9

-----------------------------------------------------------------------------
(***************************************************************************)
(* The pairs.                                                              *)
(***************************************************************************)
\* While a pair is active no review is: the votes and turn-downs are settled.
LEMMA PairStepKeepsTurndowns ==
    ASSUME NEW rs, NEW t, Tables(rs, t), Tables(rounds, iters), Moved(rounds, iters, rs, t),
           NEW r \in DOMAIN rounds, rounds[r].type # "multi_agent_review",
           \A q \in DOMAIN rounds : q # r => rs[q] = rounds[q]
    PROVE  /\ \A vs : Turndowns(rs, vs) = Turndowns(rounds, vs)
           /\ RoundsOfType(rs, "cross_host_arbitration") =
                  RoundsOfType(rounds, "cross_host_arbitration")
<1>1. /\ Len(rounds) \in Nat /\ DOMAIN rounds = 1..Len(rounds) /\ DOMAIN rs = DOMAIN rounds
      /\ Len(rs) = Len(rounds)
      /\ \A q \in DOMAIN rs : ~(q > Len(rounds))
      /\ \A q \in DOMAIN rounds : rs[q].type = rounds[q].type
  BY DEF Moved, Tables
<1>2. \A vs : Turndowns(rs, vs) = Turndowns(rounds, vs)
  BY <1>1, TurndownsStay
<1>3. RoundsOfType(rs, "cross_host_arbitration") = RoundsOfType(rounds, "cross_host_arbitration")
  BY <1>1 DEF RoundsOfType
<1> QED
  BY <1>2, <1>3

\* A session whose pairs have all converged was not escalated.
LEMMA ConvergedWasNotGivenUp ==
    ASSUME FlowInv, EveryHostPaired, NEW r \in DOMAIN rounds, Active(rounds, iters, r),
           rounds[r].type = "same_host_pair",
           NEW rs, DOMAIN rs = DOMAIN rounds, AllConverged(rs),
           \A q \in DOMAIN rounds : q # r => rs[q] = rounds[q]
    PROVE  session = "round_1"
<1>1. rounds[r].status = "in_progress" /\ session \in {"round_1", "escalated"}
  BY ActiveIsAnnounced DEF StageType
<1>2. ASSUME session = "escalated"
      PROVE  FALSE
  <2>1. PICK q \in DOMAIN rounds : rounds[q].type = "same_host_pair"
                                   /\ rounds[q].status \notin {"converged", "in_progress"}
    BY <1>1, <1>2 DEF FlowInv, GivenUp
  <2>2. q # r /\ rs[q] = rounds[q]
    BY <1>1, <2>1
  <2> QED
    BY <2>1, <2>2 DEF AllConverged
<1> QED
  BY <1>1, <1>2

LEMMA MaybeAdvanceFlows ==
    ASSUME FlowInv, EveryHostPaired, NEW r \in DOMAIN rounds, Active(rounds, iters, r),
           rounds[r].type = "same_host_pair",
           NEW rs, NEW t, NEW outcome, ClosedPair(rs, t, r, "converged", outcome),
           Orderly(rs, t), MaybeAdvanceToRound2(rs, t), UNCHANGED <<reviews, finalized>>
    PROVE  Flowing /\ Follows
<1> DEFINE input == ArbitratorInput(RoundOutcomesPerHost(rs))
<1>1. /\ Tables(rounds, iters) /\ Track(rounds, iters)
      /\ Tables(rs, t) /\ Moved(rounds, iters, rs, t) /\ DOMAIN rs = DOMAIN rounds
      /\ \A q \in DOMAIN rounds : q # r => rs[q] = rounds[q]
      /\ \A q \in DOMAIN rs : Active(rs, t, q) =>
             q # r /\ rs[q].type = "same_host_pair" /\ rs[q].status # "converged"
      /\ finalized # None => session = "complete"
      /\ \A v \in reviews : v.reviewer \in AllWorkers
  BY FlowTables DEF ClosedPair, Moved, Tables, FlowInv
<1>2. rounds[r].status = "in_progress" /\ session \in {"round_1", "escalated"}
  BY ActiveIsAnnounced DEF StageType
<1>3. /\ \A vs : Turndowns(rs, vs) = Turndowns(rounds, vs)
      /\ RoundsOfType(rs, "cross_host_arbitration") =
             RoundsOfType(rounds, "cross_host_arbitration")
  BY <1>1, PairStepKeepsTurndowns
<1>4. Running(rs, t) /\ Newest(rs)
  BY <1>1, MovedRuns
<1>5. \A q \in DOMAIN rs : rs[q].status = "in_progress" => rs[q].type = "same_host_pair"
  BY <1>1, PairsAreAnnounced
<1>6. \/ /\ ~AllConverged(rs)
         /\ rounds' = rs /\ iters' = t /\ session' = session
      \/ /\ AllConverged(rs)
         /\ rounds' = rs /\ iters' = t /\ session' = "escalated"
      \/ /\ AllConverged(rs)
         /\ SpawnRound2(rs, t, input)
  BY DEF MaybeAdvanceToRound2, AllConverged, RoundsOfType
<1>7. input \in Inputs
  BY <1>1, OutcomesAreInput DEF Tables, ArbitratorInput
<1> HIDE DEF input
<1>8. ASSUME ~AllConverged(rs), rounds' = rs, iters' = t, session' = session
      PROVE  Flowing /\ Follows
  <2>1. GivenUp(session, rs)
    <3> SUFFICES ASSUME session = "escalated"
                 PROVE  \E q \in DOMAIN rs : /\ rs[q].type = "same_host_pair"
                                             /\ rs[q].status \notin {"converged", "in_progress"}
      BY DEF GivenUp
    <3>1. PICK q \in DOMAIN rounds : /\ rounds[q].type = "same_host_pair"
                                     /\ rounds[q].status \notin {"converged", "in_progress"}
      BY <1>2 DEF FlowInv, GivenUp
    <3>2. q # r /\ rs[q] = rounds[q]
      BY <1>1, <1>2, <3>1
    <3> QED
      BY <1>1, <3>1, <3>2
  <2>2. Counted(session, rs, reviews)
    BY <1>3 DEF FlowInv, Counted
  <2>3. Flowing
    BY <1>1, <1>4, <1>8, <2>1, <2>2 DEF Flowing, FlowInv
  <2>4. Follows
    BY <1>2, <1>3, <1>8, EarlyStepFollows
  <2> QED
    BY <2>3, <2>4
<1>9. ASSUME AllConverged(rs), rounds' = rs, iters' = t, session' = "escalated"
      PROVE  Flowing /\ Follows
  <2>1. session = "round_1"
    BY <1>1, <1>9, ConvergedWasNotGivenUp
  <2>2. GivenUp("escalated", rs)
    BY <1>5, <1>9 DEF GivenUp, AllConverged
  <2>3. Counted("escalated", rs, reviews)
    BY DEF Counted
  <2>4. "escalated" \in Phases
    BY DEF Phases, StageType
  <2>5. Flowing
    BY <1>1, <1>4, <1>9, <2>1, <2>2, <2>3, <2>4 DEF Flowing
  <2>6. Follows
    BY <1>3, <1>9, <2>1, EarlyStepFollows
  <2> QED
    BY <2>5, <2>6
<1>10. ASSUME AllConverged(rs), SpawnRound2(rs, t, input)
       PROVE  Flowing /\ Follows
  <2>1. session = "round_1" /\ Counted("round_1", rounds, reviews)
    BY <1>1, <1>10, ConvergedWasNotGivenUp DEF FlowInv
  <2>2. Quiet(rs, t)
    BY <1>1, <1>10 DEF Quiet, AllConverged
  <2>3. Spawned(rs, t, "cross_host_arbitration", input)
    BY <1>1, <1>7, <1>10, <2>2, SpawnRound2OnTrack
  <2>4. session' = "round_2" /\ rounds' = Append(rs, NewRound("cross_host_arbitration", None))
    BY <1>10 DEF SpawnRound2
  <2>5. Running(rounds', iters') /\ Newest(rounds')
    BY <1>1, <2>2, <2>3, SpawnedRuns
  <2>6. Turndowns(rounds', reviews) = Turndowns(rounds, reviews)
    <3>1. Turndowns(rounds', reviews) = Turndowns(rs, reviews)
      BY <1>1, <2>3, TurndownsStay DEF Spawned
    <3> QED
      BY <1>3, <3>1
  <2>7. Counted("round_2", rounds', reviews)
    <3>1. Cardinality(RoundsOfType(rounds', "cross_host_arbitration")) =
              Cardinality(RoundsOfType(rounds, "cross_host_arbitration")) + 1
      BY <1>1, <1>3, <2>4, OneMoreArbitration
    <3> QED
      BY <2>1, <2>6, <3>1 DEF Counted
  <2>8. "round_2" \in Phases /\ GivenUp("round_2", rounds')
    BY DEF Phases, StageType, GivenUp
  <2>9. Flowing
    BY <1>1, <2>1, <2>4, <2>5, <2>7, <2>8 DEF Flowing
  <2>10. Follows
    BY <2>1, <2>4, <2>6, EarlyStepFollows
  <2> QED
    BY <2>9, <2>10
<1> QED
  BY <1>6, <1>8, <1>9, <1>10

LEMMA RespondInRound1Flows ==
    ASSUME FlowInv, EveryHostPaired,
           NEW i, NEW output, NEW assess \in {"converged", "more_work_needed"},
           RespondInRound1(i, output, assess), Tables(rounds', iters')
    PROVE  Flowing /\ Follows
<1> DEFINE t == Respond(iters, i, output, assess)
           r == iters[i].round
           l == LatestAnswered(t, r)
<1>1. /\ StageInv /\ ApprovalInv /\ Tables(rounds, iters)
      /\ finalized # None => session = "complete"
      /\ \A v \in reviews : v.reviewer \in AllWorkers
  BY FlowTables DEF FlowInv
<1>2. /\ r \in DOMAIN rounds
      /\ rounds[r].type = "same_host_pair"
      /\ Tables(rounds, t) /\ Answered(t, r) # {}
      /\ Active(rounds, iters, r)
      /\ Moved(rounds, iters, rounds, t)
      /\ AdvanceRound1(t, r)
      /\ UNCHANGED <<reviews, skipped, finalized>>
  BY <1>1, PairAnswered
<1>3. rounds[r].status = "in_progress" /\ session \in {"round_1", "escalated"}
  <2> HIDE DEF r
  <2> QED
    BY <1>2, ActiveIsAnnounced DEF StageType
<1>4. t[l].output \in Texts
  BY <1>2, LatestAnswerIsText DEF Tables
<1>5. ASSUME NEW status \in {"escalated", "converged"}, NEW outcome \in Texts \cup {None},
             status = "converged" => IsConverged(t, r) /\ outcome = t[l].output
      PROVE  /\ ClosedPair(UpdateRound(rounds, r, status, outcome), t, r, status, outcome)
             /\ Orderly(UpdateRound(rounds, r, status, outcome), t)
  <2> DEFINE rs == UpdateRound(rounds, r, status, outcome)
  <2>1. ClosedPair(rs, t, r, status, outcome)
    BY <1>1, PairClosed
  <2>2. status = "converged" => Agrees(rs, t, r)
    BY <1>4, <1>5, <2>1, RegistryAssumption DEF ClosedPair, Agrees
  <2> HIDE DEF rs
  <2>3. Orderly(rs, t)
    BY <1>1, <2>1, <2>2, ClosedPairIsOrderly
  <2> QED
    BY <2>1, <2>3 DEF rs
<1> HIDE DEF t, r, l
<1>6. ASSUME rounds' = UpdateRound(rounds, r, "escalated", None), iters' = t,
             session' = "escalated"
      PROVE  Flowing /\ Follows
  <2> DEFINE rs == UpdateRound(rounds, r, "escalated", None)
  <2>1. ClosedPair(rs, t, r, "escalated", None)
    BY <1>5
  <2> HIDE DEF rs
  <2>2. /\ Tables(rs, t) /\ Moved(rounds, iters, rs, t) /\ DOMAIN rs = DOMAIN rounds
        /\ rs[r].type = "same_host_pair" /\ rs[r].status = "escalated"
        /\ \A q \in DOMAIN rounds : q # r => rs[q] = rounds[q]
        /\ \A q \in DOMAIN rs : Active(rs, t, q) => q # r
    BY <1>1, <1>2, <2>1 DEF ClosedPair, Moved, Tables
  <2>3. Running(rs, t) /\ Newest(rs)
    BY <2>2, MovedRuns
  <2>4. GivenUp("escalated", rs) /\ Counted("escalated", rs, reviews)
    BY <1>2, <2>2 DEF GivenUp, Counted
  <2>5. "escalated" \in Phases
    BY DEF Phases, StageType
  <2>6. Flowing
    BY <1>1, <1>2, <1>3, <1>6, <2>3, <2>4, <2>5 DEF Flowing, rs
  <2>7. Turndowns(rs, reviews) = Turndowns(rounds, reviews)
    BY <1>1, <1>2, <2>2, PairStepKeepsTurndowns
  <2>8. Follows
    BY <1>2, <1>3, <1>6, <2>7, EarlyStepFollows DEF rs
  <2> QED
    BY <2>6, <2>8
<1>7. ASSUME IsConverged(t, r),
             MaybeAdvanceToRound2(UpdateRound(rounds, r, "converged", t[l].output), t)
      PROVE  Flowing /\ Follows
  <2> DEFINE rs == UpdateRound(rounds, r, "converged", t[l].output)
  <2>1. ClosedPair(rs, t, r, "converged", t[l].output) /\ Orderly(rs, t)
    BY <1>4, <1>5, <1>7
  <2>2. MaybeAdvanceToRound2(rs, t)
    BY <1>7
  <2> HIDE DEF rs
  <2> QED
    BY <1>2, <2>1, <2>2, MaybeAdvanceFlows
<1>8. ASSUME UNCHANGED <<session, rounds>>,
             iters' = SpawnIteration(t, r, t[l].dst,
                          OtherAgentOnHost(rounds[r].host, t[l].dst), Draft(t[l].output))
      PROVE  Flowing /\ Follows
  <2>1. PICK it : it.round = r /\ iters' = Append(t, it)
    BY <1>8 DEF SpawnIteration, NewIteration
  <2>2. \A q : q # r => /\ IterationsOf(iters', q) = IterationsOf(t, q)
                        /\ \A j \in IterationsOf(t, q) : iters'[j] = t[j]
    <3>1. t \in Seq(Iteration) /\ Len(t) \in Nat
      BY <1>2 DEF Tables
    <3>2. /\ DOMAIN t = 1..Len(t) /\ DOMAIN iters' = 1..(Len(t) + 1)
          /\ \A j \in DOMAIN t : iters'[j] = t[j]
          /\ iters'[Len(t) + 1] = it
      BY <2>1, <3>1
    <3> QED
      BY <2>1, <3>1, <3>2 DEF IterationsOf
  <2>3. ASSUME NEW q \in DOMAIN rounds, Active(rounds, iters', q)
        PROVE  rounds[q].status = "in_progress"
    <3>1. CASE q = r
      BY <1>3, <3>1
    <3>2. CASE q # r
      <4>1. Active(rounds, t, q)
        BY <2>2, <2>3, <3>2 DEF Active
      <4>2. Active(rounds, iters, q)
        BY <1>1, <1>2, <4>1, MovedIsLessActive
      <4> QED
        BY <4>2 DEF FlowInv, Running
    <3> QED
      BY <3>1, <3>2
  <2>4. Running(rounds, iters')
    BY <2>3 DEF Running
  <2>5. Flowing
    BY <1>2, <1>8, <2>4 DEF Flowing, FlowInv
  <2>6. Follows
    BY <1>2, <1>3, <1>8, EarlyStepFollows
  <2> QED
    BY <2>5, <2>6
<1> QED
  BY <1>2, <1>6, <1>7, <1>8 DEF AdvanceRound1, l

-----------------------------------------------------------------------------
(***************************************************************************)
(* The arbitrator.                                                         *)
(***************************************************************************)
LEMMA SpawnedKeepsCounts ==
    ASSUME NEW rs, NEW t, Tables(rs, t), NEW type, NEW input, Spawned(rs, t, type, input)
    PROVE  /\ \A vs : Turndowns(rounds', vs) = Turndowns(rs, vs)
           /\ type # "cross_host_arbitration" =>
                  /\ RoundsOfType(rounds', "cross_host_arbitration") =
                         RoundsOfType(rs, "cross_host_arbitration")
                  /\ Round2Outcome(rounds') = Round2Outcome(rs)
<1>1. /\ Tables(rounds', iters') /\ Len(rs) <= Len(rounds')
      /\ rs \in Seq(Round) /\ rounds' \in Seq(Round)
      /\ \A r \in DOMAIN rs : rounds'[r] = rs[r]
      /\ \A r \in DOMAIN rounds' : r > Len(rs) =>
             rounds'[r].type = type /\ rounds'[r].status = "in_progress"
  BY DEF Spawned, Tables
<1>2. \A vs : Turndowns(rounds', vs) = Turndowns(rs, vs)
  BY <1>1, TurndownsStay
<1>3. ASSUME type # "cross_host_arbitration"
      PROVE  /\ RoundsOfType(rounds', "cross_host_arbitration") =
                    RoundsOfType(rs, "cross_host_arbitration")
             /\ Round2Outcome(rounds') = Round2Outcome(rs)
  BY <1>1, <1>3, ArbitrationsStay, Round2OutcomeStays
<1> QED
  BY <1>2, <1>3

\* The votes on the synthesis are the reviews of the open review.
LEMMA OpenVotes ==
    ASSUME NEW rs, NEW t, Tables(rs, t), Newest(rs), NEW r \in DOMAIN rs,
           rs[r].type = "multi_agent_review", rs[r].status = "in_progress", NEW vs
    PROVE  VotesCast("round_3", rs, vs) = [a \in AllWorkers |-> VoteOf(vs, r, a)]
<1> DEFINE S == RoundsOfType(rs, "multi_agent_review")
<1>1. Len(rs) \in Nat /\ DOMAIN rs = 1..Len(rs)
  BY DEF Tables
<1>2. S \in SUBSET (1..Len(rs)) /\ r \in S
  BY <1>1 DEF RoundsOfType
<1>3. Latest(S) \in S /\ r <= Latest(S)
  BY <1>1, <1>2, LatestIsMember
<1>4. Latest(S) <= r
  BY <1>3 DEF RoundsOfType, Newest
<1>5. Latest(S) = r
  BY <1>1, <1>2, <1>3, <1>4
<1> QED
  BY <1>5 DEF VotesCast

LEMMA RespondInRound2Flows ==
    ASSUME FlowInv, EveryHostPaired, NobodySkipped,
           NEW i, NEW output, NEW assess \in {"converged", "more_work_needed"},
           RespondInRound2(i, output, assess)
    PROVE  Flowing /\ Follows
<1> DEFINE t == Respond(iters, i, output, assess)
           r == iters[i].round
           rs == UpdateRound(rounds, r, "complete", output)
           input == Draft(output)
<1>1. /\ StageInv /\ ApprovalInv /\ Tables(rounds, iters)
      /\ \A v \in reviews : v.round \in DOMAIN rounds /\ v.reviewer \in AllWorkers
      /\ finalized # None => session = "complete"
  BY FlowTables DEF FlowInv
<1>2. /\ output \in Texts /\ r \in DOMAIN rounds
      /\ rounds[r].type = "cross_host_arbitration" /\ Active(rounds, iters, r)
      /\ Tables(rs, t) /\ Moved(rounds, iters, rs, t) /\ Quiet(rs, t)
      /\ rs[r].status = "complete"
      /\ \A q \in DOMAIN rounds : q # r => rs[q] = rounds[q]
      /\ Round2Outcome(rs) = output
  BY <1>1, ArbitratorAnswered
<1>3. rounds # <<>>
  BY <1>2
<1>4. /\ output \in Syntheses
      /\ SpawnRound3(rs, t, input)
      /\ UNCHANGED <<reviews, finalized>>
  <2>1. ExpectedReviewers = AllWorkers /\ AllWorkers # {}
    BY <1>1, <1>3, HostsAreThere DEF StageInv, ExpectedReviewers
  <2> QED
    BY <2>1 DEF RespondInRound2
<1>5. input \in Inputs /\ input = Draft(Round2Outcome(rs))
  BY <1>2 DEF Inputs, Draft
<1> HIDE DEF t, r, rs, input
<1>6. session = "round_2"
  BY <1>2, ActiveIsAnnounced DEF StageType
<1>7. Orderly(rs, t)
  BY <1>1, <1>2, DoneIsOrderly
<1>8. Spawned(rs, t, "multi_agent_review", input)
  BY <1>2, <1>4, <1>5, SpawnRound3OnTrack
<1>9. rounds' = Append(rs, NewRound("multi_agent_review", None)) /\ session' = "round_3"
  BY <1>4 DEF SpawnRound3
<1>10. /\ Len(rounds') = Len(rs) + 1 /\ Len(rs) = Len(rounds)
       /\ Len(rounds) \in Nat /\ DOMAIN rounds = 1..Len(rounds)
       /\ Len(rs) + 1 \in DOMAIN rounds' /\ Tables(rounds', iters')
  <2>1. rs \in Seq(Round) /\ rounds \in Seq(Round) /\ Len(rs) = Len(rounds)
    BY <1>1, <1>2 DEF Tables, Moved
  <2>2. Len(rounds') = Len(rs) + 1 /\ Len(rs) + 1 \in DOMAIN rounds'
    BY <1>9, <2>1
  <2>3. Tables(rounds', iters')
    BY <1>8 DEF Spawned
  <2> QED
    BY <2>1, <2>2, <2>3
<1>11. Running(rounds', iters') /\ Newest(rounds')
  BY <1>2, <1>7, <1>8, <1>10, SpawnedRuns
<1>12. /\ Turndowns(rounds', reviews) = Turndowns(rounds, reviews)
       /\ RoundsOfType(rounds', "cross_host_arbitration") =
              RoundsOfType(rounds, "cross_host_arbitration")
       /\ Round2Outcome(rounds') = output
  BY <1>1, <1>2, <1>8, SpawnedKeepsCounts, PairStepKeepsTurndowns
<1>13. Counted("round_3", rounds', reviews)
  BY <1>6, <1>12 DEF FlowInv, Counted
<1>14. "round_3" \in Phases /\ GivenUp("round_3", rounds')
  BY DEF Phases, StageType, GivenUp
<1>15. Flowing
  BY <1>1, <1>4, <1>6, <1>9, <1>11, <1>13, <1>14 DEF Flowing
<1>16. VotesCast("round_3", rounds', reviews) = [a \in AllWorkers |-> "none"]
  <2> DEFINE n == Len(rs) + 1
  <2>1. n \in DOMAIN rounds' /\ n > Len(rs) /\ n \notin DOMAIN rounds
    BY <1>10
  <2> HIDE DEF n
  <2>2. rounds'[n].type = "multi_agent_review" /\ rounds'[n].status = "in_progress"
    BY <1>8, <2>1 DEF Spawned
  <2>3. VotesCast("round_3", rounds', reviews) = [a \in AllWorkers |-> VoteOf(reviews, n, a)]
    BY <1>10, <1>11, <2>1, <2>2, OpenVotes
  <2>4. \A a : VoteOf(reviews, n, a) = "none"
    BY <1>1, <2>1 DEF VoteOf, ReviewersOf
  <2> QED
    BY <2>3, <2>4
<1>17. /\ VotesCast(session, rounds, reviews) = [a \in AllWorkers |-> "none"]
       /\ OnTheTable(session', rounds') = output
  BY <1>6, <1>9, <1>12 DEF VotesCast, OnTheTable
<1>18. Flow!Synthesizes(output)
  BY <1>4, <1>6, <1>9, <1>12, <1>16, <1>17, MappingInTheNextState DEF Flow!Synthesizes
<1> QED
  BY <1>4, <1>15, <1>18 DEF Follows, Flow!FlowNext

-----------------------------------------------------------------------------
(***************************************************************************)
(* The reviewers.                                                          *)
(***************************************************************************)
\* A review that is closed counts as a turn-down if somebody rejected.
LEMMA ClosedReviewCounts ==
    ASSUME Tables(rounds, iters), NEW r \in DOMAIN rounds,
           rounds[r].type = "multi_agent_review", rounds[r].status = "in_progress",
           NEW rs, NEW t, Tables(rs, t), Moved(rounds, iters, rs, t),
           rs[r].status = "complete", \A q \in DOMAIN rounds : q # r => rs[q] = rounds[q],
           NEW vs, \A q : q # r => RejectersOf(vs, q) = RejectersOf(reviews, q)
    PROVE  /\ RoundsOfType(rs, "cross_host_arbitration") =
                  RoundsOfType(rounds, "cross_host_arbitration")
           /\ Cardinality(Turndowns(rs, vs)) =
                  Cardinality(Turndowns(rounds, reviews))
                      + (IF RejectersOf(vs, r) = {} THEN 0 ELSE 1)
           /\ Cardinality(Turndowns(rounds, reviews)) \in Nat
<1> DEFINE T == Turndowns(rounds, reviews)
<1>1. /\ Len(rounds) \in Nat /\ DOMAIN rounds = 1..Len(rounds) /\ DOMAIN rs = DOMAIN rounds
      /\ \A q \in DOMAIN rounds : rs[q].type = rounds[q].type
  BY DEF Tables, Moved
<1>2. RoundsOfType(rs, "cross_host_arbitration") = RoundsOfType(rounds, "cross_host_arbitration")
  BY <1>1 DEF RoundsOfType
<1>3. T \in SUBSET (1..Len(rounds)) /\ r \notin T
  BY <1>1 DEF Turndowns, RoundsOfType
<1>4. IsFiniteSet(T) /\ Cardinality(T) \in Nat
  BY <1>1, <1>3, SubsetOfInterval
<1>5. Turndowns(rs, vs) = IF RejectersOf(vs, r) = {} THEN T ELSE T \cup {r}
  <2>1. \A q \in DOMAIN rounds : q # r => (q \in Turndowns(rs, vs) <=> q \in T)
    BY <1>1 DEF Turndowns, RoundsOfType
  <2>2. r \in Turndowns(rs, vs) <=> RejectersOf(vs, r) # {}
    BY <1>1 DEF Turndowns, RoundsOfType
  <2>3. Turndowns(rs, vs) \subseteq DOMAIN rounds /\ T \subseteq DOMAIN rounds
    BY <1>1 DEF Turndowns, RoundsOfType
  <2> HIDE DEF T
  <2>4. ASSUME RejectersOf(vs, r) = {}
        PROVE  Turndowns(rs, vs) = T
    <3>1. r \notin Turndowns(rs, vs) /\ r \notin T
      BY <1>3, <2>2, <2>4
    <3> QED
      BY <2>1, <2>3, <3>1
  <2>5. ASSUME RejectersOf(vs, r) # {}
        PROVE  Turndowns(rs, vs) = T \cup {r}
    <3>1. r \in Turndowns(rs, vs)
      BY <2>2, <2>5
    <3> QED
      BY <2>1, <2>3, <3>1
  <2> QED
    BY <2>4, <2>5
<1> HIDE DEF T
<1>6. Cardinality(T \cup {r}) = Cardinality(T) + 1
  BY <1>3, <1>4, FS_AddElement
<1> QED
  BY <1>2, <1>4, <1>5, <1>6 DEF T

\* What a vote makes of the votes, and when all are in and for the synthesis.
Tallied(vs, r, a, decision) ==
    /\ VoteOf(reviews, r, a) = "none"
    /\ [b \in AllWorkers |-> VoteOf(vs, r, b)] =
           [[b \in AllWorkers |-> VoteOf(reviews, r, b)] EXCEPT ![a] = decision]
    /\ (\A b \in AllWorkers : VoteOf(vs, r, b) # "none") <=>
           AllWorkers \subseteq ReviewersOf(vs, r)
    /\ AllWorkers \subseteq ReviewersOf(vs, r) =>
           ((\A b \in AllWorkers : VoteOf(vs, r, b) = "approve") <=>
               RejectersOf(vs, r) \cap AllWorkers = {})

LEMMA OneMoreVote ==
    ASSUME NEW r, NEW a \in AllWorkers, a \notin ReviewersOf(reviews, r),
           NEW decision \in {"approve", "reject"}, NEW vs,
           vs = reviews \cup {[round |-> r, reviewer |-> a, decision |-> decision]}
    PROVE  /\ Tallied(vs, r, a, decision)
           /\ RejectersOf(vs, r) =
                  IF decision = "reject" THEN RejectersOf(reviews, r) \cup {a}
                  ELSE RejectersOf(reviews, r)
           /\ \A q : q # r => /\ RejectersOf(vs, q) = RejectersOf(reviews, q)
                              /\ ReviewersOf(vs, q) = ReviewersOf(reviews, q)
<1> DEFINE v == [round |-> r, reviewer |-> a, decision |-> decision]
<1>1. /\ v.round = r /\ v.reviewer = a /\ v.decision = decision
      /\ vs = reviews \cup {v}
  OBVIOUS
<1> HIDE DEF v
<1>2. /\ ReviewersOf(vs, r) = ReviewersOf(reviews, r) \cup {a}
      /\ RejectersOf(vs, r) = IF decision = "reject" THEN RejectersOf(reviews, r) \cup {a}
                              ELSE RejectersOf(reviews, r)
  BY <1>1 DEF ReviewersOf, RejectersOf
<1>3. RejectersOf(reviews, r) \subseteq ReviewersOf(reviews, r)
  BY DEF ReviewersOf, RejectersOf
<1>4. VoteOf(reviews, r, a) = "none" /\ VoteOf(vs, r, a) = decision
  BY <1>2, <1>3 DEF VoteOf
<1>5. \A b : b # a => VoteOf(vs, r, b) = VoteOf(reviews, r, b)
  BY <1>2 DEF VoteOf
<1>6. [b \in AllWorkers |-> VoteOf(vs, r, b)] =
          [[b \in AllWorkers |-> VoteOf(reviews, r, b)] EXCEPT ![a] = decision]
  BY <1>4, <1>5
<1>7. \A b : VoteOf(vs, r, b) # "none" <=> b \in ReviewersOf(vs, r)
  BY DEF VoteOf
<1>8. \A b \in ReviewersOf(vs, r) : VoteOf(vs, r, b) = "approve" <=> b \notin RejectersOf(vs, r)
  BY DEF VoteOf
<1>9. Tallied(vs, r, a, decision)
  BY <1>4, <1>6, <1>7, <1>8 DEF Tallied
<1>10. \A q : q # r => /\ RejectersOf(vs, q) = RejectersOf(reviews, q)
                       /\ ReviewersOf(vs, q) = ReviewersOf(reviews, q)
  BY <1>1 DEF RejectersOf, ReviewersOf
<1> QED
  BY <1>2, <1>9, <1>10

LEMMA DecidingVoteFollows ==
    ASSUME NEW r, NEW a \in AllWorkers, a \notin ReviewersOf(reviews, r),
           NEW decision \in {"approve", "reject"},
           reviews' = reviews \cup {[round |-> r, reviewer |-> a, decision |-> decision]},
           session = "round_3",
           VotesCast("round_3", rounds, reviews) =
               [b \in AllWorkers |-> VoteOf(reviews, r, b)],
           AllWorkers \subseteq ReviewersOf(reviews', r),
           RejectersOf(reviews', r) \subseteq AllWorkers,
           finalized' = finalized,
           \/ /\ RejectersOf(reviews', r) = {}
              /\ session' = "executing"
              /\ Round2Outcome(rounds') = Round2Outcome(rounds)
              /\ Cardinality(Turndowns(rounds', reviews')) =
                     Cardinality(Turndowns(rounds, reviews))
           \/ /\ RejectersOf(reviews', r) # {}
              /\ session' = IF Cardinality(Turndowns(rounds, reviews)) < MAX_MEDIATION_ATTEMPTS
                            THEN "round_2" ELSE "round_1"
              /\ Cardinality(Turndowns(rounds', reviews')) =
                     Cardinality(Turndowns(rounds, reviews)) + 1
    PROVE  Follows
<1> DEFINE votes == VotesCast(session, rounds, reviews)
           cast == [votes EXCEPT ![a] = decision]
           turndowns == Cardinality(Turndowns(rounds, reviews))
           synthesis == OnTheTable(session, rounds)
<1>1. /\ votes = [b \in AllWorkers |-> VoteOf(reviews, r, b)]
      /\ votes[a] = "none"
      /\ cast = [b \in AllWorkers |-> VoteOf(reviews', r, b)]
      /\ \A b \in AllWorkers : VoteOf(reviews', r, b) # "none"
      /\ (\A b \in AllWorkers : VoteOf(reviews', r, b) = "approve") <=>
             RejectersOf(reviews', r) = {}
  <2>1. votes = [b \in AllWorkers |-> VoteOf(reviews, r, b)]
    OBVIOUS
  <2> HIDE DEF votes
  <2>2. PICK vs : vs = reviews'
    OBVIOUS
  <2>3. vs = reviews \cup {[round |-> r, reviewer |-> a, decision |-> decision]}
    BY <2>2
  <2>4. Tallied(vs, r, a, decision)
    BY <2>3, OneMoreVote
  <2>5. RejectersOf(reviews', r) \cap AllWorkers = RejectersOf(reviews', r)
    OBVIOUS
  <2>6. votes[a] = VoteOf(reviews, r, a)
    BY <2>1
  <2>7. cast = [b \in AllWorkers |-> VoteOf(reviews', r, b)]
    BY <2>1, <2>2, <2>4 DEF Tallied
  <2> HIDE DEF cast
  <2> QED
    BY <2>1, <2>2, <2>4, <2>5, <2>6, <2>7 DEF Tallied
<1>2. /\ \A b \in AllWorkers : cast[b] # "none"
      /\ (\A b \in AllWorkers : cast[b] = "approve") <=> RejectersOf(reviews', r) = {}
  BY <1>1
<1>3. VotesCast(session', rounds', reviews') = [b \in AllWorkers |-> "none"]
  BY DEF VotesCast
<1>4. /\ votes' = Flow!NoVotes
      /\ turndowns' = Cardinality(Turndowns(rounds', reviews'))
      /\ synthesis' = OnTheTable(session', rounds')
  BY <1>3, MappingInTheNextState DEF Flow!NoVotes
<1>5. Flow!Votes(a, decision)
  <2>1. CASE RejectersOf(reviews', r) = {}
    <3>1. synthesis' = synthesis
      BY <1>4, <2>1 DEF OnTheTable
    <3> QED
      BY <1>1, <1>2, <1>4, <2>1, <3>1 DEF Flow!Votes
  <2>2. CASE RejectersOf(reviews', r) # {}
    <3>1. synthesis' = None
      BY <1>4, <2>2 DEF OnTheTable
    <3> QED
      BY <1>1, <1>2, <1>4, <2>2, <3>1 DEF Flow!Votes
  <2> QED
    BY <2>1, <2>2
<1> QED
  BY <1>5 DEF Follows, Flow!FlowNext

LEMMA MediationIsInput ==
    ASSUME NEW prior \in Texts \cup {None}, NEW rejecters \in SUBSET Agents
    PROVE  MediationInput(prior, rejecters) \in Inputs
BY DEF Inputs

\* What the vote of a on the open review r meets.
VoteMeets(r, a) ==
    /\ session = "round_3" /\ finalized = None
    /\ VotesCast("round_3", rounds, reviews) = [b \in AllWorkers |-> VoteOf(reviews, r, b)]
    /\ Counted("round_3", rounds, reviews)
    /\ r \notin Turndowns(rounds, reviews)

LEMMA VoteIsMet ==
    ASSUME FlowInv, EveryHostPaired, NEW r \in DOMAIN rounds,
           rounds[r].type = "multi_agent_review", rounds[r].status = "in_progress", NEW a
    PROVE  VoteMeets(r, a)
<1>1. Active(rounds, iters, r)
  BY DEF Active
<1>2. session = "round_3"
  BY <1>1, ActiveIsAnnounced DEF StageType
<1>3. VotesCast("round_3", rounds, reviews) = [b \in AllWorkers |-> VoteOf(reviews, r, b)]
  BY FlowTables, OpenVotes DEF FlowInv
<1>4. r \notin Turndowns(rounds, reviews)
  BY DEF Turndowns
<1> QED
  BY <1>2, <1>3, <1>4 DEF VoteMeets, FlowInv

LEMMA CloseReviewFlows ==
    ASSUME FlowInv, EveryHostPaired, NobodySkipped, NEW r \in DOMAIN rounds,
           rounds[r].type = "multi_agent_review", rounds[r].status = "in_progress",
           NEW a \in AllWorkers, a \notin ReviewersOf(reviews, r),
           NEW decision \in {"approve", "reject"}, NEW vs \in SUBSET Review,
           vs = reviews \cup {[round |-> r, reviewer |-> a, decision |-> decision]},
           reviews' = vs, AllWorkers \subseteq ReviewersOf(vs, r),
           \A v \in vs : v.reviewer \in AllWorkers,
           CloseReview(r, vs), finalized' = finalized
    PROVE  Flowing /\ Follows
<1> DEFINE rs == UpdateRound(rounds, r, "complete", None)
           rejecters == RejectersOf(vs, r)
           arbitrations(rows) == Cardinality(RoundsOfType(rows, "cross_host_arbitration"))
           turndowns == Cardinality(Turndowns(rounds, reviews))
<1>1. /\ StageInv /\ ApprovalInv /\ Tables(rounds, iters) /\ session \in SessionStatuses
      /\ rounds # <<>>
  BY FlowTables
<1>2. VoteMeets(r, a)
  BY VoteIsMet
<1>3. /\ Active(rounds, iters, r)
      /\ Tables(rs, iters) /\ Moved(rounds, iters, rs, iters) /\ Quiet(rs, iters)
      /\ rs[r].status = "complete"
      /\ \A q \in DOMAIN rounds : q # r => rs[q] = rounds[q]
      /\ Round2Outcome(rs) = Round2Outcome(rounds)
      /\ Round2Outcome(rs) \in Texts \cup {None}
  BY <1>1, ReviewClosed
<1>4. \/ /\ rejecters = {}
         /\ SpawnExecuteRound(rs, iters)
      \/ /\ rejecters # {}
         /\ MediationAttempts(rs) < MAX_MEDIATION_ATTEMPTS
         /\ SpawnRound2(rs, iters, MediationInput(Round2Outcome(rs), rejecters))
      \/ /\ rejecters # {}
         /\ MediationAttempts(rs) >= MAX_MEDIATION_ATTEMPTS
         /\ SpawnRound1(rs, iters, ProblemWith(rejecters), session)
  BY DEF CloseReview
<1>5. rejecters \in SUBSET Agents /\ rejecters \subseteq AllWorkers
  BY DEF RejectersOf, Review
<1>6. \A q : q # r => RejectersOf(vs, q) = RejectersOf(reviews, q)
  BY OneMoreVote
<1> HIDE DEF rs
<1>7. /\ RoundsOfType(rs, "cross_host_arbitration") =
             RoundsOfType(rounds, "cross_host_arbitration")
      /\ Cardinality(Turndowns(rs, vs)) = turndowns + (IF rejecters = {} THEN 0 ELSE 1)
      /\ turndowns \in Nat
  BY <1>1, <1>3, <1>6, ClosedReviewCounts
<1> HIDE DEF rejecters, turndowns
<1>8. arbitrations(rs) = turndowns + 1 /\ MediationAttempts(rs) = turndowns
  BY <1>2, <1>7 DEF VoteMeets, Counted, MediationAttempts, turndowns
<1>9. /\ Orderly(rs, iters) /\ AllConverged(rs) /\ rs # <<>>
  BY <1>1, <1>3, DoneIsOrderly
<1>10. Round2Outcome(rs) # None
  BY <1>1, <1>3, FlowTables DEF Orderly, Synthesized
<1>11. HostOrder # <<>>
  BY <1>1, HostsAreThere
<1>12. ASSUME NEW type, type # "multi_agent_review", NEW input, Spawned(rs, iters, type, input)
       PROVE  /\ Running(rounds', iters') /\ Newest(rounds')
              /\ Cardinality(Turndowns(rounds', vs)) =
                     turndowns + (IF rejecters = {} THEN 0 ELSE 1)
              /\ type # "cross_host_arbitration" =>
                     /\ arbitrations(rounds') = arbitrations(rs)
                     /\ Round2Outcome(rounds') = Round2Outcome(rounds)
  <2>1. Running(rounds', iters') /\ Newest(rounds')
    BY <1>3, <1>9, <1>12, SpawnedRuns
  <2> QED
    BY <1>3, <1>7, <1>12, <2>1, SpawnedKeepsCounts
<1>13. ASSUME session' \in {"round_1", "round_2", "executing"},
              Running(rounds', iters'), Newest(rounds'), Counted(session', rounds', vs)
       PROVE  Flowing
  <2>1. session' \in Phases /\ GivenUp(session', rounds')
    BY <1>13 DEF Phases, StageType, GivenUp
  <2>2. finalized' = None
    BY <1>2 DEF VoteMeets
  <2> QED
    BY <1>13, <2>1, <2>2 DEF Flowing
<1> HIDE DEF arbitrations
<1>14. ASSUME rejecters = {}, SpawnExecuteRound(rs, iters)
       PROVE  Flowing /\ Follows
  <2> DEFINE input == Draft(Round2Outcome(rs))
  <2>1. Spawned(rs, iters, "execute", input)
    BY <1>1, <1>3, <1>14, SpawnExecuteRoundOnTrack
  <2> HIDE DEF input
  <2>2. session' = "executing"
    BY <1>1, <1>3, <1>9, <1>10, <1>14, SpawnExecuteRoundOrderly
  <2>3. /\ Running(rounds', iters') /\ Newest(rounds')
        /\ Cardinality(Turndowns(rounds', vs)) = turndowns
        /\ Round2Outcome(rounds') = Round2Outcome(rounds)
    <3>1. /\ Running(rounds', iters') /\ Newest(rounds')
          /\ Cardinality(Turndowns(rounds', vs)) =
                 turndowns + (IF rejecters = {} THEN 0 ELSE 1)
      BY <1>12, <2>1
    <3>3. Round2Outcome(rounds') = Round2Outcome(rounds)
      BY <1>12, <2>1
    <3>2. turndowns \in Nat
      BY <1>7
    <3> QED
      BY <1>14, <3>1, <3>2, <3>3
  <2>4. Counted("executing", rounds', vs)
    BY DEF Counted
  <2>5. Follows
    BY <1>2, <1>5, <1>14, <2>2, <2>3, DecidingVoteFollows DEF VoteMeets, rejecters, turndowns
  <2> QED
    BY <1>13, <2>2, <2>3, <2>4, <2>5
<1>15. ASSUME rejecters # {}, turndowns < MAX_MEDIATION_ATTEMPTS,
              SpawnRound2(rs, iters, MediationInput(Round2Outcome(rs), rejecters))
       PROVE  Flowing /\ Follows
  <2> DEFINE input == MediationInput(Round2Outcome(rs), rejecters)
  <2>1. input \in Inputs
    BY <1>3, <1>5, MediationIsInput
  <2>2. SpawnRound2(rs, iters, input)
    BY <1>15
  <2> HIDE DEF input
  <2>3. Spawned(rs, iters, "cross_host_arbitration", input)
    BY <1>3, <2>1, <2>2, SpawnRound2OnTrack
  <2>4. session' = "round_2" /\ rounds' = Append(rs, NewRound("cross_host_arbitration", None))
    BY <2>2 DEF SpawnRound2
  <2>5. /\ Running(rounds', iters') /\ Newest(rounds')
        /\ Cardinality(Turndowns(rounds', vs)) = turndowns + 1
    BY <1>12, <1>15, <2>3
  <2>6. arbitrations(rounds') = arbitrations(rs) + 1
    BY <1>3, <2>4, OneMoreArbitration DEF arbitrations
  <2>7. Counted("round_2", rounds', vs)
    BY <1>7, <1>8, <2>5, <2>6 DEF Counted, arbitrations
  <2>8. Follows
    BY <1>2, <1>5, <1>15, <2>4, <2>5, DecidingVoteFollows DEF VoteMeets, rejecters, turndowns
  <2> QED
    BY <1>13, <2>4, <2>5, <2>7, <2>8
<1>16. ASSUME rejecters # {}, ~(turndowns < MAX_MEDIATION_ATTEMPTS),
              SpawnRound1(rs, iters, ProblemWith(rejecters), session)
       PROVE  Flowing /\ Follows
  <2> DEFINE input == ProblemWith(rejecters)
  <2>1. input \in Inputs /\ input.kind # "arbitrate"
    BY <1>5 DEF Inputs, ProblemWith
  <2>2. SpawnRound1(rs, iters, input, session)
    BY <1>16
  <2> HIDE DEF input
  <2>3. Spawned(rs, iters, "same_host_pair", input)
    BY <1>1, <1>3, <2>1, <2>2, SpawnRound1OnTrack
  <2>4. session' = "round_1"
    BY <1>1, <1>3, <1>9, <2>1, <2>2, SpawnRound1Orderly
  <2>5. /\ Running(rounds', iters') /\ Newest(rounds')
        /\ Cardinality(Turndowns(rounds', vs)) = turndowns + 1
        /\ arbitrations(rounds') = arbitrations(rs)
    BY <1>12, <1>16, <2>3
  <2>6. Counted("round_1", rounds', vs)
    BY <1>7, <1>8, <2>5 DEF Counted, arbitrations
  <2>7. Follows
    BY <1>2, <1>5, <1>16, <2>4, <2>5, DecidingVoteFollows DEF VoteMeets, rejecters, turndowns
  <2> QED
    BY <1>13, <2>4, <2>5, <2>6, <2>7
<1>17. MAX_MEDIATION_ATTEMPTS \in Nat
  BY LimitAssumption
<1> QED
  BY <1>4, <1>7, <1>8, <1>14, <1>15, <1>16, <1>17

LEMMA EmitReviewFlows ==
    ASSUME FlowInv, EveryHostPaired, NobodySkipped, NEW r \in DOMAIN rounds, NEW a \in Agents,
           NEW decision \in {"approve", "reject"},
           OpenReviewRequest(r, a), EmitReview(r, a, decision)
    PROVE  Flowing /\ Follows
<1>1. /\ reviews \in SUBSET Review /\ ExpectedReviewers = AllWorkers
      /\ Len(rounds) \in Nat /\ DOMAIN rounds = 1..Len(rounds)
  BY FlowTables DEF StageInv, ExpectedReviewers
<1>2. /\ rounds[r].type = "multi_agent_review" /\ rounds[r].status = "in_progress"
      /\ a \in AllWorkers /\ a \notin ReviewersOf(reviews, r)
      /\ finalized' = finalized
  BY <1>1 DEF EmitReview, OpenReviewRequest
<1>3. PICK vs : vs = reviews \cup {[round |-> r, reviewer |-> a, decision |-> decision]}
  OBVIOUS
<1>4. vs \in SUBSET Review /\ reviews' = vs
  BY <1>1, <1>3 DEF EmitReview, Review
<1>5. \A v \in vs : v.reviewer \in AllWorkers
  BY <1>2, <1>3 DEF FlowInv
<1>6. \/ AllWorkers \subseteq ReviewersOf(vs, r) /\ CloseReview(r, vs)
      \/ /\ ~(AllWorkers \subseteq ReviewersOf(vs, r))
         /\ UNCHANGED <<session, rounds, iters>>
  BY <1>1, <1>3 DEF EmitReview
<1>7. ASSUME AllWorkers \subseteq ReviewersOf(vs, r), CloseReview(r, vs)
      PROVE  Flowing /\ Follows
  BY <1>2, <1>3, <1>4, <1>5, <1>7, CloseReviewFlows
<1>8. ASSUME ~(AllWorkers \subseteq ReviewersOf(vs, r)), UNCHANGED <<session, rounds, iters>>
      PROVE  Flowing /\ Follows
  <2>1. VoteMeets(r, a)
    BY <1>2, VoteIsMet
  <2>2. /\ Tallied(vs, r, a, decision)
        /\ \A q : q # r => RejectersOf(vs, q) = RejectersOf(reviews, q)
    BY <1>2, <1>3, OneMoreVote
  <2>3. Turndowns(rounds, vs) = Turndowns(rounds, reviews)
    BY <1>2, <2>2 DEF Turndowns
  <2>4. Counted("round_3", rounds, vs)
    BY <2>1, <2>3 DEF VoteMeets, Counted
  <2>5. Flowing
    BY <1>2, <1>4, <1>5, <1>8, <2>1, <2>4 DEF Flowing, FlowInv, VoteMeets
  <2> DEFINE votes == VotesCast(session, rounds, reviews)
             cast == [votes EXCEPT ![a] = decision]
  <2>6. votes = [b \in AllWorkers |-> VoteOf(reviews, r, b)]
    BY <2>1 DEF VoteMeets
  <2>7. VotesCast("round_3", rounds, vs) = [b \in AllWorkers |-> VoteOf(vs, r, b)]
    BY <1>2, FlowTables, OpenVotes DEF FlowInv
  <2>8. /\ VotesCast(session', rounds', reviews') = [b \in AllWorkers |-> VoteOf(vs, r, b)]
        /\ OnTheTable(session', rounds') = OnTheTable(session, rounds)
        /\ Cardinality(Turndowns(rounds', reviews')) = Cardinality(Turndowns(rounds, reviews))
    BY <1>4, <1>8, <2>1, <2>3, <2>7 DEF VoteMeets
  <2> HIDE DEF votes
  <2>9. /\ votes[a] = "none"
        /\ cast = [b \in AllWorkers |-> VoteOf(vs, r, b)]
        /\ ~(\A b \in AllWorkers : VoteOf(vs, r, b) # "none")
    BY <1>2, <1>8, <2>2, <2>6 DEF Tallied
  <2>10. ~(\A b \in AllWorkers : cast[b] # "none")
    BY <2>9
  <2>11. votes' = VotesCast(session', rounds', reviews')
    BY MappingInTheNextState DEF votes
  <2>12. votes' = cast
    BY <2>8, <2>9, <2>11
  <2>13. UNCHANGED <<session, OnTheTable(session, rounds),
                     Cardinality(Turndowns(rounds, reviews)), finalized>>
    BY <1>2, <1>8, <2>8, MappingInTheNextState
  <2>14. Flow!Votes(a, decision)
    BY <2>1, <2>9, <2>10, <2>12, <2>13 DEF Flow!Votes, VoteMeets, votes
  <2> QED
    BY <1>2, <2>5, <2>14 DEF Follows, Flow!FlowNext
<1> QED
  BY <1>6, <1>7, <1>8

-----------------------------------------------------------------------------
(***************************************************************************)
(* The executor and the operator.                                          *)
(***************************************************************************)
LEMMA ExecutorFlows ==
    ASSUME FlowInv, EveryHostPaired, NEW i \in DOMAIN iters, NEW output,
           ExecutorSucceeds(i, output) \/ ExecutorFails(i, output)
    PROVE  Flowing /\ Follows
<1> DEFINE r == iters[i].round
<1>1. /\ StageInv /\ ApprovalInv /\ Tables(rounds, iters)
      /\ \A v \in reviews : v.reviewer \in AllWorkers
      /\ finalized # None => session = "complete"
  BY FlowTables DEF FlowInv
<1>2. /\ r \in DOMAIN rounds /\ rounds[r].type = "execute" /\ Active(rounds, iters, r)
      /\ Tables(rounds', iters') /\ Moved(rounds, iters, rounds', iters')
      /\ Quiet(rounds', iters')
      /\ rounds'[r].status \in {"complete", "escalated"}
      /\ \A q \in DOMAIN rounds : q # r => rounds'[q] = rounds[q]
      /\ Round2Outcome(rounds) # None
      /\ UNCHANGED <<reviews, skipped>>
  BY <1>1, ExecutorAnswered
<1> HIDE DEF r
<1>3. session = "executing" /\ finalized = None
  BY <1>1, <1>2, ActiveIsAnnounced DEF StageType
<1>4. \/ session' = "complete" /\ finalized' = Round2Outcome(rounds)
      \/ session' = "escalated" /\ finalized' = None
  BY <1>2, <1>3 DEF ExecutorSucceeds, ExecutorFails
<1>5. Running(rounds', iters') /\ Newest(rounds')
  <2>1. PICK rs, t : rs = rounds' /\ t = iters'
    OBVIOUS
  <2>2. Tables(rs, t) /\ Moved(rounds, iters, rs, t) /\ Quiet(rs, t)
    BY <1>2, <2>1
  <2>3. \A q \in DOMAIN rounds : ~Active(rs, t, q)
    BY <1>1, <2>2 DEF Tables, Moved, Quiet
  <2>4. Running(rs, t) /\ Newest(rs)
    BY <2>2, <2>3, MovedRuns
  <2> QED
    BY <2>1, <2>4
<1>6. \A q \in DOMAIN rounds' : rounds'[q].status # "in_progress"
  BY <1>1, <1>2, DoneIsOrderly
<1>7. /\ rounds \in Seq(Round) /\ rounds' \in Seq(Round) /\ Len(rounds') = Len(rounds)
      /\ Len(rounds) <= Len(rounds')
      /\ \A q \in DOMAIN rounds' : ~(q > Len(rounds))
      /\ \A q \in DOMAIN rounds : rounds'[q].type = rounds[q].type
  <2>1. /\ rounds \in Seq(Round) /\ rounds' \in Seq(Round) /\ Len(rounds') = Len(rounds)
        /\ \A q \in DOMAIN rounds : rounds'[q].type = rounds[q].type
    BY <1>1, <1>2 DEF Tables, Moved
  <2>2. Len(rounds) \in Nat /\ DOMAIN rounds' = 1..Len(rounds')
    BY <2>1
  <2> QED
    BY <2>1, <2>2
<1>8. Turndowns(rounds', reviews') = Turndowns(rounds, reviews)
  BY <1>1, <1>2, <1>7, TurndownsStay
<1>9. Round2Outcome(rounds') = Round2Outcome(rounds)
  BY <1>2, <1>7, Round2OutcomeStays
<1>10. Flowing
  <2>1. session' \in Phases /\ GivenUp(session', rounds') /\ Counted(session', rounds', reviews')
    BY <1>4, <1>6 DEF Phases, StageType, GivenUp, Counted
  <2> QED
    BY <1>1, <1>2, <1>4, <1>5, <2>1 DEF Flowing
<1>11. /\ VotesCast(session', rounds', reviews') = VotesCast(session, rounds, reviews)
       /\ OnTheTable(session, rounds) = Round2Outcome(rounds)
       /\ OnTheTable(session', rounds') = IF session' = "complete" THEN Round2Outcome(rounds)
                                          ELSE None
  BY <1>3, <1>4, <1>9 DEF VotesCast, OnTheTable
<1>12. Flow!Executes \/ Flow!ExecutionFails
  BY <1>3, <1>4, <1>8, <1>11, MappingInTheNextState DEF Flow!Executes, Flow!ExecutionFails
<1> QED
  BY <1>10, <1>12 DEF Follows, Flow!FlowNext

LEMMA OpenedFlows ==
    ASSUME FlowInv, Tables(rounds', iters'), UNCHANGED <<session, rounds, reviews, finalized>>,
           Len(iters') = Len(iters), \A i \in DOMAIN iters : Opened(iters[i], iters'[i])
    PROVE  Flowing /\ Follows
<1>1. Moved(rounds, iters, rounds', iters')
  BY FlowTables, OpenedMoves
<1>2. PICK t : t = iters'
  OBVIOUS
<1>3. Running(rounds, t) /\ Newest(rounds)
  BY <1>1, <1>2, MovedRuns
<1>4. Flowing
  BY <1>2, <1>3 DEF Flowing, FlowInv
<1>5. UNCHANGED Flow!flow
  BY MappingInTheNextState DEF Flow!flow
<1> QED
  BY <1>4, <1>5 DEF Follows

LEMMA StartSessionFlows ==
    ASSUME FlowInv, EveryHostPaired, StartSession
    PROVE  Flowing /\ Follows
<1>1. /\ StageInv /\ ApprovalInv /\ Tables(rounds, iters) /\ Orderly(rounds, iters)
      /\ session = "none" /\ rounds = <<>> /\ HostOrder # <<>>
      /\ UNCHANGED <<reviews, finalized>>
      /\ \A v \in reviews : v.reviewer \in AllWorkers
      /\ finalized # None => session = "complete"
      /\ Counted("none", rounds, reviews)
  BY FlowTables DEF StageInv, ApprovalInv, StartSession, FlowInv
<1>2. Quiet(rounds, iters)
  BY <1>1 DEF Quiet
<1>3. /\ SpawnRound1(rounds, iters, Problem, "drafting")
      /\ Problem \in Inputs /\ Problem.kind # "arbitrate" /\ "drafting" \in SessionStatuses
  BY DEF StartSession, Inputs, Problem, SessionStatuses
<1>4. Spawned(rounds, iters, "same_host_pair", Problem) /\ session' = "round_1"
  BY <1>1, <1>2, <1>3, SpawnRound1OnTrack, SpawnRound1Orderly
<1>5. Running(rounds', iters') /\ Newest(rounds')
  BY <1>1, <1>2, <1>4, SpawnedRuns
<1>6. /\ Turndowns(rounds', reviews) = Turndowns(rounds, reviews)
      /\ RoundsOfType(rounds', "cross_host_arbitration") =
             RoundsOfType(rounds, "cross_host_arbitration")
  BY <1>1, <1>4, SpawnedKeepsCounts
<1>7. Counted("round_1", rounds', reviews) /\ GivenUp("round_1", rounds') /\ "round_1" \in Phases
  BY <1>1, <1>6 DEF Counted, GivenUp, Phases, StageType
<1>8. Flowing
  BY <1>1, <1>4, <1>5, <1>7 DEF Flowing
<1>9. Follows
  BY <1>1, <1>4, <1>6, EarlyStepFollows
<1> QED
  BY <1>8, <1>9

-----------------------------------------------------------------------------
(***************************************************************************)
(* The theorem.                                                            *)
(***************************************************************************)
LEMMA NextFlows ==
    ASSUME Routine, EveryHostPaired, FlowInv, Next
    PROVE  Flowing /\ Follows
<1>1. NobodySkipped /\ StageInv /\ Tables(rounds', iters')
  BY RoutineIsUnforced, FlowTables, NextKeeps DEF ApprovalInv, Step
<1>2. ASSUME EmitResponse
      PROVE  Flowing /\ Follows
  <2>1. PICK i \in DOMAIN iters, output \in Texts, assess \in {"converged", "more_work_needed"} :
            RespondInRound1(i, output, assess) \/ RespondInRound2(i, output, assess)
    BY <1>2 DEF EmitResponse
  <2> QED
    BY <1>1, <2>1, RespondInRound1Flows, RespondInRound2Flows
<1>3. ASSUME ExecutorEmit
      PROVE  Flowing /\ Follows
  BY <1>3, ExecutorFlows DEF ExecutorEmit
<1>4. ASSUME AgentStep
      PROVE  Flowing /\ Follows
  BY <1>1, <1>2, <1>3, <1>4, EmitReviewFlows DEF AgentStep
<1>5. ~AgentFault /\ ~OperatorOverride
  BY DEF Routine, AgentFault, UnrequestedReview, OpenReviewRequest, OperatorOverride,
         RetryIteration, PostAbort, ResolveAbort, ForceConvergeRound1, ProceedToArbitrator,
         SkipAgent
<1>6. ASSUME \/ AutoSkipExpiredNudges
             \/ \E i \in DOMAIN iters, submit \in BOOLEAN : PostNudge(i, submit)
      PROVE  Flowing /\ Follows
  <2>1. UNCHANGED <<session, rounds, reviews, finalized>>
    BY <1>6 DEF AutoSkipExpiredNudges, PostNudge
  <2>2. /\ Len(iters') = Len(iters)
        /\ \A i \in DOMAIN iters : Opened(iters[i], iters'[i])
    BY <1>1, <1>6, AutoSkipOpens, PostNudgeOpens DEF StageInv, ApprovalInv
  <2> QED
    BY <1>1, <2>1, <2>2, OpenedFlows
<1> QED
  BY <1>4, <1>5, <1>6, StartSessionFlows DEF Next, OperatorRoutine

LEMMA NextFlowInv ==
    ASSUME Routine, EveryHostPaired, FlowInv, [Next]_vars
    PROVE  FlowInv' /\ Follows
<1>1. StageInv'
  BY RoutineIsUnforced, NextStages DEF FlowInv
<1>2. Flowing /\ Follows
  <2>1. CASE Next
    BY <2>1, NextFlows
  <2>2. CASE UNCHANGED vars
    <3>1. UNCHANGED <<session, rounds, iters, reviews, finalized>>
      BY <2>2 DEF vars
    <3>2. Flowing
      BY <3>1 DEF Flowing, FlowInv
    <3>3. Follows
      BY <3>1, MappingInTheNextState DEF Follows, Flow!flow
    <3> QED
      BY <3>2, <3>3
  <2> QED
    BY <2>1, <2>2
<1>3. /\ Running(rounds, iters)' /\ Newest(rounds)' /\ GivenUp(session, rounds)'
      /\ (session \in Phases)'
      /\ (finalized # None => session = "complete")'
      /\ (\A v \in reviews : v.reviewer \in AllWorkers)'
  BY <1>2 DEF Flowing, Running, Active, IterationsOf, Newest, GivenUp, Phases
<1>4. Counted(session, rounds, reviews)'
  BY <1>2 DEF Flowing, Counted, Turndowns, RejectersOf, RoundsOfType, Cardinality
<1> QED
  BY <1>1, <1>2, <1>3, <1>4 DEF FlowInv

LEMMA InitFlows ==
    ASSUME Init
    PROVE  FlowInv /\ Flow!FlowInit
<1>1. StageInv
  BY InitStages
<1>2. /\ session = "none" /\ rounds = <<>> /\ DOMAIN rounds = {} /\ reviews = {}
      /\ finalized = None
  BY DEF Init
<1>3. /\ RoundsOfType(rounds, "cross_host_arbitration") = {}
      /\ Turndowns(rounds, reviews) = {}
  BY <1>2 DEF RoundsOfType, Turndowns
<1>4. FlowInv
  BY <1>1, <1>2, <1>3 DEF FlowInv, Phases, Running, Newest, GivenUp, Counted
<1>5. /\ OnTheTable(session, rounds) = None
      /\ VotesCast(session, rounds, reviews) = [a \in AllWorkers |-> "none"]
  BY <1>2 DEF OnTheTable, VotesCast
<1>6. Cardinality(Turndowns(rounds, reviews)) = 0
  BY <1>3, FS_EmptySet
<1> QED
  BY <1>2, <1>4, <1>5, <1>6 DEF Flow!FlowInit, Flow!NoVotes

\* Where every host has its pair, the operator opens the session and nudges, and
\* the agents follow their inbox, the workflow implements SessionFlow: whatever the
\* rounds, requests and nudge windows do underneath, only a synthesis every worker
\* approved is executed, a rejection goes back to the arbitrator and after
\* MAX_MEDIATION_ATTEMPTS rejected syntheses to the pairs.
THEOREM FlowIsImplemented ==
    ASSUME Routine, EveryHostPaired
    PROVE  Spec => ImplementsFlow
<1>1. Init => FlowInv /\ Flow!FlowInit
  BY InitFlows
<1>2. FlowInv /\ [Next]_vars => FlowInv' /\ [Flow!FlowNext]_(Flow!flow)
  BY NextFlowInv DEF Follows
<1> QED
  BY <1>1, <1>2, PTL DEF Spec, ImplementsFlow, Flow!FlowSpec

=============================================================================
