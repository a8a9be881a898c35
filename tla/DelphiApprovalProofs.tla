------------------------ MODULE DelphiApprovalProofs ------------------------
(***************************************************************************)
(* What is proved about the later stages of the Delphi workflow as long as *)
(* the operator does not force it and the agents follow their inbox: only  *)
(* a synthesis that was put before all reviewers and rejected by none is   *)
(* executed, and the final prompt is what was executed.  The operator may  *)
(* nudge, skip reviewers and abort as often as it likes.                   *)
(***************************************************************************)
EXTENDS DelphiProofs

\* The operator advances nothing from the side; the agents answer what their
\* inbox shows.
Unforced ==
    /\ OperatorActions \cap {"force_converge", "retry", "proceed_to_arbitrator"} = {}
    /\ AgentFaults = {}

-----------------------------------------------------------------------------
(***************************************************************************)
(* The track of a session: what still can move it on.                      *)
(***************************************************************************)
\* A round can move the session on while a request of it is unanswered, and a
\* review round while it is in progress, whatever becomes of its requests.
Active(rs, t, r) ==
    \/ /\ rs[r].type # "multi_agent_review"
       /\ \E i \in IterationsOf(t, r) : t[i].status # "complete"
    \/ /\ rs[r].type = "multi_agent_review"
       /\ rs[r].status = "in_progress"

Quiet(rs, t) == \A r \in DOMAIN rs : ~Active(rs, t, r)

\* Only the pairs of several hosts are active side by side.
OneTrack(rs, t) ==
    \A q, r \in DOMAIN rs :
        Active(rs, t, q) /\ Active(rs, t, r) =>
            \/ q = r
            \/ rs[q].type = "same_host_pair" /\ rs[r].type = "same_host_pair"

OneOpenRequest(rs, t) ==
    \A i, j \in DOMAIN t :
        /\ t[i].round = t[j].round
        /\ rs[t[i].round].type # "multi_agent_review"
        /\ t[i].status # "complete" /\ t[j].status # "complete"
        => i = j

\* What is active is up to date: a pair that has converged is not active, nor
\* an arbitration that is not the latest, and what is under review or being
\* executed is the latest arbitration's outcome.
UpToDate(rs, t, r) ==
    /\ rs[r].type = "same_host_pair" => rs[r].status # "converged"
    /\ rs[r].type = "cross_host_arbitration" =>
           \A q \in RoundsOfType(rs, "cross_host_arbitration") : q <= r
    /\ rs[r].type \in {"multi_agent_review", "execute"} =>
           \A i \in IterationsOf(t, r) : t[i].input = Draft(Round2Outcome(rs))

Track(rs, t) ==
    /\ OneTrack(rs, t)
    /\ OneOpenRequest(rs, t)
    /\ \A r \in DOMAIN rs : Active(rs, t, r) => UpToDate(rs, t, r)

LEMMA QuietIsOnTrack ==
    ASSUME NEW rs, NEW t, Tables(rs, t), Quiet(rs, t)
    PROVE  Track(rs, t)
<1>1. \A i \in DOMAIN t : t[i].round \in DOMAIN rs
  BY DEF Tables
<1>2. OneOpenRequest(rs, t)
  BY <1>1 DEF OneOpenRequest, Quiet, Active, IterationsOf
<1> QED
  BY <1>2 DEF Track, OneTrack, Quiet

LEMMA Round2OutcomeStays ==
    ASSUME NEW rs \in Seq(Round), NEW rs2 \in Seq(Round), Len(rs) <= Len(rs2),
           \A r \in DOMAIN rs : /\ rs2[r].type = rs[r].type
                                /\ rs[r].type = "cross_host_arbitration" =>
                                       rs2[r].outcome = rs[r].outcome,
           \A r \in DOMAIN rs2 : r > Len(rs) => rs2[r].type # "cross_host_arbitration"
    PROVE  Round2Outcome(rs2) = Round2Outcome(rs)
<1> DEFINE S == RoundsOfType(rs, "cross_host_arbitration")
<1>1. Len(rs) \in Nat /\ Len(rs2) \in Nat /\ S \in SUBSET (1..Len(rs))
  BY DEF RoundsOfType
<1>2. RoundsOfType(rs2, "cross_host_arbitration") = S
  BY <1>1 DEF RoundsOfType
<1>3. CASE S = {}
  BY <1>2, <1>3 DEF Round2Outcome
<1>4. CASE S # {}
  <2>1. Latest(S) \in S
    BY <1>1, <1>4, LatestIsMember
  <2>2. rs2[Latest(S)].outcome = rs[Latest(S)].outcome
    BY <2>1 DEF RoundsOfType
  <2> HIDE DEF S
  <2> QED
    BY <1>2, <1>4, <2>2 DEF Round2Outcome, S
<1> QED
  BY <1>3, <1>4

\* What is asked of whom in request a is asked in b.
SameAsk(a, b) ==
    /\ b.round = a.round /\ b.num = a.num
    /\ b.src = a.src /\ b.dst = a.dst /\ b.input = a.input

\* Rewriting rows in place: statuses move on, requests stay what they are and
\* are completed by an answer.
Moved(rs, t, rs2, t2) ==
    /\ Len(rs2) = Len(rs) /\ Len(t2) = Len(t)
    /\ \A r \in DOMAIN rs :
           /\ rs2[r].type = rs[r].type /\ rs2[r].host = rs[r].host
           /\ rs2[r].status = "in_progress" => rs[r].status = "in_progress"
    /\ \A i \in DOMAIN t :
           /\ SameAsk(t[i], t2[i])
           /\ t[i].status = "complete" => t2[i] = t[i]
           /\ t[i].status # "complete" /\ t2[i].status = "complete" => t2[i].output # None
           /\ t2[i].status = "off_script" => t[i].status = "off_script"

LEMMA MovedIsTransitive ==
    ASSUME NEW rs, NEW t, Tables(rs, t), NEW rs1, NEW t1, Tables(rs1, t1),
           NEW rs2, NEW t2, Moved(rs, t, rs1, t1), Moved(rs1, t1, rs2, t2)
    PROVE  Moved(rs, t, rs2, t2)
<1>1. DOMAIN rs1 = DOMAIN rs /\ DOMAIN t1 = DOMAIN t
  BY DEF Moved, Tables
<1> QED
  BY <1>1 DEF Moved, SameAsk

LEMMA MovedIsLessActive ==
    ASSUME NEW rs, NEW t, Tables(rs, t), NEW rs2, NEW t2, Tables(rs2, t2),
           Moved(rs, t, rs2, t2), NEW r \in DOMAIN rs, Active(rs2, t2, r)
    PROVE  Active(rs, t, r)
<1>1. /\ DOMAIN t2 = DOMAIN t /\ rs2[r].type = rs[r].type
      /\ rs2[r].status = "in_progress" => rs[r].status = "in_progress"
  BY DEF Tables, Moved
<1>2. IterationsOf(t2, r) = IterationsOf(t, r)
  BY <1>1 DEF IterationsOf, Moved, SameAsk
<1>3. \A i \in IterationsOf(t, r) : t2[i].status # "complete" => t[i].status # "complete"
  BY DEF IterationsOf, Moved, SameAsk
<1> QED
  BY <1>1, <1>2, <1>3 DEF Active

LEMMA MovedStaysOnTrack ==
    ASSUME NEW rs, NEW t, Tables(rs, t), Track(rs, t),
           NEW rs2, NEW t2, Tables(rs2, t2), Moved(rs, t, rs2, t2),
           Round2Outcome(rs2) = Round2Outcome(rs),
           \A r \in DOMAIN rs : rs2[r].status = "converged" =>
               rs[r].status = "converged" \/ ~Active(rs2, t2, r)
    PROVE  Track(rs2, t2)
<1>1. DOMAIN rs2 = DOMAIN rs /\ DOMAIN t2 = DOMAIN t
      /\ \A r \in DOMAIN rs : rs2[r].type = rs[r].type
  BY DEF Tables, Moved
<1>2. \A r \in DOMAIN rs : Active(rs2, t2, r) => Active(rs, t, r)
  BY MovedIsLessActive
<1>3. OneTrack(rs2, t2)
  BY <1>1, <1>2 DEF Track, OneTrack
<1>4. OneOpenRequest(rs2, t2)
  <2>1. \A i \in DOMAIN t : t[i].round \in DOMAIN rs
    BY DEF Tables
  <2>2. \A i \in DOMAIN t : /\ t2[i].round = t[i].round
                            /\ t2[i].status # "complete" => t[i].status # "complete"
    BY DEF Moved, SameAsk
  <2> QED
    BY <1>1, <2>1, <2>2 DEF Track, OneOpenRequest
<1>5. ASSUME NEW r \in DOMAIN rs, Active(rs2, t2, r)
      PROVE  UpToDate(rs2, t2, r)
  <2>1. UpToDate(rs, t, r)
    BY <1>2, <1>5 DEF Track
  <2>2. RoundsOfType(rs2, "cross_host_arbitration") = RoundsOfType(rs, "cross_host_arbitration")
    BY <1>1 DEF RoundsOfType
  <2>3. /\ IterationsOf(t2, r) = IterationsOf(t, r)
        /\ \A i \in IterationsOf(t, r) : t2[i].input = t[i].input
    BY <1>1 DEF IterationsOf, Moved, SameAsk
  <2> QED
    BY <1>1, <1>5, <2>1, <2>2, <2>3 DEF UpToDate
<1> QED
  BY <1>1, <1>3, <1>4, <1>5 DEF Track

\* After its open request is answered a round is not active.
LEMMA AnsweredIsInactive ==
    ASSUME NEW rs, NEW t, Tables(rs, t), Track(rs, t),
           NEW i \in DOMAIN t, t[i].status # "complete",
           rs[t[i].round].type # "multi_agent_review",
           NEW output \in Texts, NEW assess \in {"converged", "more_work_needed"}
    PROVE  LET t2 == Respond(t, i, output, assess)
           IN  /\ Active(rs, t, t[i].round)
               /\ ~Active(rs, t2, t[i].round)
               /\ Moved(rs, t, rs, t2)
<1> DEFINE t2 == Respond(t, i, output, assess)
           row == [t[i] EXCEPT !.output = output, !.assess = assess, !.status = "complete"]
<1>1. t \in Seq(Iteration) /\ t[i] \in Iteration /\ Len(t) \in Nat
  BY DEF Tables
<1>2. t2 = [t EXCEPT ![i] = row]
  BY <1>1 DEF Respond, Iteration
<1>3. SameAsk(t[i], row) /\ row.status = "complete" /\ row.output # None
  BY <1>1, RegistryAssumption DEF Iteration, SameAsk
<1> HIDE DEF row
<1>4. Len(t2) = Len(t) /\ DOMAIN t2 = DOMAIN t
      /\ \A j \in DOMAIN t : t2[j] = IF j = i THEN row ELSE t[j]
  BY <1>1, <1>2
<1> HIDE DEF t2
<1>5. Moved(rs, t, rs, t2)
  BY <1>3, <1>4 DEF Moved, SameAsk
<1>6. Active(rs, t, t[i].round)
  BY DEF Active, IterationsOf
<1>7. ~Active(rs, t2, t[i].round)
  BY <1>3, <1>4 DEF Active, IterationsOf, Track, OneOpenRequest, SameAsk
<1> QED
  BY <1>5, <1>6, <1>7 DEF t2

-----------------------------------------------------------------------------
(***************************************************************************)
(* Spawning from quiet tables.                                             *)
(***************************************************************************)
\* Rounds of one type are added, and requests with one input for them.
Spawned(rs, t, type, input) ==
    /\ Tables(rounds', iters')
    /\ Len(rs) <= Len(rounds')
    /\ \A r \in DOMAIN rs : rounds'[r] = rs[r]
    /\ \A r \in DOMAIN rounds' :
           r > Len(rs) => rounds'[r].type = type /\ rounds'[r].status = "in_progress"
    /\ Extends(t, iters')
    /\ \A i \in DOMAIN iters' :
           i > Len(t) => /\ iters'[i].round > Len(rs) /\ iters'[i].input = input
                         /\ iters'[i].status = "awaiting_nudge"

LEMMA SpawnedIsOnTrack ==
    ASSUME NEW rs, NEW t, Tables(rs, t), Quiet(rs, t),
           NEW type, NEW input, Spawned(rs, t, type, input),
           type # "same_host_pair" => Len(rounds') <= Len(rs) + 1,
           type \notin {"same_host_pair", "multi_agent_review"} => Len(iters') <= Len(t) + 1,
           type = "same_host_pair" =>
               \A i, j \in DOMAIN iters' :
                   i > Len(t) /\ j > Len(t) /\ iters'[i].round = iters'[j].round => i = j,
           type \in {"multi_agent_review", "execute"} => input = Draft(Round2Outcome(rs))
    PROVE  Track(rounds', iters')
<1>1. /\ rs \in Seq(Round) /\ rounds' \in Seq(Round) /\ Len(rs) \in Nat /\ Len(rounds') \in Nat
      /\ Len(t) \in Nat /\ Len(iters') \in Nat
      /\ DOMAIN rs = 1..Len(rs) /\ DOMAIN rounds' = 1..Len(rounds')
      /\ DOMAIN t = 1..Len(t) /\ DOMAIN iters' = 1..Len(iters')
      /\ \A i \in DOMAIN t : t[i].round \in DOMAIN rs
      /\ \A i \in DOMAIN iters' : iters'[i].round \in DOMAIN rounds'
  BY DEF Spawned, Tables
<1>2. /\ Len(rs) <= Len(rounds')
      /\ \A r \in DOMAIN rs : rounds'[r] = rs[r]
      /\ \A r \in DOMAIN rounds' :
             r > Len(rs) => rounds'[r].type = type /\ rounds'[r].status = "in_progress"
      /\ \A i \in DOMAIN iters' :
             i > Len(t) => iters'[i].round > Len(rs) /\ iters'[i].input = input
  BY DEF Spawned
<1>3. Len(t) <= Len(iters') /\ \A i \in DOMAIN t : iters'[i] = t[i]
  BY DEF Spawned, Extends
<1>4. ASSUME NEW r \in DOMAIN rs
      PROVE  ~Active(rounds', iters', r)
  <2>1. IterationsOf(iters', r) = IterationsOf(t, r)
    BY <1>1, <1>2, <1>3 DEF IterationsOf
  <2>2. \A i \in IterationsOf(t, r) : iters'[i] = t[i]
    BY <1>3 DEF IterationsOf
  <2> QED
    BY <1>2, <2>1, <2>2 DEF Quiet, Active
<1>5. \A r \in DOMAIN rounds' : Active(rounds', iters', r) => r > Len(rs)
  BY <1>1, <1>4
<1>6. OneTrack(rounds', iters')
  <2>1. CASE type = "same_host_pair"
    BY <1>2, <1>5, <2>1 DEF OneTrack
  <2>2. CASE type # "same_host_pair"
    <3>1. \A r \in DOMAIN rounds' : r > Len(rs) => r = Len(rs) + 1
      BY <1>1, <2>2
    <3> QED
      BY <1>5, <3>1 DEF OneTrack
  <2> QED
    BY <2>1, <2>2
<1>7. OneOpenRequest(rounds', iters')
  <2> SUFFICES ASSUME NEW i \in DOMAIN iters', NEW j \in DOMAIN iters',
                      iters'[i].round = iters'[j].round,
                      rounds'[iters'[i].round].type # "multi_agent_review",
                      iters'[i].status # "complete", iters'[j].status # "complete"
               PROVE  i = j
    BY DEF OneOpenRequest
  <2> DEFINE r == iters'[i].round
  <2>1. r \in DOMAIN rounds' /\ Active(rounds', iters', r)
    BY <1>1 DEF Active, IterationsOf
  <2>2. r > Len(rs)
    BY <1>5, <2>1
  <2>3. i > Len(t) /\ j > Len(t)
    <3>1. i \notin DOMAIN t /\ j \notin DOMAIN t
      BY <1>1, <1>3, <2>2
    <3> QED
      BY <1>1, <3>1
  <2>4. rounds'[r].type = type
    BY <1>2, <2>1, <2>2
  <2>5. CASE type = "same_host_pair"
    BY <2>3, <2>5
  <2>6. CASE type # "same_host_pair"
    BY <1>1, <2>3, <2>4, <2>6
  <2> QED
    BY <2>5, <2>6
<1>8. ASSUME NEW r \in DOMAIN rounds', Active(rounds', iters', r)
      PROVE  UpToDate(rounds', iters', r)
  <2>1. r > Len(rs) /\ rounds'[r].type = type /\ rounds'[r].status = "in_progress"
    BY <1>2, <1>5, <1>8
  <2>2. CASE type = "cross_host_arbitration"
    <3>1. \A q \in DOMAIN rounds' : q <= r
      BY <1>1, <2>1, <2>2
    <3> QED
      BY <2>1, <2>2, <3>1 DEF UpToDate, RoundsOfType
  <2>3. CASE type \in {"multi_agent_review", "execute"}
    <3>1. Round2Outcome(rounds') = Round2Outcome(rs)
      BY <1>1, <1>2, <2>3, Round2OutcomeStays
    <3>2. \A i \in IterationsOf(iters', r) : i > Len(t)
      BY <1>1, <1>3, <2>1 DEF IterationsOf
    <3>3. \A i \in IterationsOf(iters', r) : iters'[i].input = Draft(Round2Outcome(rs))
      BY <1>2, <2>3, <3>2 DEF IterationsOf
    <3> QED
      BY <2>1, <2>3, <3>1, <3>3 DEF UpToDate
  <2> QED
    BY <2>1, <2>2, <2>3 DEF UpToDate
<1> QED
  BY <1>6, <1>7, <1>8 DEF Track

\* A round is added and one request for it, or none.
LEMMA OneRoundIsSpawned ==
    ASSUME NEW rs, NEW t, Tables(rs, t), NEW type, NEW input,
           Tables(rounds', iters'), rounds' = Append(rs, NewRound(type, None)),
           \/ iters' = t
           \/ \E n, dst : iters' = Append(t, NewIteration(Len(rs) + 1, n, None, dst, input))
    PROVE  /\ Spawned(rs, t, type, input)
           /\ Len(rounds') = Len(rs) + 1
           /\ Len(iters') <= Len(t) + 1
<1> DEFINE rd == NewRound(type, None)
<1>1. rd.type = type /\ rd.status = "in_progress"
  BY DEF NewRound
<1>2. /\ rs \in Seq(Round) /\ Len(rs) \in Nat /\ t \in Seq(Iteration) /\ Len(t) \in Nat
  BY DEF Tables
<1> HIDE DEF rd
<1>3. /\ Len(rounds') = Len(rs) + 1 /\ \A r \in DOMAIN rs : rounds'[r] = rs[r]
      /\ DOMAIN rounds' = 1..(Len(rs) + 1) /\ rounds'[Len(rs) + 1] = rd
  BY <1>2 DEF rd
<1>4. CASE iters' = t
  BY <1>1, <1>2, <1>3, <1>4 DEF Spawned, Extends
<1>5. ASSUME NEW n, NEW dst,
             iters' = Append(t, NewIteration(Len(rs) + 1, n, None, dst, input))
      PROVE  /\ Spawned(rs, t, type, input)
             /\ Len(iters') <= Len(t) + 1
  <2> DEFINE it == NewIteration(Len(rs) + 1, n, None, dst, input)
  <2>1. it.round = Len(rs) + 1 /\ it.input = input /\ it.status = "awaiting_nudge"
    BY DEF NewIteration
  <2>2. iters' = Append(t, it)
    BY <1>5
  <2> HIDE DEF it
  <2>3. /\ Len(iters') = Len(t) + 1 /\ \A i \in DOMAIN t : iters'[i] = t[i]
        /\ DOMAIN iters' = 1..(Len(t) + 1) /\ iters'[Len(t) + 1] = it
    BY <1>2, <2>2
  <2> QED
    BY <1>1, <1>2, <1>3, <2>1, <2>3 DEF Spawned, Extends
<1> QED
  BY <1>2, <1>3, <1>4, <1>5

LEMMA SpawnRound2OnTrack ==
    ASSUME NEW rs, NEW t, Tables(rs, t), Quiet(rs, t), NEW input \in Inputs,
           SpawnRound2(rs, t, input)
    PROVE  Spawned(rs, t, "cross_host_arbitration", input) /\ Track(rounds', iters')
<1>1. Tables(rounds', iters')
  BY SpawnRound2Keeps DEF Kept
<1>2. /\ rounds' = Append(rs, NewRound("cross_host_arbitration", None))
      /\ \E n, dst : iters' = Append(t, NewIteration(Len(rs) + 1, n, None, dst, input))
  BY DEF SpawnRound2, SpawnIteration
<1>3. /\ Spawned(rs, t, "cross_host_arbitration", input)
      /\ Len(rounds') = Len(rs) + 1 /\ Len(iters') <= Len(t) + 1
  BY <1>1, <1>2, OneRoundIsSpawned
<1>4. Len(rs) \in Nat
  BY DEF Tables
<1> QED
  BY <1>3, <1>4, SpawnedIsOnTrack

LEMMA SpawnExecuteRoundOnTrack ==
    ASSUME NEW rs, NEW t, Tables(rs, t), Quiet(rs, t), session \in SessionStatuses,
           SpawnExecuteRound(rs, t)
    PROVE  /\ Spawned(rs, t, "execute", Draft(Round2Outcome(rs)))
           /\ Track(rounds', iters')
<1> DEFINE input == Draft(Round2Outcome(rs))
<1>1. Tables(rounds', iters')
  BY SpawnExecuteRoundKeeps DEF Kept
<1>2. /\ rounds' = Append(rs, NewRound("execute", None))
      /\ \/ iters' = t
         \/ \E n, dst : iters' = Append(t, NewIteration(Len(rs) + 1, n, None, dst, input))
  BY DEF SpawnExecuteRound, SpawnIteration
<1>3. /\ Spawned(rs, t, "execute", input)
      /\ Len(rounds') = Len(rs) + 1 /\ Len(iters') <= Len(t) + 1
  BY <1>1, <1>2, OneRoundIsSpawned
<1>4. Len(rs) \in Nat
  BY DEF Tables
<1> QED
  BY <1>3, <1>4, SpawnedIsOnTrack

LEMMA SpawnRound3OnTrack ==
    ASSUME NEW rs, NEW t, Tables(rs, t), Quiet(rs, t), NEW input \in Inputs,
           input = Draft(Round2Outcome(rs)), SpawnRound3(rs, t, input)
    PROVE  Spawned(rs, t, "multi_agent_review", input) /\ Track(rounds', iters')
<1> DEFINE n == Cardinality(ExpectedReviewers)
           rd == NewRound("multi_agent_review", None)
<1>1. /\ n \in Nat /\ rounds' = Append(rs, rd) /\ Len(iters') = Len(t) + n
      /\ \A k \in 1..n : /\ iters'[Len(t) + k].round = Len(rs) + 1
                         /\ iters'[Len(t) + k].input = input
                         /\ iters'[Len(t) + k].status = "awaiting_nudge"
  BY SpawnRound3Rows
<1>2. Tables(rounds', iters') /\ Extends(t, iters')
  BY SpawnRound3Keeps DEF Kept
<1>3. /\ rs \in Seq(Round) /\ Len(rs) \in Nat /\ Len(t) \in Nat
      /\ DOMAIN iters' = 1..(Len(t) + n)
  BY <1>1, <1>2 DEF Tables
<1>4. rd.type = "multi_agent_review" /\ rd.status = "in_progress"
  BY DEF NewRound
<1> HIDE DEF rd
<1>5. /\ Len(rounds') = Len(rs) + 1 /\ \A r \in DOMAIN rs : rounds'[r] = rs[r]
      /\ \A r \in DOMAIN rounds' : r > Len(rs) => rounds'[r] = rd
  BY <1>1, <1>3
<1>6. ASSUME NEW i \in DOMAIN iters', i > Len(t)
      PROVE  /\ iters'[i].round > Len(rs) /\ iters'[i].input = input
             /\ iters'[i].status = "awaiting_nudge"
  <2>1. i - Len(t) \in 1..n /\ i = Len(t) + (i - Len(t))
    BY <1>1, <1>3, <1>6
  <2>2. /\ iters'[i].round = Len(rs) + 1 /\ iters'[i].input = input
        /\ iters'[i].status = "awaiting_nudge"
    BY <1>1, <2>1
  <2> QED
    BY <1>3, <2>2
<1>7. Spawned(rs, t, "multi_agent_review", input)
  BY <1>2, <1>3, <1>4, <1>5, <1>6 DEF Spawned
<1> QED
  BY <1>3, <1>5, <1>7, SpawnedIsOnTrack

LEMMA SpawnRound1OnTrack ==
    ASSUME NEW rs, NEW t, Tables(rs, t), Quiet(rs, t), NEW input \in Inputs,
           NEW status \in SessionStatuses, SpawnRound1(rs, t, input, status)
    PROVE  /\ Spawned(rs, t, "same_host_pair", input) /\ Track(rounds', iters')
           /\ \A i, j \in DOMAIN iters' :
                  i > Len(t) /\ j > Len(t) /\ iters'[i].round = iters'[j].round => i = j
<1> DEFINE n == Cardinality(ReadyHosts)
<1>1. Tables(rounds', iters') /\ Extends(t, iters')
  BY SpawnRound1Keeps DEF Kept
<1>2. /\ n \in Nat /\ Len(rounds') = Len(rs) + n /\ Len(iters') = Len(t) + n
      /\ \A r \in 1..Len(rs) : rounds'[r] = rs[r]
  BY SpawnRound1Rows
<1>3. /\ Len(rs) \in Nat /\ Len(t) \in Nat /\ DOMAIN rs = 1..Len(rs)
      /\ DOMAIN rounds' = 1..(Len(rs) + n) /\ DOMAIN iters' = 1..(Len(t) + n)
  BY <1>1, <1>2 DEF Tables
<1>4. ASSUME NEW r \in DOMAIN rounds', r > Len(rs)
      PROVE  rounds'[r].type = "same_host_pair" /\ rounds'[r].status = "in_progress"
  <2>1. r - Len(rs) \in 1..n /\ r = Len(rs) + (r - Len(rs))
    BY <1>2, <1>3, <1>4
  <2>2. rounds'[r] = NewRound("same_host_pair", HostOrder[r - Len(rs)])
    BY <2>1, SpawnRound1Rows
  <2> QED
    BY <2>2 DEF NewRound
<1>5. ASSUME NEW i \in DOMAIN iters', i > Len(t)
      PROVE  /\ iters'[i].round = Len(rs) + (i - Len(t)) /\ iters'[i].input = input
             /\ iters'[i].status = "awaiting_nudge"
  <2> DEFINE k == i - Len(t)
  <2>1. k \in 1..n /\ i = Len(t) + k
    BY <1>2, <1>3, <1>5
  <2>2. iters'[i] = NewIteration(Len(rs) + k, 1, None, Workers[HostOrder[k]][1], input)
    BY <2>1, SpawnRound1Rows
  <2> HIDE DEF k
  <2>3. /\ iters'[i].round = Len(rs) + k /\ iters'[i].input = input
        /\ iters'[i].status = "awaiting_nudge"
    BY <2>2 DEF NewIteration
  <2> QED
    BY <2>3 DEF k
<1>6. Spawned(rs, t, "same_host_pair", input)
  <2>1. \A i \in DOMAIN iters' :
            i > Len(t) => /\ iters'[i].round > Len(rs) /\ iters'[i].input = input
                          /\ iters'[i].status = "awaiting_nudge"
    BY <1>3, <1>5
  <2> QED
    BY <1>1, <1>2, <1>3, <1>4, <2>1 DEF Spawned
<1>7. \A i, j \in DOMAIN iters' :
          i > Len(t) /\ j > Len(t) /\ iters'[i].round = iters'[j].round => i = j
  BY <1>3, <1>5
<1>8. Track(rounds', iters')
  BY <1>6, <1>7, SpawnedIsOnTrack
<1> QED
  BY <1>6, <1>7, <1>8

-----------------------------------------------------------------------------
(***************************************************************************)
(* The past of a session: what was decided stays decided.                  *)
(***************************************************************************)
\* Review round r is over; it showed its reviewers nothing but input.
Over(r) == rounds[r].type = "multi_agent_review" /\ rounds[r].status # "in_progress"
Shown(r, input) == \A i \in IterationsOf(iters, r) : iters[i].input = input

ExecutionApproved(e) ==
    rounds[iters[e].round].type = "execute" =>
        \E r \in DOMAIN rounds :
            /\ r < iters[e].round
            /\ Over(r)
            /\ ExpectedReviewers \subseteq ReviewersOf(reviews, r)
            /\ RejectersOf(reviews, r) = {}
            /\ Shown(r, iters[e].input)

MediationBacked(i) ==
    iters[i].input.kind = "mediate" =>
        \E r \in DOMAIN rounds :
            /\ r < iters[i].round
            /\ Over(r)
            /\ RejectersOf(reviews, r) = iters[i].input.rejecters
            /\ Shown(r, Draft(iters[i].input.prior))

FinalExecuted ==
    finalized # None =>
        \E e \in DOMAIN iters :
            /\ rounds[iters[e].round].type = "execute"
            /\ iters[e].status = "complete"
            /\ iters[e].assess = "converged"
            /\ iters[e].input = Draft(finalized)

PastInv ==
    /\ \A i \in DOMAIN iters : ExecutionApproved(i) /\ MediationBacked(i)
    /\ FinalExecuted

\* Rounds keep their type and do not start again, requests keep their round
\* and input, and no request is added to a review round that was there.
TablesKept ==
    /\ Len(rounds) <= Len(rounds')
    /\ \A r \in DOMAIN rounds :
           /\ rounds'[r].type = rounds[r].type
           /\ rounds'[r].status = "in_progress" => rounds[r].status = "in_progress"
    /\ Len(iters) <= Len(iters')
    /\ \A i \in DOMAIN iters :
           iters'[i].round = iters[i].round /\ iters'[i].input = iters[i].input
    /\ \A i \in DOMAIN iters' :
           i > Len(iters) /\ iters'[i].round \in DOMAIN rounds =>
               rounds[iters'[i].round].type # "multi_agent_review"

\* Reviews are only added for rounds that are not over.
ReviewsKept ==
    /\ reviews \subseteq reviews'
    /\ \A v \in reviews' : v \notin reviews => ~Over(v.round)
    /\ skipped \subseteq skipped'

LEMMA OverStays ==
    ASSUME Tables(rounds, iters), Tables(rounds', iters'), TablesKept, ReviewsKept,
           NEW r \in DOMAIN rounds, Over(r)
    PROVE  /\ r \in DOMAIN rounds'
           /\ Over(r)'
           /\ ReviewersOf(reviews', r) = ReviewersOf(reviews, r)
           /\ RejectersOf(reviews', r) = RejectersOf(reviews, r)
           /\ IterationsOf(iters', r) = IterationsOf(iters, r)
           /\ \A i \in IterationsOf(iters, r) : iters'[i].input = iters[i].input
           /\ ExpectedReviewers' \subseteq ExpectedReviewers
<1>1. /\ Len(rounds) \in Nat /\ Len(rounds') \in Nat /\ Len(iters) \in Nat /\ Len(iters') \in Nat
      /\ DOMAIN rounds = 1..Len(rounds) /\ DOMAIN rounds' = 1..Len(rounds')
      /\ DOMAIN iters = 1..Len(iters) /\ DOMAIN iters' = 1..Len(iters')
  BY DEF Tables
<1>2. r \in DOMAIN rounds'
  BY <1>1 DEF TablesKept
<1>3. Over(r)'
  BY DEF Over, TablesKept
<1>4. \A v \in reviews' : v.round = r => v \in reviews
  BY DEF ReviewsKept
<1>5. /\ ReviewersOf(reviews', r) = ReviewersOf(reviews, r)
      /\ RejectersOf(reviews', r) = RejectersOf(reviews, r)
  BY <1>4 DEF ReviewsKept, ReviewersOf, RejectersOf
<1>6. IterationsOf(iters', r) = IterationsOf(iters, r)
  <2>1. \A i \in DOMAIN iters' : i > Len(iters) => iters'[i].round # r
    BY DEF TablesKept, Over
  <2>2. \A i \in DOMAIN iters : i \in DOMAIN iters' /\ iters'[i].round = iters[i].round
    BY <1>1 DEF TablesKept
  <2>3. \A i \in DOMAIN iters' : i > Len(iters) \/ i \in DOMAIN iters
    BY <1>1
  <2> QED
    BY <2>1, <2>2, <2>3 DEF IterationsOf
<1>7. \A i \in IterationsOf(iters, r) : iters'[i].input = iters[i].input
  BY DEF IterationsOf, TablesKept
<1>8. ExpectedReviewers' \subseteq ExpectedReviewers
  BY DEF ExpectedReviewers, ReviewsKept
<1> QED
  BY <1>2, <1>3, <1>5, <1>6, <1>7, <1>8

LEMMA PastStays ==
    ASSUME Tables(rounds, iters), Tables(rounds', iters'), TablesKept, ReviewsKept, PastInv,
           KeepsAnswers(iters, iters'),
           \A i \in DOMAIN iters' :
               i > Len(iters) => ExecutionApproved(i)' /\ MediationBacked(i)',
           finalized' = finalized \/ FinalExecuted'
    PROVE  PastInv'
<1>1. /\ Len(rounds) \in Nat /\ Len(rounds') \in Nat /\ Len(iters) \in Nat /\ Len(iters') \in Nat
      /\ DOMAIN iters = 1..Len(iters) /\ DOMAIN iters' = 1..Len(iters')
      /\ \A i \in DOMAIN iters : iters[i].round \in DOMAIN rounds
  BY DEF Tables
<1>2. ASSUME NEW i \in DOMAIN iters
      PROVE  /\ iters'[i].round = iters[i].round /\ iters'[i].input = iters[i].input
             /\ rounds'[iters[i].round].type = rounds[iters[i].round].type
  BY <1>1 DEF TablesKept
<1>3. ASSUME NEW e \in DOMAIN iters
      PROVE  ExecutionApproved(e)'
  <2> SUFFICES ASSUME rounds[iters[e].round].type = "execute"
               PROVE  \E r \in DOMAIN rounds' :
                          /\ r < iters'[e].round
                          /\ Over(r)'
                          /\ ExpectedReviewers' \subseteq ReviewersOf(reviews', r)
                          /\ RejectersOf(reviews', r) = {}
                          /\ \A i \in IterationsOf(iters', r) : iters'[i].input = iters'[e].input
    BY <1>2 DEF ExecutionApproved, Shown
  <2>1. PICK r \in DOMAIN rounds :
            /\ r < iters[e].round
            /\ Over(r)
            /\ ExpectedReviewers \subseteq ReviewersOf(reviews, r)
            /\ RejectersOf(reviews, r) = {}
            /\ \A i \in IterationsOf(iters, r) : iters[i].input = iters[e].input
    BY DEF PastInv, ExecutionApproved, Shown
  <2>2. /\ r \in DOMAIN rounds' /\ Over(r)'
        /\ ReviewersOf(reviews', r) = ReviewersOf(reviews, r)
        /\ RejectersOf(reviews', r) = RejectersOf(reviews, r)
        /\ IterationsOf(iters', r) = IterationsOf(iters, r)
        /\ \A i \in IterationsOf(iters, r) : iters'[i].input = iters[i].input
        /\ ExpectedReviewers' \subseteq ExpectedReviewers
    BY <2>1, OverStays
  <2> QED
    BY <1>2, <2>1, <2>2
<1>4. ASSUME NEW m \in DOMAIN iters
      PROVE  MediationBacked(m)'
  <2> SUFFICES ASSUME iters[m].input.kind = "mediate"
               PROVE  \E r \in DOMAIN rounds' :
                          /\ r < iters'[m].round
                          /\ Over(r)'
                          /\ RejectersOf(reviews', r) = iters'[m].input.rejecters
                          /\ \A i \in IterationsOf(iters', r) :
                                 iters'[i].input = Draft(iters'[m].input.prior)
    BY <1>2 DEF MediationBacked, Shown
  <2>1. PICK r \in DOMAIN rounds :
            /\ r < iters[m].round
            /\ Over(r)
            /\ RejectersOf(reviews, r) = iters[m].input.rejecters
            /\ \A i \in IterationsOf(iters, r) : iters[i].input = Draft(iters[m].input.prior)
    BY DEF PastInv, MediationBacked, Shown
  <2>2. /\ r \in DOMAIN rounds' /\ Over(r)'
        /\ RejectersOf(reviews', r) = RejectersOf(reviews, r)
        /\ IterationsOf(iters', r) = IterationsOf(iters, r)
        /\ \A i \in IterationsOf(iters, r) : iters'[i].input = iters[i].input
    BY <2>1, OverStays
  <2> QED
    BY <1>2, <2>1, <2>2
<1>5. FinalExecuted'
  <2> SUFFICES ASSUME finalized' = finalized, finalized # None
               PROVE  FinalExecuted'
    BY DEF FinalExecuted
  <2>1. PICK e \in DOMAIN iters :
            /\ rounds[iters[e].round].type = "execute"
            /\ iters[e].status = "complete"
            /\ iters[e].assess = "converged"
            /\ iters[e].input = Draft(finalized)
    BY DEF PastInv, FinalExecuted
  <2>2. e \in DOMAIN iters' /\ iters'[e] = iters[e]
    BY <1>1, <2>1 DEF KeepsAnswers
  <2>3. rounds'[iters[e].round].type = "execute"
    BY <1>2, <2>1
  <2> QED
    BY <2>1, <2>2, <2>3 DEF FinalExecuted
<1>6. \A i \in DOMAIN iters' : i > Len(iters) \/ i \in DOMAIN iters
  BY <1>1
<1> QED
  BY <1>3, <1>4, <1>5, <1>6 DEF PastInv

-----------------------------------------------------------------------------
(***************************************************************************)
(* What a step owes the past and the track.                                *)
(***************************************************************************)
Onward ==
    /\ Track(rounds', iters')
    /\ TablesKept
    /\ ReviewsKept
    /\ \A i \in DOMAIN iters' :
           i > Len(iters) => ExecutionApproved(i)' /\ MediationBacked(i)'
    /\ finalized' = finalized \/ FinalExecuted'

\* A round whose status moves on, with or without an outcome.
LEMMA UpdateRoundMoves ==
    ASSUME NEW rs, NEW t, Tables(rs, t), NEW r \in DOMAIN rs,
           NEW status \in RoundStatuses, status # "in_progress",
           NEW outcome \in Texts \cup {None}
    PROVE  LET rs2 == UpdateRound(rs, r, status, outcome)
           IN  /\ Tables(rs2, t)
               /\ Moved(rs, t, rs2, t)
               /\ rs2[r].status = status
               /\ outcome # None => rs2[r].outcome = outcome
               /\ outcome = None => rs2[r].outcome = rs[r].outcome
               /\ \A q \in DOMAIN rs : q # r => rs2[q] = rs[q]
<1> DEFINE rs2 == UpdateRound(rs, r, status, outcome)
           row == [rs[r] EXCEPT !.status = status,
                                !.outcome = IF outcome = None THEN @ ELSE outcome]
<1>1. rs \in Seq(Round) /\ Len(rs) \in Nat /\ rs[r] \in Round
  BY DEF Tables
<1>2. /\ row.type = rs[r].type /\ row.host = rs[r].host /\ row.status = status
      /\ row.outcome = IF outcome = None THEN rs[r].outcome ELSE outcome
  BY <1>1 DEF Round
<1>3. rs2 = [rs EXCEPT ![r] = row]
  BY <1>1 DEF UpdateRound, Round
<1>4. Tables(rs2, t) /\ Len(rs2) = Len(rs)
  BY UpdateRoundKeeps
<1> HIDE DEF row, rs2
<1>5. rs2[r] = row /\ \A q \in DOMAIN rs : q # r => rs2[q] = rs[q]
  BY <1>1, <1>3
<1>6. Moved(rs, t, rs2, t)
  BY <1>2, <1>4, <1>5 DEF Moved, SameAsk
<1> QED
  BY <1>2, <1>4, <1>5, <1>6 DEF rs2

\* Only the outcome of an arbitration counts.
LEMMA UpdateRoundKeepsSynthesis ==
    ASSUME NEW rs, NEW t, Tables(rs, t), NEW r \in DOMAIN rs,
           NEW status \in RoundStatuses, status # "in_progress",
           NEW outcome \in Texts \cup {None},
           outcome = None \/ rs[r].type # "cross_host_arbitration"
    PROVE  Round2Outcome(UpdateRound(rs, r, status, outcome)) = Round2Outcome(rs)
<1> DEFINE rs2 == UpdateRound(rs, r, status, outcome)
<1>1. /\ Tables(rs2, t) /\ Moved(rs, t, rs2, t)
      /\ outcome = None => rs2[r].outcome = rs[r].outcome
      /\ \A q \in DOMAIN rs : q # r => rs2[q] = rs[q]
  BY UpdateRoundMoves
<1> HIDE DEF rs2
<1>2. /\ rs \in Seq(Round) /\ rs2 \in Seq(Round) /\ Len(rs2) = Len(rs) /\ Len(rs) \in Nat
      /\ \A q \in DOMAIN rs : rs2[q].type = rs[q].type
  BY <1>1 DEF Tables, Moved
<1>3. Round2Outcome(rs2) = Round2Outcome(rs)
  BY <1>1, <1>2, Round2OutcomeStays
<1> QED
  BY <1>3 DEF rs2

\* When what was active alone is done, nothing is active.
LEMMA DoneIsQuiet ==
    ASSUME NEW rs, NEW t, Tables(rs, t), Track(rs, t),
           NEW r \in DOMAIN rs, Active(rs, t, r), rs[r].type # "same_host_pair",
           NEW rs2, NEW t2, Tables(rs2, t2), Moved(rs, t, rs2, t2), ~Active(rs2, t2, r)
    PROVE  Quiet(rs2, t2)
<1>1. DOMAIN rs2 = DOMAIN rs
  BY DEF Moved, Tables
<1>2. \A q \in DOMAIN rs : Active(rs2, t2, q) => Active(rs, t, q)
  BY MovedIsLessActive
<1> QED
  BY <1>1, <1>2 DEF Track, OneTrack, Quiet

\* Rows are rewritten and nothing is added.
LEMMA MovedKeepsTables ==
    ASSUME Tables(rounds, iters), Moved(rounds, iters, rounds', iters'), Tables(rounds', iters')
    PROVE  /\ TablesKept
           /\ \A i \in DOMAIN iters' :
                  i > Len(iters) => ExecutionApproved(i)' /\ MediationBacked(i)'
<1>1. Len(rounds) \in Nat /\ Len(iters) \in Nat
  BY DEF Tables
<1>2. Len(rounds') = Len(rounds) /\ Len(iters') = Len(iters) /\ DOMAIN iters' = 1..Len(iters)
  BY DEF Tables, Moved
<1>3. \A i \in DOMAIN iters' : ~(i > Len(iters))
  BY <1>1, <1>2
<1> QED
  BY <1>1, <1>2, <1>3 DEF Moved, SameAsk, TablesKept

\* Rows are rewritten, then rounds are added with their requests.
LEMMA SpawnedKeepsTables ==
    ASSUME Tables(rounds, iters), NEW rs, NEW t, Tables(rs, t), Moved(rounds, iters, rs, t),
           NEW type, NEW input, Spawned(rs, t, type, input)
    PROVE  /\ TablesKept
           /\ \A i \in DOMAIN iters' : i > Len(iters) =>
                  /\ iters'[i].round > Len(rounds)
                  /\ iters'[i].input = input
                  /\ rounds'[iters'[i].round].type = type
           /\ \A i \in DOMAIN iters' : iters'[i].round \in DOMAIN rounds => i \in DOMAIN iters
<1>1. /\ Len(rounds) \in Nat /\ Len(iters) \in Nat /\ Len(rs) = Len(rounds) /\ Len(t) = Len(iters)
      /\ DOMAIN rs = DOMAIN rounds /\ DOMAIN t = DOMAIN iters
      /\ DOMAIN rounds = 1..Len(rounds) /\ DOMAIN iters = 1..Len(iters)
  BY DEF Tables, Moved
<1>2. /\ Len(iters') \in Nat /\ DOMAIN iters' = 1..Len(iters')
      /\ \A i \in DOMAIN iters' : iters'[i].round \in DOMAIN rounds'
  BY DEF Spawned, Tables
<1>3. ASSUME NEW i \in DOMAIN iters', i > Len(iters)
      PROVE  /\ iters'[i].round > Len(rounds)
             /\ iters'[i].input = input
             /\ rounds'[iters'[i].round].type = type
  BY <1>1, <1>2, <1>3 DEF Spawned
<1>4. \A r \in DOMAIN rounds :
          /\ rounds'[r].type = rounds[r].type
          /\ rounds'[r].status = "in_progress" => rounds[r].status = "in_progress"
  BY <1>1 DEF Spawned, Moved
<1>5. \A i \in DOMAIN iters :
          iters'[i].round = iters[i].round /\ iters'[i].input = iters[i].input
  BY <1>1 DEF Spawned, Extends, Moved, SameAsk
<1>6. \A i \in DOMAIN iters' : i > Len(iters) => iters'[i].round \notin DOMAIN rounds
  BY <1>1, <1>3
<1>7. Len(rounds) <= Len(rounds') /\ Len(iters) <= Len(iters')
  BY <1>1 DEF Spawned, Extends
<1>8. TablesKept
  BY <1>4, <1>5, <1>6, <1>7 DEF TablesKept
<1>9. \A i \in DOMAIN iters' : iters'[i].round \in DOMAIN rounds => i \in DOMAIN iters
  BY <1>1, <1>2, <1>6
<1> QED
  BY <1>3, <1>8, <1>9

\* New requests that neither execute nor mediate need no review behind them.
LEMMA PlainRowsAreBacked ==
    ASSUME NEW type, type # "execute", NEW input, input.kind # "mediate",
           NEW i, iters'[i].input = input, rounds'[iters'[i].round].type = type
    PROVE  ExecutionApproved(i)' /\ MediationBacked(i)'
BY DEF ExecutionApproved, MediationBacked

LEMMA NoNewReviews ==
    ASSUME UNCHANGED reviews, skipped \subseteq skipped'
    PROVE  ReviewsKept
BY DEF ReviewsKept

-----------------------------------------------------------------------------
(***************************************************************************)
(* The steps.                                                              *)
(***************************************************************************)
ApprovalInv ==
    /\ TypeInv
    /\ session = "none" => rounds = <<>>
    /\ Track(rounds, iters)
    /\ PastInv

LEMMA ApprovalTables ==
    ASSUME ApprovalInv
    PROVE  /\ Tables(rounds, iters) /\ Track(rounds, iters)
           /\ rounds \in Seq(Round) /\ iters \in Seq(Iteration)
           /\ Len(rounds) \in Nat /\ Len(iters) \in Nat
BY TypeInvTables DEF ApprovalInv, Tables

\* A request is added to the pair round that was active before.
LEMMA NextRequestOnTrack ==
    ASSUME NEW rs, NEW t, Tables(rs, t), Track(rs, t),
           NEW r \in DOMAIN rs, rs[r].type = "same_host_pair", rs[r].status # "converged",
           ~Active(rs, t, r),
           \A q \in DOMAIN rs : Active(rs, t, q) => rs[q].type = "same_host_pair",
           NEW it, it.round = r, Tables(rs, Append(t, it))
    PROVE  Track(rs, Append(t, it))
<1> DEFINE t2 == Append(t, it)
<1>1. /\ t \in Seq(Iteration) /\ Len(t) \in Nat
      /\ \A i \in DOMAIN t : t[i].round \in DOMAIN rs
  BY DEF Tables
<1>2. /\ DOMAIN t = 1..Len(t) /\ DOMAIN t2 = 1..(Len(t) + 1) /\ t2[Len(t) + 1] = it
      /\ \A i \in DOMAIN t : t2[i] = t[i]
  BY <1>1
<1> HIDE DEF t2
<1>3. ASSUME NEW q \in DOMAIN rs, q # r
      PROVE  IterationsOf(t2, q) = IterationsOf(t, q)
  BY <1>1, <1>2, <1>3 DEF IterationsOf
<1>4. ASSUME NEW q \in DOMAIN rs, q # r, Active(rs, t2, q)
      PROVE  Active(rs, t, q)
  <2>1. \A i \in IterationsOf(t, q) : t2[i] = t[i]
    BY <1>2 DEF IterationsOf
  <2> QED
    BY <1>3, <1>4, <2>1 DEF Active
<1>5. \A q \in DOMAIN rs : Active(rs, t2, q) => rs[q].type = "same_host_pair"
  BY <1>4
<1>6. OneTrack(rs, t2)
  BY <1>5 DEF OneTrack
<1>7. OneOpenRequest(rs, t2)
  <2> SUFFICES ASSUME NEW i \in DOMAIN t2, NEW j \in DOMAIN t2,
                      t2[i].round = t2[j].round,
                      rs[t2[i].round].type # "multi_agent_review",
                      t2[i].status # "complete", t2[j].status # "complete"
               PROVE  i = j
    BY DEF OneOpenRequest
  <2>1. \A k \in DOMAIN t : t[k].round = r => t[k].status = "complete"
    BY DEF Active, IterationsOf
  <2>2. \A k \in DOMAIN t2 : k \in DOMAIN t \/ k = Len(t) + 1
    BY <1>1, <1>2
  <2>3. CASE i \in DOMAIN t /\ j \in DOMAIN t
    BY <1>2, <2>3 DEF Track, OneOpenRequest
  <2> QED
    BY <1>2, <2>1, <2>2, <2>3
<1>8. ASSUME NEW q \in DOMAIN rs, Active(rs, t2, q)
      PROVE  UpToDate(rs, t2, q)
  <2>1. rs[q].type = "same_host_pair"
    BY <1>5, <1>8
  <2>2. rs[q].status # "converged"
    <3>1. CASE q = r
      BY <3>1
    <3>2. CASE q # r
      BY <1>4, <1>8, <2>1, <3>2 DEF Track, UpToDate
    <3> QED
      BY <3>1, <3>2
  <2> QED
    BY <2>1, <2>2 DEF UpToDate
<1> QED
  BY <1>6, <1>7, <1>8 DEF Track, t2

\* Advancing when a pair has converged: on to the arbitrator from quiet tables,
\* or to no new row at all.
LEMMA MaybeAdvanceOnward ==
    ASSUME ApprovalInv, NEW rs, NEW t, Tables(rs, t), Moved(rounds, iters, rs, t),
           Track(rs, t),
           \A q \in DOMAIN rs : Active(rs, t, q) =>
               rs[q].type = "same_host_pair" /\ rs[q].status # "converged",
           MaybeAdvanceToRound2(rs, t), UNCHANGED <<reviews, skipped, finalized>>
    PROVE  Onward
<1> DEFINE input == ArbitratorInput(RoundOutcomesPerHost(rs))
<1>1. Tables(rounds, iters)
  BY ApprovalTables
<1>2. ReviewsKept
  BY NoNewReviews
<1>3. \/ rounds' = rs /\ iters' = t
      \/ /\ SpawnRound2(rs, t, input)
         /\ \A r \in RoundsOfType(rs, "same_host_pair") : rs[r].status = "converged"
  BY DEF MaybeAdvanceToRound2
<1>4. input \in Inputs /\ input.kind = "arbitrate"
  BY OutcomesAreInput DEF Tables, ArbitratorInput
<1> HIDE DEF input
<1>5. ASSUME rounds' = rs, iters' = t
      PROVE  Onward
  BY <1>1, <1>2, <1>5, MovedKeepsTables DEF Onward
<1>6. ASSUME SpawnRound2(rs, t, input),
             \A r \in RoundsOfType(rs, "same_host_pair") : rs[r].status = "converged"
      PROVE  Onward
  <2>1. Quiet(rs, t)
    BY <1>6 DEF Quiet, RoundsOfType
  <2>2. Spawned(rs, t, "cross_host_arbitration", input) /\ Track(rounds', iters')
    BY <1>4, <1>6, <2>1, SpawnRound2OnTrack
  <2>3. /\ TablesKept
        /\ \A i \in DOMAIN iters' : i > Len(iters) =>
               /\ iters'[i].input = input
               /\ rounds'[iters'[i].round].type = "cross_host_arbitration"
    BY <1>1, <2>2, SpawnedKeepsTables
  <2>4. \A i \in DOMAIN iters' :
            i > Len(iters) => ExecutionApproved(i)' /\ MediationBacked(i)'
    BY <1>4, <2>3, PlainRowsAreBacked
  <2> QED
    BY <1>2, <2>2, <2>3, <2>4 DEF Onward
<1> QED
  BY <1>3, <1>5, <1>6

\* What an answer in a pair round leaves: the round is not active until it is
\* asked again, and other pairs at most are.
LEMMA PairAnswered ==
    ASSUME ApprovalInv, NEW i, NEW output, NEW assess \in {"converged", "more_work_needed"},
           RespondInRound1(i, output, assess)
    PROVE  LET t == Respond(iters, i, output, assess)
               r == iters[i].round
           IN  /\ i \in DOMAIN iters /\ iters[i].status # "complete" /\ output \in Texts
               /\ r \in DOMAIN rounds
               /\ rounds[r].type = "same_host_pair" /\ rounds[r].status # "converged"
               /\ Tables(rounds, t) /\ Answered(t, r) # {}
               /\ Active(rounds, iters, r) /\ ~Active(rounds, t, r)
               /\ Moved(rounds, iters, rounds, t)
               /\ \A q \in DOMAIN rounds : Active(rounds, t, q) =>
                      /\ q # r
                      /\ rounds[q].type = "same_host_pair"
                      /\ rounds[q].status # "converged"
               /\ AdvanceRound1(t, r)
               /\ UNCHANGED <<reviews, skipped, finalized>>
<1> DEFINE t == Respond(iters, i, output, assess)
           r == iters[i].round
<1>1. Tables(rounds, iters) /\ Track(rounds, iters)
  BY ApprovalTables
<1>2. i \in DOMAIN iters /\ iters[i].status # "complete" /\ output \in Texts
  BY DEF RespondInRound1, CanRespond, Texts
<1>3. r \in DOMAIN rounds /\ rounds[r].type = "same_host_pair"
  BY <1>1, <1>2 DEF RespondInRound1, CanRespond, Tables
<1>4. Tables(rounds, t) /\ Answered(t, r) # {}
  BY <1>1, <1>2, RespondKeeps
<1>5. /\ Active(rounds, iters, r) /\ ~Active(rounds, t, r)
      /\ Moved(rounds, iters, rounds, t)
  BY <1>1, <1>2, <1>3, AnsweredIsInactive
<1>6. AdvanceRound1(t, r) /\ UNCHANGED <<reviews, skipped, finalized>>
  BY DEF RespondInRound1
<1> HIDE DEF t, r
<1>7. rounds[r].status # "converged"
  BY <1>1, <1>3, <1>5 DEF Track, UpToDate
<1>8. ASSUME NEW q \in DOMAIN rounds, Active(rounds, t, q)
      PROVE  /\ q # r
             /\ rounds[q].type = "same_host_pair"
             /\ rounds[q].status # "converged"
  <2>1. Active(rounds, iters, q)
    BY <1>1, <1>4, <1>5, <1>8, MovedIsLessActive
  <2>2. rounds[q].type = "same_host_pair"
    BY <1>1, <1>3, <1>5, <2>1 DEF Track, OneTrack
  <2> QED
    BY <1>1, <1>5, <1>8, <2>1, <2>2 DEF Track, UpToDate
<1> QED
  BY <1>2, <1>3, <1>4, <1>5, <1>6, <1>7, <1>8 DEF t, r

\* Closing that pair as well.
ClosedPair(rs, t, r, status, outcome) ==
    /\ Tables(rs, t) /\ Moved(rounds, iters, rs, t) /\ Track(rs, t)
    /\ rs[r].status = status
    /\ outcome # None => rs[r].outcome = outcome
    /\ \A q \in DOMAIN rounds : q # r => rs[q] = rounds[q]
    /\ \A q \in DOMAIN rs : Active(rs, t, q) =>
           q # r /\ rs[q].type = "same_host_pair" /\ rs[q].status # "converged"

LEMMA PairClosed ==
    ASSUME ApprovalInv, NEW i, NEW output, NEW assess \in {"converged", "more_work_needed"},
           RespondInRound1(i, output, assess),
           NEW status \in {"escalated", "converged"}, NEW outcome \in Texts \cup {None}
    PROVE  ClosedPair(UpdateRound(rounds, iters[i].round, status, outcome),
                      Respond(iters, i, output, assess), iters[i].round, status, outcome)
<1> DEFINE t == Respond(iters, i, output, assess)
           r == iters[i].round
           rs == UpdateRound(rounds, r, status, outcome)
<1>1. /\ Tables(rounds, iters) /\ Track(rounds, iters)
      /\ r \in DOMAIN rounds
      /\ Tables(rounds, t) /\ ~Active(rounds, t, r)
      /\ Moved(rounds, iters, rounds, t)
      /\ \A q \in DOMAIN rounds : Active(rounds, t, q) =>
             q # r /\ rounds[q].type = "same_host_pair" /\ rounds[q].status # "converged"
      /\ rounds[r].type = "same_host_pair"
  BY ApprovalTables, PairAnswered
<1> HIDE DEF t, r
<1>2. status \in RoundStatuses /\ status # "in_progress"
  BY DEF RoundStatuses
<1>3. /\ Tables(rs, t) /\ Moved(rounds, t, rs, t)
      /\ rs[r].status = status
      /\ outcome # None => rs[r].outcome = outcome
      /\ \A q \in DOMAIN rounds : q # r => rs[q] = rounds[q]
  BY <1>1, <1>2, UpdateRoundMoves
<1>4. Round2Outcome(rs) = Round2Outcome(rounds)
  BY <1>1, <1>2, UpdateRoundKeepsSynthesis
<1> HIDE DEF rs
<1>5. Moved(rounds, iters, rs, t)
  BY <1>1, <1>3, MovedIsTransitive
<1>6. DOMAIN rs = DOMAIN rounds
  BY <1>1, <1>3 DEF Moved, Tables
<1>7. \A q \in DOMAIN rounds : Active(rs, t, q) => Active(rounds, t, q)
  BY <1>1, <1>3, MovedIsLessActive
<1>8. \A q \in DOMAIN rs : Active(rs, t, q) =>
          q # r /\ rs[q].type = "same_host_pair" /\ rs[q].status # "converged"
  BY <1>1, <1>3, <1>6, <1>7
<1>9. Track(rs, t)
  BY <1>1, <1>3, <1>4, <1>5, <1>6, <1>8, MovedStaysOnTrack
<1> QED
  BY <1>3, <1>5, <1>8, <1>9 DEF ClosedPair, rs, r, t

LEMMA RespondInRound1Onward ==
    ASSUME ApprovalInv, NEW i, NEW output, NEW assess \in {"converged", "more_work_needed"},
           RespondInRound1(i, output, assess), Tables(rounds', iters')
    PROVE  Onward
<1> DEFINE t == Respond(iters, i, output, assess)
           r == iters[i].round
           l == LatestAnswered(t, r)
           it == NewIteration(r, NextNum(t, r), t[l].dst,
                              OtherAgentOnHost(rounds[r].host, t[l].dst), Draft(t[l].output))
<1>1. /\ Tables(rounds, iters) /\ Track(rounds, iters) /\ rounds \in Seq(Round)
      /\ Len(rounds) \in Nat
  BY ApprovalTables
<1>3. r \in DOMAIN rounds /\ rounds[r].type = "same_host_pair"
  BY PairAnswered
<1>4. Tables(rounds, t) /\ Answered(t, r) # {}
  BY PairAnswered
<1>5. ~Active(rounds, t, r) /\ Moved(rounds, iters, rounds, t)
  BY PairAnswered
<1>6. AdvanceRound1(t, r)
  BY PairAnswered
<1>7. ReviewsKept /\ UNCHANGED <<reviews, skipped, finalized>>
  BY NoNewReviews DEF RespondInRound1
<1>8. t[l].output \in Texts
  BY <1>4, LatestAnswerIsText DEF Tables
<1>9. rounds[r].status # "converged"
  BY PairAnswered
<1>10. \A q \in DOMAIN rounds : Active(rounds, t, q) =>
           rounds[q].type = "same_host_pair" /\ rounds[q].status # "converged"
  BY PairAnswered
<1>11. ASSUME NEW status \in {"escalated", "converged"}, NEW outcome \in Texts \cup {None}
       PROVE  LET rs == UpdateRound(rounds, r, status, outcome)
              IN  /\ Tables(rs, t) /\ Moved(rounds, iters, rs, t) /\ Track(rs, t)
                  /\ \A q \in DOMAIN rs : Active(rs, t, q) =>
                         rs[q].type = "same_host_pair" /\ rs[q].status # "converged"
  <2> DEFINE rs == UpdateRound(rounds, r, status, outcome)
  <2>1. ClosedPair(rs, t, r, status, outcome)
    BY PairClosed
  <2> HIDE DEF rs, t, r
  <2> QED
    BY <2>1 DEF ClosedPair, rs
<1> HIDE DEF t, r
<1>12. ASSUME rounds' = UpdateRound(rounds, r, "escalated", None), iters' = t
       PROVE  Onward
  <2>1. Moved(rounds, iters, rounds', iters') /\ Track(rounds', iters')
    BY <1>11, <1>12
  <2> QED
    BY <1>1, <1>7, <2>1, MovedKeepsTables DEF Onward
<1>13. ASSUME MaybeAdvanceToRound2(UpdateRound(rounds, r, "converged", t[l].output), t)
       PROVE  Onward
  <2> DEFINE rs == UpdateRound(rounds, r, "converged", t[l].output)
  <2>1. /\ Tables(rs, t) /\ Moved(rounds, iters, rs, t) /\ Track(rs, t)
        /\ \A q \in DOMAIN rs : Active(rs, t, q) =>
               rs[q].type = "same_host_pair" /\ rs[q].status # "converged"
    BY <1>8, <1>11
  <2>2. MaybeAdvanceToRound2(rs, t)
    BY <1>13
  <2> HIDE DEF rs
  <2> QED
    BY <1>7, <2>1, <2>2, MaybeAdvanceOnward
<1>14. ASSUME iters' = Append(t, it), rounds' = rounds
       PROVE  Onward
  <2>1. it.round = r /\ it.input.kind = "draft"
    BY DEF NewIteration, Draft
  <2> HIDE DEF it, l
  <2>2. Track(rounds, t)
    BY <1>1, <1>4, <1>5, MovedStaysOnTrack
  <2>3. Track(rounds', iters')
    BY <1>3, <1>4, <1>5, <1>9, <1>10, <1>14, <2>1, <2>2, NextRequestOnTrack
  <2>4. /\ t \in Seq(Iteration) /\ Len(t) \in Nat /\ Len(t) = Len(iters)
        /\ DOMAIN iters' = 1..(Len(t) + 1) /\ iters'[Len(t) + 1] = it
        /\ \A j \in DOMAIN iters : iters'[j] = t[j]
    <3>1. t \in Seq(Iteration) /\ Len(t) \in Nat /\ Len(t) = Len(iters)
          /\ DOMAIN iters = DOMAIN t
      BY <1>1, <1>4, <1>5 DEF Tables, Moved
    <3> QED
      BY <1>14, <3>1
  <2>5. \A j \in DOMAIN iters' : j > Len(iters) => iters'[j] = it
    BY <2>4
  <2>6. TablesKept
    BY <1>1, <1>3, <1>5, <1>14, <2>1, <2>4, <2>5 DEF TablesKept, Moved, SameAsk
  <2>7. \A j \in DOMAIN iters' :
            j > Len(iters) => ExecutionApproved(j)' /\ MediationBacked(j)'
    BY <1>3, <1>14, <2>1, <2>5 DEF ExecutionApproved, MediationBacked
  <2> QED
    BY <1>7, <2>3, <2>6, <2>7 DEF Onward
<1>15. \/ rounds' = UpdateRound(rounds, r, "escalated", None) /\ iters' = t
       \/ MaybeAdvanceToRound2(UpdateRound(rounds, r, "converged", t[l].output), t)
       \/ iters' = Append(t, it) /\ rounds' = rounds
  BY <1>6 DEF AdvanceRound1, SpawnIteration
<1> QED
  BY <1>12, <1>13, <1>14, <1>15

\* The arbitrator's answer leaves nothing active and is the synthesis.
LEMMA ArbitratorAnswered ==
    ASSUME ApprovalInv, NEW i, NEW output, NEW assess \in {"converged", "more_work_needed"},
           RespondInRound2(i, output, assess)
    PROVE  LET t == Respond(iters, i, output, assess)
               r == iters[i].round
               rs == UpdateRound(rounds, r, "complete", output)
           IN  /\ i \in DOMAIN iters /\ iters[i].status # "complete" /\ output \in Texts
               /\ r \in DOMAIN rounds
               /\ rounds[r].type = "cross_host_arbitration"
               /\ Active(rounds, iters, r)
               /\ Tables(rounds, t) /\ Tables(rs, t)
               /\ Moved(rounds, iters, rs, t) /\ Quiet(rs, t)
               /\ rs[r].status = "complete" /\ rs[r].outcome = output
               /\ \A q \in DOMAIN rounds : q # r => rs[q] = rounds[q]
               /\ Round2Outcome(rs) = output
<1> DEFINE t == Respond(iters, i, output, assess)
           r == iters[i].round
           rs == UpdateRound(rounds, r, "complete", output)
<1>1. /\ Tables(rounds, iters) /\ Track(rounds, iters) /\ rounds \in Seq(Round)
      /\ Len(rounds) \in Nat
  BY ApprovalTables
<1>2. i \in DOMAIN iters /\ iters[i].status # "complete" /\ output \in Texts
  BY DEF RespondInRound2, CanRespond, Texts
<1>3. r \in DOMAIN rounds /\ rounds[r].type = "cross_host_arbitration"
  BY <1>1, <1>2 DEF RespondInRound2, CanRespond, Tables
<1>4. Tables(rounds, t)
  BY <1>1, <1>2, RespondKeeps
<1>5. /\ Active(rounds, iters, r) /\ ~Active(rounds, t, r)
      /\ Moved(rounds, iters, rounds, t)
  BY <1>1, <1>2, <1>3, AnsweredIsInactive
<1> HIDE DEF t, r
<1>8. /\ Tables(rs, t) /\ Moved(rounds, t, rs, t)
      /\ rs[r].status = "complete" /\ rs[r].outcome = output
      /\ \A q \in DOMAIN rounds : q # r => rs[q] = rounds[q]
  BY <1>2, <1>3, <1>4, RegistryAssumption, UpdateRoundMoves DEF RoundStatuses
<1> HIDE DEF rs
<1>9. Moved(rounds, iters, rs, t)
  BY <1>1, <1>4, <1>5, <1>8, MovedIsTransitive
<1>10. Quiet(rs, t)
  <2>1. ~Active(rs, t, r)
    BY <1>3, <1>4, <1>5, <1>8, MovedIsLessActive
  <2> QED
    BY <1>1, <1>3, <1>5, <1>8, <1>9, <2>1, DoneIsQuiet
<1>11. Round2Outcome(rs) = output
  <2> DEFINE S == RoundsOfType(rs, "cross_host_arbitration")
  <2>1. S = RoundsOfType(rounds, "cross_host_arbitration")
    BY <1>1, <1>8 DEF Moved, Tables, RoundsOfType
  <2>2. r \in S /\ \A q \in S : q <= r
    BY <1>1, <1>3, <1>5, <2>1 DEF Track, UpToDate, RoundsOfType
  <2>3. S \in SUBSET (1..Len(rounds))
    BY <1>1, <2>1 DEF RoundsOfType
  <2>4. Latest(S) \in S /\ r <= Latest(S)
    BY <1>1, <2>2, <2>3, LatestIsMember
  <2>5. Latest(S) = r
    <3>1. Latest(S) \in Int /\ r \in Int
      BY <2>2, <2>3, <2>4
    <3> QED
      BY <2>2, <2>4, <3>1
  <2> QED
    BY <1>8, <2>2, <2>5 DEF Round2Outcome
<1> QED
  BY <1>2, <1>3, <1>4, <1>5, <1>8, <1>9, <1>10, <1>11 DEF t, r, rs

LEMMA RespondInRound2Onward ==
    ASSUME ApprovalInv, NEW i, NEW output, NEW assess \in {"converged", "more_work_needed"},
           RespondInRound2(i, output, assess)
    PROVE  Onward
<1> DEFINE t == Respond(iters, i, output, assess)
           r == iters[i].round
           rs == UpdateRound(rounds, r, "complete", output)
<1>1. Tables(rounds, iters)
  BY ApprovalTables
<1>2. output \in Texts
  BY ArbitratorAnswered
<1>6. \/ SpawnRound3(rs, t, Draft(output))
      \/ rounds' = rs /\ iters' = t
  BY DEF RespondInRound2
<1>7. ReviewsKept /\ UNCHANGED <<reviews, skipped, finalized>>
  BY NoNewReviews DEF RespondInRound2
<1>8. Tables(rs, t) /\ Moved(rounds, iters, rs, t)
  BY ArbitratorAnswered
<1>9. Moved(rounds, iters, rs, t)
  BY <1>8
<1>10. Quiet(rs, t)
  BY ArbitratorAnswered
<1>11. Round2Outcome(rs) = output
  BY ArbitratorAnswered
<1> HIDE DEF t, r, rs
<1>12. ASSUME rounds' = rs, iters' = t
       PROVE  Onward
  <2>1. Track(rounds', iters')
    BY <1>8, <1>10, <1>12, QuietIsOnTrack
  <2> QED
    BY <1>1, <1>7, <1>8, <1>9, <1>12, <2>1, MovedKeepsTables DEF Onward
<1>13. ASSUME SpawnRound3(rs, t, Draft(output))
       PROVE  Onward
  <2> DEFINE input == Draft(output)
  <2>1. input \in Inputs /\ input.kind = "draft"
    BY <1>2 DEF Inputs, Draft
  <2>2. input = Draft(Round2Outcome(rs)) /\ SpawnRound3(rs, t, input)
    BY <1>11, <1>13
  <2> HIDE DEF input
  <2>3. Spawned(rs, t, "multi_agent_review", input) /\ Track(rounds', iters')
    BY <1>8, <1>10, <2>1, <2>2, SpawnRound3OnTrack
  <2>4. /\ TablesKept
        /\ \A j \in DOMAIN iters' : j > Len(iters) =>
               /\ iters'[j].input = input
               /\ rounds'[iters'[j].round].type = "multi_agent_review"
    BY <1>1, <1>8, <1>9, <2>3, SpawnedKeepsTables
  <2>5. \A j \in DOMAIN iters' :
            j > Len(iters) => ExecutionApproved(j)' /\ MediationBacked(j)'
    BY <2>1, <2>4, PlainRowsAreBacked
  <2> QED
    BY <1>7, <2>3, <2>4, <2>5 DEF Onward
<1> QED
  BY <1>6, <1>12, <1>13

\* A review that is closed leaves nothing active.
LEMMA ReviewClosed ==
    ASSUME ApprovalInv, NEW r \in DOMAIN rounds,
           rounds[r].type = "multi_agent_review", rounds[r].status = "in_progress"
    PROVE  LET rs == UpdateRound(rounds, r, "complete", None)
           IN  /\ Active(rounds, iters, r)
               /\ Tables(rs, iters) /\ Moved(rounds, iters, rs, iters) /\ Quiet(rs, iters)
               /\ rs[r].status = "complete"
               /\ \A q \in DOMAIN rounds : q # r => rs[q] = rounds[q]
               /\ Round2Outcome(rs) = Round2Outcome(rounds)
               /\ Round2Outcome(rs) \in Texts \cup {None}
               /\ \A i \in IterationsOf(iters, r) : iters[i].input = Draft(Round2Outcome(rs))
<1> DEFINE rs == UpdateRound(rounds, r, "complete", None)
<1>1. Tables(rounds, iters) /\ Track(rounds, iters)
  BY ApprovalTables
<1>2. /\ Tables(rs, iters) /\ Moved(rounds, iters, rs, iters)
      /\ rs[r].status = "complete"
      /\ \A q \in DOMAIN rounds : q # r => rs[q] = rounds[q]
  BY <1>1, UpdateRoundMoves DEF RoundStatuses
<1>3. Round2Outcome(rs) = Round2Outcome(rounds)
  BY <1>1, UpdateRoundKeepsSynthesis DEF RoundStatuses
<1> HIDE DEF rs
<1>6. Active(rounds, iters, r)
  BY DEF Active
<1>7. \A i \in IterationsOf(iters, r) : iters[i].input = Draft(Round2Outcome(rs))
  BY <1>1, <1>3, <1>6 DEF Track, UpToDate
<1>8. Quiet(rs, iters)
  <2>1. rs[r].type = "multi_agent_review"
    BY <1>2 DEF Moved
  <2>2. ~Active(rs, iters, r)
    BY <1>2, <2>1 DEF Active
  <2> QED
    BY <1>1, <1>2, <1>6, <2>2, DoneIsQuiet
<1>9. Round2Outcome(rs) \in Texts \cup {None}
  BY <1>2, Round2OutcomeIsText DEF Tables
<1> QED
  BY <1>2, <1>3, <1>6, <1>7, <1>8, <1>9 DEF rs

\* Closing the review that was active: what is spawned has it behind it.
LEMMA CloseReviewOnward ==
    ASSUME ApprovalInv, NEW r \in DOMAIN rounds,
           rounds[r].type = "multi_agent_review", rounds[r].status = "in_progress",
           reviews' \in SUBSET Review, ExpectedReviewers \subseteq ReviewersOf(reviews', r),
           ReviewsKept, CloseReview(r, reviews'), UNCHANGED <<skipped, finalized>>
    PROVE  Onward
<1> DEFINE rs == UpdateRound(rounds, r, "complete", None)
           rejecters == RejectersOf(reviews', r)
           synthesis == Round2Outcome(rs)
<1>1. /\ Tables(rounds, iters) /\ Track(rounds, iters) /\ rounds \in Seq(Round)
      /\ Len(rounds) \in Nat /\ session \in SessionStatuses
  BY ApprovalTables, TypeInvTables DEF ApprovalInv
<1>2. Tables(rs, iters) /\ Moved(rounds, iters, rs, iters) /\ rs[r].status = "complete"
  BY ReviewClosed
<1>4. rejecters \in SUBSET Agents
  BY DEF RejectersOf, Review
<1>5. \/ rejecters = {} /\ SpawnExecuteRound(rs, iters)
      \/ SpawnRound2(rs, iters, MediationInput(synthesis, rejecters))
      \/ SpawnRound1(rs, iters, ProblemWith(rejecters), session)
  BY DEF CloseReview
<1>7. \A i \in IterationsOf(iters, r) : iters[i].input = Draft(synthesis)
  BY ReviewClosed
<1>8. Quiet(rs, iters)
  BY ReviewClosed
<1>9. synthesis \in Texts \cup {None}
  BY ReviewClosed
<1> HIDE DEF rs
<1> HIDE DEF synthesis, rejecters
<1>10. ASSUME NEW type, NEW input, Spawned(rs, iters, type, input)
       PROVE  /\ TablesKept
              /\ \A i \in DOMAIN iters' : i > Len(iters) =>
                     /\ r < iters'[i].round
                     /\ iters'[i].input = input
                     /\ rounds'[iters'[i].round].type = type
              /\ r \in DOMAIN rounds' /\ Over(r)'
              /\ \A i \in IterationsOf(iters', r) : iters'[i].input = Draft(synthesis)
  <2>1. /\ TablesKept
        /\ \A i \in DOMAIN iters' : i > Len(iters) =>
               /\ iters'[i].round > Len(rounds)
               /\ iters'[i].input = input
               /\ rounds'[iters'[i].round].type = type
        /\ \A i \in DOMAIN iters' : iters'[i].round \in DOMAIN rounds => i \in DOMAIN iters
    BY <1>1, <1>2, <1>10, SpawnedKeepsTables
  <2>2. /\ Tables(rounds', iters') /\ DOMAIN rs = DOMAIN rounds /\ Len(rs) = Len(rounds)
        /\ Len(rs) <= Len(rounds') /\ rounds'[r] = rs[r]
    BY <1>1, <1>2, <1>10 DEF Spawned, Moved, Tables
  <2>3. DOMAIN rounds = 1..Len(rounds) /\ DOMAIN rounds' = 1..Len(rounds') /\ Len(rounds') \in Nat
    BY <1>1, <2>2 DEF Tables
  <2>4. r \in DOMAIN rounds' /\ r <= Len(rounds) /\ r \in Nat
    BY <1>1, <2>2, <2>3
  <2>5. \A i \in DOMAIN iters' : i > Len(iters) => r < iters'[i].round
    <3>1. \A i \in DOMAIN iters' : iters'[i].round \in Nat
      BY <2>2, <2>3 DEF Tables
    <3> QED
      BY <1>1, <2>1, <2>4, <3>1
  <2>6. Over(r)'
    BY <1>2, <2>2 DEF Over, Moved
  <2>7. \A i \in IterationsOf(iters', r) : iters'[i].input = Draft(synthesis)
    <3>1. \A i \in IterationsOf(iters', r) : i \in IterationsOf(iters, r)
                                             /\ iters'[i].input = iters[i].input
      BY <2>1 DEF IterationsOf, TablesKept
    <3> QED
      BY <1>7, <3>1
  <2> QED
    BY <2>1, <2>4, <2>5, <2>6, <2>7
<1>11. ASSUME rejecters = {}, SpawnExecuteRound(rs, iters)
       PROVE  Onward
  <2> DEFINE input == Draft(synthesis)
  <2>1. Spawned(rs, iters, "execute", input) /\ Track(rounds', iters')
    BY <1>1, <1>2, <1>8, <1>11, SpawnExecuteRoundOnTrack DEF synthesis
  <2>2. input.kind # "mediate"
    BY DEF Draft
  <2>3. /\ TablesKept
        /\ \A i \in DOMAIN iters' : i > Len(iters) =>
               /\ r < iters'[i].round
               /\ iters'[i].input = input
        /\ r \in DOMAIN rounds' /\ Over(r)'
        /\ \A i \in IterationsOf(iters', r) : iters'[i].input = input
    BY <1>10, <2>1
  <2> HIDE DEF input
  <2>4. ASSUME NEW e \in DOMAIN iters', e > Len(iters)
        PROVE  ExecutionApproved(e)' /\ MediationBacked(e)'
    <3>1. /\ ExpectedReviewers' \subseteq ReviewersOf(reviews', r)
          /\ RejectersOf(reviews', r) = {}
      BY <1>11 DEF ExpectedReviewers, rejecters
    <3>2. \A i \in IterationsOf(iters', r) : iters'[i].input = iters'[e].input
      BY <2>3, <2>4
    <3> QED
      BY <2>2, <2>3, <2>4, <3>1, <3>2 DEF ExecutionApproved, MediationBacked, Shown
  <2> QED
    BY <2>1, <2>3, <2>4 DEF Onward
<1>12. ASSUME SpawnRound2(rs, iters, MediationInput(synthesis, rejecters))
       PROVE  Onward
  <2> DEFINE input == MediationInput(synthesis, rejecters)
  <2>1. input \in Inputs /\ input.prior = synthesis /\ input.rejecters = rejecters
    BY <1>4, <1>9 DEF Inputs, MediationInput
  <2>2. SpawnRound2(rs, iters, input)
    BY <1>12
  <2> HIDE DEF input
  <2>3. Spawned(rs, iters, "cross_host_arbitration", input) /\ Track(rounds', iters')
    BY <1>2, <1>8, <2>1, <2>2, SpawnRound2OnTrack
  <2>4. /\ TablesKept
        /\ \A i \in DOMAIN iters' : i > Len(iters) =>
               /\ r < iters'[i].round
               /\ iters'[i].input = input
               /\ rounds'[iters'[i].round].type = "cross_host_arbitration"
        /\ r \in DOMAIN rounds' /\ Over(r)'
        /\ \A i \in IterationsOf(iters', r) : iters'[i].input = Draft(synthesis)
    BY <1>10, <2>3
  <2>5. ASSUME NEW m \in DOMAIN iters', m > Len(iters)
        PROVE  ExecutionApproved(m)' /\ MediationBacked(m)'
    <3>1. RejectersOf(reviews', r) = iters'[m].input.rejecters
      BY <2>1, <2>4, <2>5 DEF rejecters
    <3>2. \A i \in IterationsOf(iters', r) : iters'[i].input = Draft(iters'[m].input.prior)
      BY <2>1, <2>4, <2>5
    <3> QED
      BY <2>4, <2>5, <3>1, <3>2 DEF ExecutionApproved, MediationBacked, Shown
  <2> QED
    BY <2>3, <2>4, <2>5 DEF Onward
<1>13. ASSUME SpawnRound1(rs, iters, ProblemWith(rejecters), session)
       PROVE  Onward
  <2> DEFINE input == ProblemWith(rejecters)
  <2>1. input \in Inputs /\ input.kind # "mediate"
    BY <1>4 DEF Inputs, ProblemWith
  <2>2. SpawnRound1(rs, iters, input, session)
    BY <1>13
  <2> HIDE DEF input
  <2>3. Spawned(rs, iters, "same_host_pair", input) /\ Track(rounds', iters')
    BY <1>1, <1>2, <1>8, <2>1, <2>2, SpawnRound1OnTrack
  <2>4. /\ TablesKept
        /\ \A i \in DOMAIN iters' : i > Len(iters) =>
               /\ iters'[i].input = input
               /\ rounds'[iters'[i].round].type = "same_host_pair"
    BY <1>10, <2>3
  <2>5. \A i \in DOMAIN iters' :
            i > Len(iters) => ExecutionApproved(i)' /\ MediationBacked(i)'
    BY <2>1, <2>4, PlainRowsAreBacked
  <2> QED
    BY <2>3, <2>4, <2>5 DEF Onward
<1> QED
  BY <1>5, <1>11, <1>12, <1>13

LEMMA StillOnward ==
    ASSUME ApprovalInv, UNCHANGED <<rounds, iters, finalized>>, ReviewsKept
    PROVE  Onward
<1>1. Tables(rounds, iters) /\ Track(rounds, iters) /\ Moved(rounds, iters, rounds, iters)
  BY ApprovalTables DEF Moved, SameAsk
<1> QED
  BY <1>1, MovedKeepsTables DEF Onward

LEMMA EmitReviewOnward ==
    ASSUME ApprovalInv, NEW r \in DOMAIN rounds, NEW a \in Agents,
           NEW decision \in {"approve", "reject"},
           OpenReviewRequest(r, a), EmitReview(r, a, decision)
    PROVE  Onward
<1> DEFINE new == [round |-> r, reviewer |-> a, decision |-> decision]
<1>1. /\ rounds[r].type = "multi_agent_review" /\ rounds[r].status = "in_progress"
      /\ reviews' = reviews \cup {new}
      /\ UNCHANGED <<skipped, finalized>>
  BY DEF OpenReviewRequest, EmitReview
<1>2. new.round = r
  OBVIOUS
<1>3. \/ CloseReview(r, reviews') /\ ExpectedReviewers \subseteq ReviewersOf(reviews', r)
      \/ UNCHANGED <<session, rounds, iters>>
  BY DEF EmitReview
<1> HIDE DEF new
<1>4. ReviewsKept
  BY <1>1, <1>2 DEF ReviewsKept, Over
<1>5. reviews' \in SUBSET Review
  BY EmitReviewStep DEF ApprovalInv
<1>6. ASSUME CloseReview(r, reviews'), ExpectedReviewers \subseteq ReviewersOf(reviews', r)
      PROVE  Onward
  BY <1>1, <1>4, <1>5, <1>6, CloseReviewOnward
<1>7. ASSUME UNCHANGED <<session, rounds, iters>>
      PROVE  Onward
  BY <1>1, <1>4, <1>7, StillOnward
<1> QED
  BY <1>3, <1>6, <1>7

\* The executor's report leaves nothing active; what it executed is the latest
\* arbitration's outcome.
LEMMA ExecutorAnswered ==
    ASSUME ApprovalInv, NEW i \in DOMAIN iters, NEW output,
           ExecutorSucceeds(i, output) \/ ExecutorFails(i, output)
    PROVE  LET r == iters[i].round
           IN  /\ iters[i].status # "complete" /\ output \in Texts
               /\ r \in DOMAIN rounds /\ rounds[r].type = "execute"
               /\ Active(rounds, iters, r)
               /\ Tables(rounds', iters') /\ Moved(rounds, iters, rounds', iters')
               /\ Quiet(rounds', iters')
               /\ rounds'[r].status \in {"complete", "escalated"}
               /\ \A q \in DOMAIN rounds : q # r => rounds'[q] = rounds[q]
               /\ iters[i].input = Draft(Round2Outcome(rounds))
               /\ Round2Outcome(rounds) # None
               /\ UNCHANGED <<reviews, skipped>>
               /\ \E assess \in {"converged", "more_work_needed"} :
                      /\ iters' = Respond(iters, i, output, assess)
                      /\ \/ assess = "converged" /\ ExecutorSucceeds(i, output)
                         \/ finalized' = finalized
<1> DEFINE r == iters[i].round
<1>1. /\ Tables(rounds, iters) /\ Track(rounds, iters) /\ Len(rounds) \in Nat
      /\ iters \in Seq(Iteration) /\ iters[i] \in Iteration
  BY ApprovalTables
<1>2. /\ iters[i].status # "complete" /\ output \in Texts
      /\ rounds[r].type = "execute" /\ UNCHANGED <<reviews, skipped>>
  BY DEF ExecutorSucceeds, ExecutorFails, CanExecute, Texts
<1>3. r \in DOMAIN rounds
  BY <1>1 DEF Tables
<1>4. PICK assess \in {"converged", "more_work_needed"}, status \in {"complete", "escalated"} :
          /\ iters' = Respond(iters, i, output, assess)
          /\ rounds' = UpdateRound(rounds, r, status, output)
          /\ \/ assess = "converged" /\ ExecutorSucceeds(i, output)
             \/ finalized' = finalized
  BY DEF ExecutorSucceeds, ExecutorFails
<1>5. /\ Active(rounds, iters, r) /\ ~Active(rounds, iters', r)
      /\ Moved(rounds, iters, rounds, iters')
  BY <1>1, <1>2, <1>4, AnsweredIsInactive
<1>6. Tables(rounds, iters')
  BY <1>1, <1>2, <1>4, RespondKeeps
<1>7. iters[i].input = Draft(Round2Outcome(rounds))
  BY <1>1, <1>2, <1>3, <1>5 DEF Track, UpToDate, IterationsOf
<1>8. Round2Outcome(rounds) # None
  <2>1. iters[i].input \in Inputs
    BY <1>1 DEF Iteration
  <2>2. iters[i].input.kind = "draft" /\ iters[i].input.text = Round2Outcome(rounds)
    BY <1>7 DEF Draft
  <2> QED
    BY <2>1, <2>2, DraftIsText, RegistryAssumption
<1> HIDE DEF r
<1>10. /\ Tables(rounds', iters') /\ Moved(rounds, iters', rounds', iters')
       /\ rounds'[r].status = status
       /\ \A q \in DOMAIN rounds : q # r => rounds'[q] = rounds[q]
  BY <1>2, <1>3, <1>4, <1>6, UpdateRoundMoves DEF RoundStatuses
<1>11. Moved(rounds, iters, rounds', iters')
  BY <1>1, <1>5, <1>6, <1>10, MovedIsTransitive
<1>12. Quiet(rounds', iters')
  <2>1. ~Active(rounds', iters', r)
    BY <1>3, <1>5, <1>6, <1>10, MovedIsLessActive
  <2> QED
    BY <1>1, <1>2, <1>3, <1>5, <1>10, <1>11, <2>1, DoneIsQuiet
<1> QED
  BY <1>2, <1>3, <1>4, <1>5, <1>7, <1>8, <1>10, <1>11, <1>12 DEF r

LEMMA ExecutorOnward ==
    ASSUME ApprovalInv, NEW i \in DOMAIN iters, NEW output,
           ExecutorSucceeds(i, output) \/ ExecutorFails(i, output)
    PROVE  Onward
<1>1. Tables(rounds, iters) /\ iters[i] \in Iteration
  BY ApprovalTables
<1>2. /\ Tables(rounds', iters') /\ Moved(rounds, iters, rounds', iters')
      /\ Quiet(rounds', iters') /\ UNCHANGED <<reviews, skipped>>
      /\ iters[i].round \in DOMAIN rounds /\ rounds[iters[i].round].type = "execute"
      /\ iters[i].input = Draft(Round2Outcome(rounds))
      /\ Round2Outcome(rounds) # None
  BY ExecutorAnswered
<1>3. PICK assess \in {"converged", "more_work_needed"} :
          /\ iters' = Respond(iters, i, output, assess)
          /\ \/ assess = "converged" /\ ExecutorSucceeds(i, output)
             \/ finalized' = finalized
  BY ExecutorAnswered
<1>4. /\ iters'[i].status = "complete" /\ iters'[i].assess = assess
      /\ iters'[i].input = iters[i].input /\ iters'[i].round = iters[i].round
  BY <1>1, <1>3 DEF Respond, Iteration
<1>5. Track(rounds', iters')
  BY <1>2, QuietIsOnTrack
<1>6. finalized' = finalized \/ FinalExecuted'
  <2> SUFFICES ASSUME assess = "converged", ExecutorSucceeds(i, output),
                      finalized' # finalized
               PROVE  FinalExecuted'
    BY <1>3
  <2>1. finalized' = Round2Outcome(rounds)
    BY <1>2 DEF ExecutorSucceeds
  <2>2. rounds'[iters[i].round].type = "execute" /\ i \in DOMAIN iters'
    BY <1>1, <1>2 DEF Moved, Tables
  <2> QED
    BY <1>2, <1>4, <2>1, <2>2 DEF FinalExecuted
<1> QED
  BY <1>1, <1>2, <1>5, <1>6, MovedKeepsTables, NoNewReviews DEF Onward

\* Requests are opened for their destination and nothing else happens.
LEMMA OpenedMoves ==
    ASSUME Tables(rounds, iters), rounds' = rounds, Len(iters') = Len(iters),
           \A i \in DOMAIN iters : Opened(iters[i], iters'[i])
    PROVE  Moved(rounds, iters, rounds', iters')
<1>1. \A i \in DOMAIN iters : iters[i] \in Iteration
  BY DEF Tables
<1>2. ASSUME NEW i \in DOMAIN iters
      PROVE  /\ SameAsk(iters[i], iters'[i])
             /\ iters[i].status = "complete" => iters'[i] = iters[i]
             /\ iters[i].status # "complete" => iters'[i].status # "complete"
             /\ iters'[i].status = "off_script" => iters[i].status = "off_script"
  <2>1. iters[i] \in Iteration
    BY <1>1
  <2>2. CASE iters'[i] = iters[i]
    BY <2>2 DEF SameAsk
  <2>3. CASE iters'[i] # iters[i]
    BY <2>1, <2>3 DEF Opened, Iteration, SameAsk
  <2> QED
    BY <2>2, <2>3
<1> QED
  BY <1>2 DEF Moved

LEMMA OpenedOnward ==
    ASSUME ApprovalInv, Tables(rounds', iters'), UNCHANGED <<rounds, reviews, skipped, finalized>>,
           Len(iters') = Len(iters), \A i \in DOMAIN iters : Opened(iters[i], iters'[i])
    PROVE  Onward
<1>1. Tables(rounds, iters) /\ Track(rounds, iters)
  BY ApprovalTables
<1>3. Moved(rounds, iters, rounds', iters')
  BY <1>1, OpenedMoves
<1>4. Track(rounds', iters')
  BY <1>1, <1>3, MovedStaysOnTrack
<1> QED
  BY <1>1, <1>3, <1>4, MovedKeepsTables, NoNewReviews DEF Onward

\* An abort closes what is in progress and leaves outcomes and requests alone.
LEMMA PostAbortMoves ==
    ASSUME Tables(rounds, iters), Tables(rounds', iters'), PostAbort
    PROVE  /\ Moved(rounds, iters, rounds', iters')
           /\ iters' = iters
           /\ \A r \in DOMAIN rounds :
                  \/ rounds'[r] = rounds[r]
                  \/ /\ rounds[r].status \in {"in_progress", "pending"}
                     /\ rounds'[r].status = "aborted"
           /\ \A r \in DOMAIN rounds : /\ rounds'[r].outcome = rounds[r].outcome
                                       /\ rounds'[r].status # "in_progress"
<1>1. rounds \in Seq(Round) /\ rounds' \in Seq(Round) /\ Len(rounds) \in Nat
  BY DEF Tables
<1>2. iters' = iters /\ DOMAIN rounds' = DOMAIN rounds
  BY DEF PostAbort
<1>3. ASSUME NEW r \in DOMAIN rounds
      PROVE  /\ \/ rounds'[r] = rounds[r]
                \/ /\ rounds[r].status \in {"in_progress", "pending"}
                   /\ rounds'[r].status = "aborted"
             /\ rounds'[r].status # "in_progress"
             /\ rounds'[r].type = rounds[r].type /\ rounds'[r].host = rounds[r].host
             /\ rounds'[r].outcome = rounds[r].outcome
  <2>1. rounds[r] \in Round
    BY <1>1
  <2>2. rounds'[r] = IF rounds[r].status \in {"in_progress", "pending"}
                     THEN [rounds[r] EXCEPT !.status = "aborted"] ELSE rounds[r]
    BY DEF PostAbort
  <2> QED
    BY <2>1, <2>2 DEF Round
<1>4. Len(rounds') = Len(rounds)
  BY <1>1, <1>2
<1>5. Moved(rounds, iters, rounds', iters')
  BY <1>2, <1>3, <1>4 DEF Moved, SameAsk
<1> QED
  BY <1>2, <1>3, <1>5

LEMMA PostAbortOnward ==
    ASSUME ApprovalInv, PostAbort, Tables(rounds', iters')
    PROVE  Onward
<1>1. /\ Tables(rounds, iters) /\ Track(rounds, iters)
      /\ rounds \in Seq(Round) /\ rounds' \in Seq(Round) /\ Len(rounds) \in Nat
  BY ApprovalTables DEF Tables
<1>2. /\ Moved(rounds, iters, rounds', iters')
      /\ \A r \in DOMAIN rounds :
             /\ rounds'[r] = rounds[r] \/ rounds'[r].status = "aborted"
             /\ rounds'[r].outcome = rounds[r].outcome
  BY <1>1, PostAbortMoves
<1>3. UNCHANGED <<reviews, skipped, finalized>>
  BY DEF PostAbort
<1>4. Len(rounds') = Len(rounds) /\ \A r \in DOMAIN rounds' : ~(r > Len(rounds))
  BY <1>1, <1>2 DEF Moved
<1>5. \A r \in DOMAIN rounds : rounds'[r].type = rounds[r].type
  BY <1>2 DEF Moved
<1>6. Round2Outcome(rounds') = Round2Outcome(rounds)
  BY <1>1, <1>2, <1>4, <1>5, Round2OutcomeStays
<1>7. Track(rounds', iters')
  BY <1>1, <1>2, <1>6, MovedStaysOnTrack
<1> QED
  BY <1>1, <1>2, <1>3, <1>7, MovedKeepsTables, NoNewReviews DEF Onward

LEMMA StartSessionOnward ==
    ASSUME ApprovalInv, StartSession
    PROVE  Onward
<1>1. Tables(rounds, iters) /\ rounds = <<>> /\ UNCHANGED <<reviews, skipped, finalized>>
  BY ApprovalTables DEF ApprovalInv, StartSession
<1>2. Quiet(rounds, iters) /\ Moved(rounds, iters, rounds, iters)
  BY <1>1 DEF Quiet, Moved, SameAsk
<1>3. /\ SpawnRound1(rounds, iters, Problem, "drafting")
      /\ Problem \in Inputs /\ Problem.kind # "mediate" /\ "drafting" \in SessionStatuses
  BY DEF StartSession, Inputs, Problem, SessionStatuses
<1>4. Spawned(rounds, iters, "same_host_pair", Problem) /\ Track(rounds', iters')
  BY <1>1, <1>2, <1>3, SpawnRound1OnTrack
<1>5. /\ TablesKept
      /\ \A i \in DOMAIN iters' : i > Len(iters) =>
             /\ iters'[i].input = Problem
             /\ rounds'[iters'[i].round].type = "same_host_pair"
  BY <1>1, <1>2, <1>4, SpawnedKeepsTables
<1>6. \A i \in DOMAIN iters' :
          i > Len(iters) => ExecutionApproved(i)' /\ MediationBacked(i)'
  BY <1>3, <1>5, PlainRowsAreBacked
<1> QED
  BY <1>1, <1>4, <1>5, <1>6, NoNewReviews DEF Onward

LEMMA NextOnward ==
    ASSUME Unforced, ApprovalInv, Next
    PROVE  Onward
<1>1. Tables(rounds', iters')
  BY NextKeeps DEF ApprovalInv, Step
<1>2. ASSUME EmitResponse
      PROVE  Onward
  <2>1. PICK i \in DOMAIN iters, output \in Texts, assess \in {"converged", "more_work_needed"} :
            RespondInRound1(i, output, assess) \/ RespondInRound2(i, output, assess)
    BY <1>2 DEF EmitResponse
  <2> QED
    BY <1>1, <2>1, RespondInRound1Onward, RespondInRound2Onward
<1>3. ASSUME ExecutorEmit
      PROVE  Onward
  BY <1>3, ExecutorOnward DEF ExecutorEmit
<1>4. ASSUME AgentStep
      PROVE  Onward
  BY <1>2, <1>3, <1>4, EmitReviewOnward DEF AgentStep
<1>5. ~AgentFault
  BY DEF Unforced, AgentFault, UnrequestedReview, OpenReviewRequest
<1>6. ASSUME \/ AutoSkipExpiredNudges
             \/ \E i \in DOMAIN iters, submit \in BOOLEAN : PostNudge(i, submit)
      PROVE  Onward
  <2>1. UNCHANGED <<reviews, skipped, finalized>>
    BY <1>6 DEF AutoSkipExpiredNudges, PostNudge
  <2>2. /\ rounds' = rounds /\ Len(iters') = Len(iters)
        /\ \A i \in DOMAIN iters : Opened(iters[i], iters'[i])
    BY <1>6, AutoSkipOpens, PostNudgeOpens DEF ApprovalInv
  <2> QED
    BY <1>1, <2>1, <2>2, OpenedOnward
<1>7. ASSUME OperatorOverride
      PROVE  Onward
  <2>1. PostAbort \/ ResolveAbort \/ \E a \in AllWorkers : SkipAgent(a)
    BY <1>7 DEF Unforced, OperatorOverride, RetryIteration, ForceConvergeRound1,
                ProceedToArbitrator
  <2>2. ASSUME ResolveAbort
        PROVE  Onward
    BY <2>2, StillOnward, NoNewReviews DEF ResolveAbort
  <2>3. ASSUME NEW a, SkipAgent(a)
        PROVE  Onward
    <3>1. skipped \subseteq skipped' /\ UNCHANGED <<rounds, iters, reviews, finalized>>
      BY <2>3 DEF SkipAgent
    <3> QED
      BY <3>1, StillOnward, NoNewReviews
  <2> QED
    BY <1>1, <2>1, <2>2, <2>3, PostAbortOnward
<1> QED
  BY <1>4, <1>5, <1>6, <1>7, StartSessionOnward DEF Next, OperatorRoutine

\* Before the session is opened nothing happens to it, and nothing closes it
\* to the point where it could be opened again.
LEMMA SessionIsOpened ==
    ASSUME ApprovalInv, Next
    PROVE  session' # "none"
<1> DEFINE Later == {session, "round_1", "round_2", "round_3", "executing", "complete",
                     "aborted", "escalated"}
<1>1. /\ session = "none" => DOMAIN rounds = {} /\ DOMAIN iters = {}
      /\ \A i \in DOMAIN iters : iters[i].round \in DOMAIN rounds
  <2>1. Tables(rounds, iters)
    BY ApprovalTables
  <2>2. ASSUME session = "none"
        PROVE  DOMAIN rounds = {}
    BY <2>2 DEF ApprovalInv
  <2> QED
    BY <2>1, <2>2 DEF Tables
<1>2. ASSUME NEW rs, NEW t, MaybeAdvanceToRound2(rs, t)
      PROVE  session' \in Later
  BY <1>2 DEF MaybeAdvanceToRound2, SpawnRound2
<1>3. ASSUME EmitResponse
      PROVE  session' \in Later /\ DOMAIN iters # {}
  <2>1. PICK i \in DOMAIN iters, output \in Texts, assess \in {"converged", "more_work_needed"} :
            RespondInRound1(i, output, assess) \/ RespondInRound2(i, output, assess)
    BY <1>3 DEF EmitResponse
  <2>2. CASE RespondInRound1(i, output, assess)
    <3>1. AdvanceRound1(Respond(iters, i, output, assess), iters[i].round)
      BY <2>2 DEF RespondInRound1
    <3>2. \/ session' \in {session, "escalated"}
          \/ \E rs, t : MaybeAdvanceToRound2(rs, t)
      BY <3>1 DEF AdvanceRound1
    <3> QED
      BY <1>2, <3>2
  <2>3. CASE RespondInRound2(i, output, assess)
    BY <2>3 DEF RespondInRound2, SpawnRound3
  <2> QED
    BY <2>1, <2>2, <2>3
<1>4. ASSUME NEW r \in DOMAIN rounds, NEW a, NEW decision, EmitReview(r, a, decision)
      PROVE  session' \in Later
  <2>1. session' = session \/ \E vs : CloseReview(r, vs)
    BY <1>4 DEF EmitReview
  <2>2. ASSUME NEW vs, CloseReview(r, vs)
        PROVE  session' \in Later
    BY <2>2 DEF CloseReview, SpawnExecuteRound, SpawnRound1, SpawnRound2
  <2> QED
    BY <2>1, <2>2
<1>5. ASSUME ExecutorEmit
      PROVE  session' \in Later /\ DOMAIN iters # {}
  BY <1>5 DEF ExecutorEmit, ExecutorSucceeds, ExecutorFails
<1>6. ASSUME AgentStep \/ AgentFault
      PROVE  session' \in Later /\ (DOMAIN iters # {} \/ DOMAIN rounds # {})
  BY <1>3, <1>4, <1>5, <1>6 DEF AgentStep, AgentFault, RespondWithWrongTool
<1>7. ASSUME \/ AutoSkipExpiredNudges
             \/ \E i \in DOMAIN iters, submit \in BOOLEAN :
                    PostNudge(i, submit) \/ RetryIteration(i, submit)
      PROVE  session' \in Later /\ DOMAIN iters # {}
  BY <1>7 DEF AutoSkipExpiredNudges, AwaitingNudge, PostNudge, RetryIteration
<1>8. ASSUME StartSession
      PROVE  session' # "none"
  BY <1>8 DEF StartSession, SpawnRound1
<1>9. ASSUME ForceConvergeRound1 \/ ProceedToArbitrator
      PROVE  session' \in Later /\ session # "none"
  <2>1. CASE ForceConvergeRound1
    <3>1. DOMAIN rounds # {}
      BY <2>1 DEF ForceConvergeRound1, RoundsOfType
    <3>2. session' = session \/ \E rs : MaybeAdvanceToRound2(rs, iters)
      BY <2>1, Zenon DEF ForceConvergeRound1
    <3> QED
      BY <1>1, <1>2, <3>1, <3>2
  <2>2. CASE ProceedToArbitrator
    BY <2>2 DEF ProceedToArbitrator, SpawnRound2
  <2> QED
    BY <1>9, <2>1, <2>2
<1>10. ASSUME PostAbort \/ ResolveAbort \/ \E a : SkipAgent(a)
       PROVE  session' \in Later /\ session # "none"
  BY <1>10 DEF PostAbort, ResolveAbort, SkipAgent
<1> QED
  BY <1>1, <1>6, <1>7, <1>8, <1>9, <1>10 DEF Next, OperatorRoutine, OperatorOverride

LEMMA InitApproval == Init => ApprovalInv
<1> SUFFICES ASSUME Init
             PROVE  ApprovalInv
  OBVIOUS
<1>1. TypeInv /\ rounds = <<>> /\ iters = <<>> /\ finalized = None
  BY InitTypeInv DEF Init
<1>2. Quiet(rounds, iters)
  BY <1>1 DEF Quiet
<1>3. Track(rounds, iters)
  BY <1>1, <1>2, TypeInvTables, QuietIsOnTrack
<1> QED
  BY <1>1, <1>3 DEF ApprovalInv, PastInv, FinalExecuted

LEMMA NextApproval ==
    ASSUME Unforced, ApprovalInv, [Next]_vars
    PROVE  ApprovalInv'
<1>1. TypeInv'
  BY NextTypeInv DEF ApprovalInv
<1>2. CASE Next
  <2>1. Onward /\ session' # "none"
    BY <1>2, NextOnward, SessionIsOpened
  <2>2. Tables(rounds, iters) /\ Tables(rounds', iters') /\ KeepsAnswers(iters, iters')
    BY <1>2, ApprovalTables, NextKeeps DEF ApprovalInv, Step
  <2>3. PastInv'
    BY <2>1, <2>2, PastStays DEF Onward, ApprovalInv
  <2>4. Track(rounds, iters)'
    BY <2>1 DEF Onward, Track, OneTrack, OneOpenRequest, Active, UpToDate, IterationsOf,
                RoundsOfType, Round2Outcome
  <2> QED
    BY <1>1, <2>1, <2>3, <2>4 DEF ApprovalInv
<1>3. CASE UNCHANGED vars
  <2>1. Track(rounds, iters)'
    <3>1. rounds' = rounds /\ iters' = iters
      BY <1>3 DEF vars
    <3>2. \A r : Active(rounds, iters, r)' <=> Active(rounds, iters, r)
      BY <3>1 DEF Active, IterationsOf
    <3>3. OneTrack(rounds, iters)'
      BY <3>1, <3>2 DEF ApprovalInv, Track, OneTrack
    <3>4. OneOpenRequest(rounds, iters)'
      BY <3>1 DEF ApprovalInv, Track, OneOpenRequest
    <3>5. \A r \in DOMAIN rounds : UpToDate(rounds, iters, r)' <=> UpToDate(rounds, iters, r)
      BY <3>1 DEF UpToDate, IterationsOf, RoundsOfType, Round2Outcome
    <3> QED
      BY <3>1, <3>2, <3>3, <3>4, <3>5 DEF ApprovalInv, Track
  <2>2. /\ \A i \in DOMAIN iters : ExecutionApproved(i)' = ExecutionApproved(i)
        /\ \A i \in DOMAIN iters : MediationBacked(i)' = MediationBacked(i)
        /\ FinalExecuted' = FinalExecuted
    BY <1>3 DEF vars, ExecutionApproved, MediationBacked, FinalExecuted, Over, Shown,
                ExpectedReviewers, ReviewersOf, RejectersOf, IterationsOf
  <2>3. PastInv'
    BY <1>3, <2>2 DEF vars, ApprovalInv, PastInv
  <2> QED
    BY <1>1, <1>3, <2>1, <2>3 DEF vars, ApprovalInv
<1> QED
  BY <1>2, <1>3

LEMMA SpecApproval ==
    ASSUME Unforced
    PROVE  Spec => []ApprovalInv
BY InitApproval, NextApproval, PTL DEF Spec

-----------------------------------------------------------------------------
(***************************************************************************)
(* The theorems.                                                           *)
(***************************************************************************)
\* Whatever is nudged, skipped or aborted, and when: the executor is only ever
\* handed a synthesis that was shown as it is to every reviewer that is still
\* expected, that all of them approved and none rejected.
THEOREM ExecutionIsApproved ==
    ASSUME Unforced
    PROVE  Spec => []ApprovedBeforeExecution
<1>1. ApprovalInv => ApprovedBeforeExecution
  BY DEF ApprovalInv, PastInv, ExecutionApproved, ApprovedBeforeExecution, IsType, Over,
         Shown, RoundsOfType
<1> QED
  BY <1>1, SpecApproval, PTL

\* What a reviewer reads in its inbox, the latest arbitration's outcome, is the
\* synthesis its review was opened for.
THEOREM ReviewersSeeTheSynthesis ==
    ASSUME Unforced
    PROVE  Spec => []ReviewShowsSynthesis
<1>1. ApprovalInv => ReviewShowsSynthesis
  BY DEF ApprovalInv, Track, Active, UpToDate, ReviewShowsSynthesis, IsType, InProgress
<1> QED
  BY <1>1, SpecApproval, PTL

\* The final prompt, read back from the arbitration rounds, is the one that the
\* executor ran with success, after aborts and late executions too.
THEOREM FinalPromptIsExecuted ==
    ASSUME Unforced
    PROVE  Spec => []FinalPromptWasExecuted
<1>1. ApprovalInv => FinalPromptWasExecuted
  BY DEF ApprovalInv, PastInv, FinalExecuted, FinalPromptWasExecuted, IsType
<1> QED
  BY <1>1, SpecApproval, PTL

\* A mediation request carries the synthesis that was shown to the reviewers and
\* the names of exactly those that rejected it.
THEOREM MediationsCarryRejections ==
    ASSUME Unforced
    PROVE  Spec => []MediationCarriesRejections
<1>1. ApprovalInv => MediationCarriesRejections
  BY DEF ApprovalInv, PastInv, MediationBacked, MediationCarriesRejections, Over, Shown,
         RoundsOfType
<1> QED
  BY <1>1, SpecApproval, PTL
=============================================================================
