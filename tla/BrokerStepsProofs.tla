------------------------- MODULE BrokerStepsProofs -------------------------
(***************************************************************************)
(* What is proved about the Delphi workflow one statement at a time, for   *)
(* every registry, every set of threads, any number of operator requests   *)
(* and crashes: the tables stay well formed whatever the threads do to     *)
(* each other, what was accepted is only lost on rows that two handlers    *)
(* held at once, and the session status never runs ahead of the tables.    *)
(***************************************************************************)
EXTENDS BrokerStepsProperties, DelphiProofs

-----------------------------------------------------------------------------
(***************************************************************************)
(* The invariant.  A handler's list of statements fits the tables: each    *)
(* statement wherever it stands (Lasting), in relation to the one before   *)
(* it (Follows), and the first one to what has been read (Ready).          *)
(***************************************************************************)
RoundStmts == {"set_round", "number", "insert"}
RequestStmts == {"check", "release", "record"}

\* What a retry writes on the strength of its first read.
Reopens(s) == s.op = "set_round" /\ s.round # New /\ s.status = "in_progress"

Lasting(s, rs, t, over) ==
    /\ s.op = "open_round" /\ s.type = "same_host_pair" =>
           s.host \in Hosts /\ Len(Workers[s.host]) = 2
    /\ s.op \in RoundStmts /\ s.round # New => s.round \in DOMAIN rs
    /\ s.op \in RequestStmts /\ s.request # New => s.request \in DOMAIN t
    /\ s.op = "record" => s.request # New
    /\ s.op \in {"advance", "close", "tally"} => s.about \in DOMAIN rs
    /\ s.op = "advance" => rs[s.about].type = "same_host_pair"
    /\ Reopens(s) /\ <<"status", s.round>> \notin over => rs[s.round].status # "aborted"

\* The reads that end what they were read for.
LastReads ==
    {"advance", "maybe_advance", "reconcile", "arbitrate", "execute",
     "ask_reviewers", "tally", "weigh", "mediate"}

Follows(s1, s2, t) ==
    /\ s1.op \notin LastReads
    /\ s2.op \notin {"insert", "write_skips"}
    /\ s2.op = "set_round" /\ s2.round = New => s1.op = "open_round"
    /\ s2.op = "number" /\ s2.round = New => s1.op \in RoundStmts /\ s1.round = New
    /\ s2.op = "check" /\ s2.request = New => s1.op \in {"number", "insert"}
    /\ s2.op = "release" =>
           s1.op = "check" /\ s1.request = s2.request /\ s1.status = "awaiting_nudge"
    /\ s2.op = "record" =>
           s1.op = "check" /\ s1.request = s2.request /\ s1.status = "awaiting_destination"
    /\ s2.op = "advance" => s1.op = "record" /\ t[s1.request].round = s2.about

\* The number a handler inserts, the request it writes and the list it writes
\* are still right, unless it was overtaken.
Ready(w, rs, t, sk, over) ==
    LET s == w.todo[1]
        r == IF s.round = New THEN w.made ELSE s.round
        i == IF s.request = New THEN w.asked ELSE s.request
    IN  /\ s.op \in RoundStmts => r \in DOMAIN rs
        /\ s.op \in RequestStmts => i \in DOMAIN t
        /\ s.op = "advance" => Answered(t, s.about) # {}
        /\ s.op = "insert" /\ <<"numbers", r>> \notin over =>
               \A j \in IterationsOf(t, r) : t[j].num < s.num
        /\ s.op = "release" /\ <<"request", i>> \notin over => t[i].status = "awaiting_nudge"
        /\ s.op = "record" /\ <<"request", i>> \notin over =>
               t[i].status = "awaiting_destination"
        /\ s.op = "set_round" /\ s.status = "in_progress" /\ <<"status", r>> \notin over =>
               rs[r].status # "aborted"
        /\ s.op = "write_skips" /\ <<"skipped", New>> \notin over => sk \subseteq s.skips

\* A list of statements on its own.
Plan(p, rs, t, over) ==
    /\ p \in Seq(Statement)
    /\ \A k \in 1..Len(p) : Lasting(p[k], rs, t, over)
    /\ \A k \in 1..(Len(p) - 1) : Follows(p[k], p[k + 1], t)
    /\ \A j, k \in 1..Len(p) :
           j < k /\ Reopens(p[k]) => p[j].op \in {"number", "insert", "check", "release"}

Fits(w, rs, t, sk, over) ==
    /\ w \in [todo: Seq(Statement), made: Nat, asked: Nat]
    /\ w.made <= Len(rs) /\ w.asked <= Len(t)
    /\ Plan(w.todo, rs, t, over)
    /\ w.todo # <<>> => Ready(w, rs, t, sk, over)

\* A nudge is only put on a request that is not waiting for one any more.
NudgedOnce(t) == \A i \in DOMAIN t : t[i].status = "awaiting_nudge" => ~t[i].nudged

Numbered(t, over) ==
    \A i, j \in DOMAIN t :
        /\ i # j
        /\ t[i].round = t[j].round
        /\ <<"numbers", t[i].round>> \notin over
        => t[i].num # t[j].num

StepsInv ==
    /\ StepsTypeOK
    /\ Manned(rounds)
    /\ NudgedOnce(iters)
    /\ Numbered(iters, overtaken)
    /\ Contested \subseteq overtaken
    /\ \A h \in Threads : Fits(work[h], rounds, iters, skipped, overtaken)

-----------------------------------------------------------------------------
(***************************************************************************)
(* Statements.                                                             *)
(***************************************************************************)
\* What the fields of a statement are.
LEMMA RoundFields ==
    ASSUME NEW s \in Statement, s.op \in RoundStmts
    PROVE  s.round \in Nat
BY DEF Statement, RoundStmts

LEMMA SetRoundFields ==
    ASSUME NEW s \in Statement, s.op = "set_round"
    PROVE  s.status \in RoundStatuses /\ s.outcome \in Texts \cup {None}
BY DEF Statement

LEMMA RequestFields ==
    ASSUME NEW s \in Statement, s.op \in RequestStmts
    PROVE  s.request \in Nat
BY DEF Statement, RequestStmts

LEMMA OpenRoundFields ==
    ASSUME NEW s \in Statement, s.op = "open_round"
    PROVE  s.type \in RoundTypes /\ s.host \in Hosts \cup {None}
BY DEF Statement

LEMMA NumberFields ==
    ASSUME NEW s \in Statement, s.op \in {"number", "insert"}
    PROVE  s.src \in Agents \cup {None} /\ s.dst \in Agents /\ s.input \in Inputs
BY DEF Statement

LEMMA InsertFields ==
    ASSUME NEW s \in Statement, s.op = "insert"
    PROVE  s.num \in Nat \ {0}
BY DEF Statement

LEMMA WriteFields ==
    ASSUME NEW s \in Statement
    PROVE  /\ s.op = "release" => s.nudged \in BOOLEAN
           /\ s.op = "record" =>
                  s.output \in Texts /\ s.assess \in {"converged", "more_work_needed"}
           /\ s.op = "set_session" => s.status \in SessionStatuses
           /\ s.op = "finalize" => s.output \in Texts
           /\ s.op = "write_skips" => s.skips \subseteq Agents
BY DEF Statement

LEMMA ReadFields ==
    ASSUME NEW s \in Statement
    PROVE  /\ s.op \in {"advance", "close", "tally"} => s.about \in Nat \ {0}
           /\ s.op = "ask_reviewers" => s.about \in Texts
           /\ s.op \in {"weigh", "mediate"} => s.about \subseteq Agents
BY DEF Statement

\* Every function that builds a statement builds one.
LEMMA OpenRoundIsStatement ==
    ASSUME NEW type \in RoundTypes, NEW host \in Hosts \cup {None}
    PROVE  OpenRoundStmt(type, host) \in Statement
BY DEF OpenRoundStmt, Statement

LEMMA SetRoundIsStatement ==
    ASSUME NEW r \in Nat, NEW status \in RoundStatuses, NEW outcome \in Texts \cup {None}
    PROVE  SetRoundStmt(r, status, outcome) \in Statement
BY DEF SetRoundStmt, Statement

LEMMA NumberIsStatement ==
    ASSUME NEW r \in Nat, NEW src \in Agents \cup {None}, NEW dst \in Agents,
           NEW input \in Inputs
    PROVE  NumberStmt(r, src, dst, input) \in Statement
BY DEF NumberStmt, Statement

LEMMA InsertIsStatement ==
    ASSUME NEW r \in Nat, NEW n \in Nat \ {0}, NEW src \in Agents \cup {None},
           NEW dst \in Agents, NEW input \in Inputs
    PROVE  InsertStmt(r, n, src, dst, input) \in Statement
BY DEF InsertStmt, Statement

LEMMA RequestStatements ==
    ASSUME NEW i \in Nat
    PROVE  /\ \A status \in IterationStatuses : CheckStmt(i, status) \in Statement
           /\ \A nudged \in BOOLEAN : ReleaseStmt(i, nudged) \in Statement
           /\ \A output \in Texts, assess \in {"converged", "more_work_needed"} :
                  RecordStmt(i, output, assess) \in Statement
BY DEF CheckStmt, ReleaseStmt, RecordStmt, Statement

LEMMA SessionStatements ==
    /\ \A status \in SessionStatuses : SetSessionStmt(status) \in Statement
    /\ \A output \in Texts : FinalizeStmt(output) \in Statement
    /\ \A S \in SUBSET Agents : WriteSkipsStmt(S) \in Statement
BY DEF SetSessionStmt, FinalizeStmt, WriteSkipsStmt, Statement

LEMMA ReadStatements ==
    /\ \A op \in {"advance", "close", "tally"}, r \in Nat \ {0} : ReadStmt(op, r) \in Statement
    /\ \A op \in {"maybe_advance", "reconcile", "arbitrate", "execute"} :
           ReadStmt(op, None) \in Statement
    /\ \A x \in Texts : ReadStmt("ask_reviewers", x) \in Statement
    /\ \A op \in {"weigh", "mediate"}, S \in SUBSET Agents : ReadStmt(op, S) \in Statement
BY DEF ReadStmt, Statement

-----------------------------------------------------------------------------
(***************************************************************************)
(* Lists of statements.                                                    *)
(***************************************************************************)
LEMMA EmptyPlan ==
    ASSUME NEW rs, NEW t, NEW over
    PROVE  Plan(<<>>, rs, t, over)
BY DEF Plan

LEMMA OnePlan ==
    ASSUME NEW rs, NEW t, NEW over, NEW s \in Statement, Lasting(s, rs, t, over)
    PROVE  Plan(<<s>>, rs, t, over)
BY DEF Plan

\* One list goes on after another.
Joins(p, q, t) ==
    /\ p # <<>> /\ q # <<>> => Follows(p[Len(p)], q[1], t)
    /\ \A k \in 1..Len(q) : Reopens(q[k]) =>
           \A j \in 1..Len(p) : p[j].op \in {"number", "insert", "check", "release"}

LEMMA JoinedPlan ==
    ASSUME NEW rs, NEW t, NEW over, NEW p, NEW q,
           Plan(p, rs, t, over), Plan(q, rs, t, over), Joins(p, q, t)
    PROVE  Plan(p \o q, rs, t, over)
<1> DEFINE c == p \o q
<1>1. p \in Seq(Statement) /\ q \in Seq(Statement) /\ Len(p) \in Nat /\ Len(q) \in Nat
  BY DEF Plan
<1>2. /\ c \in Seq(Statement)
      /\ Len(c) = Len(p) + Len(q)
      /\ \A k \in 1..(Len(p) + Len(q)) : c[k] = IF k <= Len(p) THEN p[k] ELSE q[k - Len(p)]
  BY <1>1, ConcatProperties
<1> HIDE DEF c
<1>3. ASSUME NEW k \in 1..Len(c)
      PROVE  Lasting(c[k], rs, t, over)
  <2>1. CASE k <= Len(p)
    BY <1>1, <1>2, <2>1 DEF Plan
  <2>2. CASE k > Len(p)
    <3>1. k - Len(p) \in 1..Len(q) /\ c[k] = q[k - Len(p)]
      BY <1>1, <1>2, <2>2
    <3> QED
      BY <3>1 DEF Plan
  <2> QED
    BY <1>1, <2>1, <2>2
<1>4. ASSUME NEW k \in 1..(Len(c) - 1)
      PROVE  Follows(c[k], c[k + 1], t)
  <2>1. CASE k < Len(p)
    <3>1. k \in 1..(Len(p) - 1) /\ c[k] = p[k] /\ c[k + 1] = p[k + 1]
      BY <1>1, <1>2, <2>1
    <3> QED
      BY <3>1 DEF Plan
  <2>2. CASE k = Len(p)
    <3>1. Len(p) # 0 /\ Len(q) # 0
      BY <1>1, <1>2, <2>2
    <3>2. c[k] = p[Len(p)] /\ c[k + 1] = q[1]
      <4>1. k + 1 \in 1..(Len(p) + Len(q)) /\ ~(k + 1 <= Len(p)) /\ (k + 1) - Len(p) = 1
        BY <1>1, <1>2, <2>2
      <4> QED
        BY <1>2, <2>2, <4>1
    <3> QED
      BY <3>1, <3>2 DEF Joins
  <2>3. CASE k > Len(p)
    <3>1. /\ k - Len(p) \in 1..(Len(q) - 1)
          /\ c[k] = q[k - Len(p)] /\ c[k + 1] = q[(k - Len(p)) + 1]
      BY <1>1, <1>2, <2>3
    <3> QED
      BY <3>1 DEF Plan
  <2> QED
    BY <1>1, <1>2, <2>1, <2>2, <2>3
<1>5. ASSUME NEW j \in 1..Len(c), NEW k \in 1..Len(c), j < k, Reopens(c[k])
      PROVE  c[j].op \in {"number", "insert", "check", "release"}
  <2>1. CASE k <= Len(p)
    <3>1. j \in 1..Len(p) /\ k \in 1..Len(p) /\ c[j] = p[j] /\ c[k] = p[k]
      BY <1>1, <1>2, <1>5, <2>1
    <3> QED
      BY <1>5, <3>1 DEF Plan
  <2>2. CASE j <= Len(p) /\ k > Len(p)
    <3>1. j \in 1..Len(p) /\ k - Len(p) \in 1..Len(q) /\ c[j] = p[j] /\ c[k] = q[k - Len(p)]
      BY <1>1, <1>2, <2>2
    <3> QED
      BY <1>5, <3>1 DEF Joins
  <2>3. CASE j > Len(p)
    <3>1. /\ j - Len(p) \in 1..Len(q) /\ k - Len(p) \in 1..Len(q)
          /\ j - Len(p) < k - Len(p)
          /\ c[j] = q[j - Len(p)] /\ c[k] = q[k - Len(p)]
      BY <1>1, <1>2, <1>5, <2>3
    <3> QED
      BY <1>5, <3>1 DEF Plan
  <2> QED
    BY <1>1, <1>2, <2>1, <2>2, <2>3
<1> QED
  BY <1>2, <1>3, <1>4, <1>5 DEF Plan, c

LEMMA RestOfPlan ==
    ASSUME NEW rs, NEW t, NEW over, NEW p, Plan(p, rs, t, over), p # <<>>
    PROVE  /\ p[1] \in Statement
           /\ Lasting(p[1], rs, t, over)
           /\ Plan(Tail(p), rs, t, over)
           /\ Tail(p) # <<>> => Follows(p[1], Tail(p)[1], t)
           /\ \A k \in 1..Len(Tail(p)) : Reopens(Tail(p)[k]) =>
                  p[1].op \in {"number", "insert", "check", "release"}
<1> DEFINE q == Tail(p)
<1>1. p \in Seq(Statement) /\ Len(p) \in Nat \ {0}
  BY DEF Plan
<1>2. /\ q \in Seq(Statement) /\ Len(q) = Len(p) - 1
      /\ \A k \in 1..Len(q) : q[k] = p[k + 1]
  BY <1>1
<1>3. q # <<>> => Len(q) \in Nat \ {0}
  BY <1>2
<1> HIDE DEF q
<1>4. \A k \in 1..Len(q) : Lasting(q[k], rs, t, over)
  BY <1>1, <1>2 DEF Plan
<1>5. ASSUME NEW k \in 1..(Len(q) - 1)
      PROVE  Follows(q[k], q[k + 1], t)
  <2>1. k + 1 \in 1..(Len(p) - 1) /\ q[k] = p[k + 1] /\ q[k + 1] = p[(k + 1) + 1]
    BY <1>1, <1>2
  <2> QED
    BY <2>1 DEF Plan
<1>6. ASSUME NEW j \in 1..Len(q), NEW k \in 1..Len(q), j < k, Reopens(q[k])
      PROVE  q[j].op \in {"number", "insert", "check", "release"}
  <2>1. /\ j + 1 \in 1..Len(p) /\ k + 1 \in 1..Len(p) /\ j + 1 < k + 1
        /\ q[j] = p[j + 1] /\ q[k] = p[k + 1]
    BY <1>1, <1>2, <1>6
  <2> QED
    BY <1>6, <2>1 DEF Plan
<1>7. Plan(q, rs, t, over)
  BY <1>2, <1>4, <1>5, <1>6 DEF Plan
<1>8. q # <<>> => Follows(p[1], q[1], t)
  <2> SUFFICES ASSUME q # <<>>
               PROVE  Follows(p[1], q[1], t)
    OBVIOUS
  <2>1. 1 \in 1..(Len(p) - 1) /\ q[1] = p[1 + 1]
    BY <1>1, <1>2, <1>3
  <2> QED
    BY <2>1 DEF Plan
<1>9. ASSUME NEW k \in 1..Len(q), Reopens(q[k])
      PROVE  p[1].op \in {"number", "insert", "check", "release"}
  <2>1. 1 \in 1..Len(p) /\ k + 1 \in 1..Len(p) /\ 1 < k + 1 /\ q[k] = p[k + 1]
    BY <1>1, <1>2
  <2> QED
    BY <1>9, <2>1 DEF Plan
<1>10. p[1] \in Statement /\ Lasting(p[1], rs, t, over)
  BY <1>1 DEF Plan
<1> QED
  BY <1>7, <1>8, <1>9, <1>10 DEF q

LEMMA NothingFollowsLastReads ==
    ASSUME NEW rs, NEW t, NEW over, NEW p, Plan(p, rs, t, over), p # <<>>,
           p[1].op \in LastReads
    PROVE  Tail(p) = <<>>
BY RestOfPlan DEF Follows

LEMMA IdleFits ==
    ASSUME NEW rs \in Seq(Round), NEW t \in Seq(Iteration), NEW sk, NEW over
    PROVE  Fits(Idle, rs, t, sk, over)
<1>1. Plan(<<>>, rs, t, over)
  BY EmptyPlan
<1> QED
  BY <1>1 DEF Fits, Idle, New

LEMMA RestingFits ==
    ASSUME NEW rs \in Seq(Round), NEW t \in Seq(Iteration), NEW sk, NEW over, NEW w,
           Fits(w, rs, t, sk, over)
    PROVE  Fits(Resting(w), rs, t, sk, over)
BY IdleFits DEF Resting

-----------------------------------------------------------------------------
(***************************************************************************)
(* What the others see of a step.                                          *)
(***************************************************************************)
\* Rows are added and rewritten, never dropped; they stay what they are about.
Grown(rs, t, rs2, t2) ==
    /\ Tables(rs, t) /\ Tables(rs2, t2)
    /\ Len(rs) <= Len(rs2) /\ Len(t) <= Len(t2)
    /\ \A r \in DOMAIN rs : rs2[r].type = rs[r].type
    /\ \A i \in DOMAIN t :
           /\ t2[i].round = t[i].round /\ t2[i].num = t[i].num
           /\ t[i].output # None => t2[i].output # None

\* No round that p is going to reopen is aborted behind its back.
LeavesAlone(p, rs, rs2, over2) ==
    \A k \in 1..Len(p) :
        Reopens(p[k]) /\ <<"status", p[k].round>> \notin over2
            /\ rs[p[k].round].status # "aborted"
        => rs2[p[k].round].status # "aborted"

LEMMA PlanStays ==
    ASSUME NEW p, NEW rs, NEW t, NEW over, NEW rs2, NEW t2, NEW over2,
           Grown(rs, t, rs2, t2), over \subseteq over2,
           Plan(p, rs, t, over), LeavesAlone(p, rs, rs2, over2)
    PROVE  Plan(p, rs2, t2, over2)
<1>1. p \in Seq(Statement) /\ Len(p) \in Nat
  BY DEF Plan
<1>2. /\ DOMAIN rs = 1..Len(rs) /\ DOMAIN t = 1..Len(t)
      /\ DOMAIN rs2 = 1..Len(rs2) /\ DOMAIN t2 = 1..Len(t2)
      /\ Len(rs) \in Nat /\ Len(t) \in Nat /\ Len(rs2) \in Nat /\ Len(t2) \in Nat
      /\ Len(rs) <= Len(rs2) /\ Len(t) <= Len(t2)
  BY DEF Grown, Tables
<1>3. DOMAIN rs \subseteq DOMAIN rs2 /\ DOMAIN t \subseteq DOMAIN t2
  BY <1>2
<1>4. ASSUME NEW k \in 1..Len(p)
      PROVE  Lasting(p[k], rs2, t2, over2)
  <2>1. Lasting(p[k], rs, t, over)
    BY DEF Plan
  <2>2. Reopens(p[k]) /\ <<"status", p[k].round>> \notin over2
            => rs2[p[k].round].status # "aborted"
    BY <2>1 DEF Lasting, LeavesAlone
  <2>3. p[k].op = "advance" => rs2[p[k].about].type = "same_host_pair"
    BY <2>1 DEF Lasting, Grown
  <2> QED
    BY <1>3, <2>1, <2>2, <2>3 DEF Lasting
<1>5. ASSUME NEW k \in 1..(Len(p) - 1)
      PROVE  Follows(p[k], p[k + 1], t2)
  <2>1. k \in 1..Len(p) /\ Follows(p[k], p[k + 1], t) /\ Lasting(p[k], rs, t, over)
    BY <1>1 DEF Plan
  <2>2. p[k].op = "record" => t2[p[k].request].round = t[p[k].request].round
    BY <2>1 DEF Lasting, Grown, RequestStmts
  <2> QED
    BY <2>1, <2>2 DEF Follows
<1> QED
  BY <1>1, <1>4, <1>5 DEF Plan

\* The rows that a step of thread h may write.
MayWrite(h) == IF h \in Busy THEN HeldBy(h) ELSE {}

\* A step of thread h writes rows it holds.
KeepsToItsRows(h) ==
    /\ Grown(rounds, iters, rounds', iters')
    /\ \A r \in DOMAIN rounds :
           rounds'[r].status # rounds[r].status => <<"status", r>> \in MayWrite(h)
    /\ \A i \in DOMAIN iters :
           iters'[i].status # iters[i].status => <<"request", i>> \in MayWrite(h)
    /\ \A i \in DOMAIN iters' \ DOMAIN iters :
           <<"numbers", iters'[i].round>> \in MayWrite(h)
    /\ skipped' # skipped => <<"skipped", New>> \in MayWrite(h)

LEMMA SharedIsOvertaken ==
    ASSUME Contested \subseteq overtaken, NEW g \in Threads, NEW h \in Threads, g # h,
           g \in Busy, NEW row, row \in HeldBy(g), row \in MayWrite(h)
    PROVE  row \in overtaken
<1>1. h \in Busy /\ row \in HeldBy(h)
  BY DEF MayWrite
<1>2. <<g, h>> \in {q \in Busy \X Busy : q[1] # q[2]}
  BY <1>1
<1>3. row \in HeldBy(<<g, h>>[1]) \cap HeldBy(<<g, h>>[2])
  BY <1>1
<1>4. row \in Contested
  BY <1>2, <1>3 DEF Contested
<1> QED
  BY <1>4

\* What a busy thread holds.
LEMMA HoldsWhatItReopens ==
    ASSUME NEW h, NEW k \in DOMAIN work[h].todo, Reopens(work[h].todo[k])
    PROVE  <<"status", work[h].todo[k].round>> \in HeldBy(h)
<1> DEFINE s == work[h].todo[k]
<1>1. s \in {u \in Elements(work[h].todo) :
                 u.op = "set_round" /\ u.round # New /\ u.status \in {"in_progress", "aborted"}}
  BY DEF Elements, Reopens
<1> QED
  BY <1>1 DEF HeldBy, WritesLater

LEMMA HoldsWhatItWrites ==
    ASSUME NEW h
    PROVE  /\ At(h, "release") \/ At(h, "record") => <<"request", RequestOf(h)>> \in HeldBy(h)
           /\ At(h, "insert") => <<"numbers", RoundOf(h)>> \in HeldBy(h)
           /\ At(h, "set_round") => <<"status", RoundOf(h)>> \in HeldBy(h)
           /\ At(h, "write_skips") => <<"skipped", New>> \in HeldBy(h)
BY DEF HeldBy, WritesNext, At

LEMMA AnsweredStays ==
    ASSUME NEW rs, NEW t, NEW rs2, NEW t2, Grown(rs, t, rs2, t2), NEW r,
           Answered(t, r) # {}
    PROVE  Answered(t2, r) # {}
<1>1. PICK i \in DOMAIN t : t[i].round = r /\ t[i].output # None
  BY DEF Answered, IterationsOf
<1>2. /\ DOMAIN t = 1..Len(t) /\ DOMAIN t2 = 1..Len(t2) /\ Len(t) \in Nat /\ Len(t2) \in Nat
      /\ Len(t) <= Len(t2)
  BY DEF Grown, Tables
<1>3. i \in DOMAIN t2 /\ t2[i].round = r /\ t2[i].output # None
  BY <1>1, <1>2 DEF Grown
<1> QED
  BY <1>3 DEF Answered, IterationsOf

\* What the threads and the tables are, in the terms of the lemmas.
LEMMA InvTables ==
    ASSUME StepsInv
    PROVE  /\ Tables(rounds, iters)
           /\ rounds \in Seq(Round) /\ Len(rounds) \in Nat /\ DOMAIN rounds = 1..Len(rounds)
           /\ iters \in Seq(Iteration) /\ Len(iters) \in Nat /\ DOMAIN iters = 1..Len(iters)
           /\ work \in [Threads -> [todo: Seq(Statement), made: Nat, asked: Nat]]
           /\ overtaken \subseteq ({"request", "numbers", "status", "skipped", "rounds"} \X Nat)
           /\ session \in SessionStatuses /\ skipped \in SUBSET Agents
BY DEF StepsInv, StepsTypeOK, TypeOK, Tables

\* A thread that is not moved still fits.
LEMMA OthersFit ==
    ASSUME StepsInv, NEW h \in Threads, NEW g \in Threads, g # h,
           KeepsToItsRows(h), work'[g] = work[g], overtaken \subseteq overtaken'
    PROVE  Fits(work'[g], rounds', iters', skipped', overtaken')
<1> DEFINE w == work[g]
           s == w.todo[1]
           r == IF s.round = New THEN w.made ELSE s.round
           i == IF s.request = New THEN w.asked ELSE s.request
<1>1. /\ Fits(w, rounds, iters, skipped, overtaken)
      /\ w.todo \in Seq(Statement) /\ Len(w.todo) \in Nat
  BY InvTables DEF StepsInv
<1>2. CASE w.todo = <<>>
  <2>1. Plan(w.todo, rounds', iters', overtaken')
    BY <1>2, EmptyPlan
  <2>2. Len(rounds) <= Len(rounds') /\ Len(iters) <= Len(iters')
    BY DEF KeepsToItsRows, Grown
  <2>3. /\ Len(rounds) \in Nat /\ Len(rounds') \in Nat /\ Len(iters) \in Nat /\ Len(iters') \in Nat
        /\ w.made \in Nat /\ w.asked \in Nat
    <3>1. Tables(rounds', iters')
      BY DEF KeepsToItsRows, Grown
    <3>2. Len(rounds') \in Nat /\ Len(iters') \in Nat
      BY <3>1 DEF Tables
    <3>3. w.made \in Nat /\ w.asked \in Nat
      BY <1>1 DEF Fits
    <3> QED
      BY <3>2, <3>3, InvTables
  <2>4. w.made <= Len(rounds') /\ w.asked <= Len(iters')
    BY <1>1, <2>2, <2>3 DEF Fits
  <2> QED
    BY <1>1, <1>2, <2>1, <2>4 DEF Fits
<1>3. CASE w.todo # <<>>
  <2>1. g \in Busy
    BY <1>3 DEF Busy
  <2>2. ASSUME NEW row, row \in HeldBy(g), row \notin overtaken'
        PROVE  row \notin MayWrite(h) /\ row \notin overtaken
    BY <2>1, <2>2, SharedIsOvertaken DEF StepsInv
  <2>3. Grown(rounds, iters, rounds', iters') /\ Plan(w.todo, rounds, iters, overtaken)
    BY <1>1 DEF KeepsToItsRows, Fits
  <2>4. /\ Len(rounds) <= Len(rounds') /\ Len(iters) <= Len(iters')
        /\ Len(rounds) \in Nat /\ Len(rounds') \in Nat /\ Len(iters) \in Nat /\ Len(iters') \in Nat
        /\ DOMAIN rounds = 1..Len(rounds) /\ DOMAIN rounds' = 1..Len(rounds')
        /\ DOMAIN iters = 1..Len(iters) /\ DOMAIN iters' = 1..Len(iters')
        /\ w.made \in Nat /\ w.asked \in Nat /\ w.made <= Len(rounds) /\ w.asked <= Len(iters)
    BY <1>1, <2>3 DEF Grown, Tables, Fits
  <2>5. LeavesAlone(w.todo, rounds, rounds', overtaken')
    <3> SUFFICES ASSUME NEW k \in 1..Len(w.todo), Reopens(w.todo[k]),
                        <<"status", w.todo[k].round>> \notin overtaken',
                        rounds[w.todo[k].round].status # "aborted"
                 PROVE  rounds'[w.todo[k].round].status # "aborted"
      BY DEF LeavesAlone
    <3>1. k \in DOMAIN work[g].todo
      BY <1>1
    <3>2. <<"status", w.todo[k].round>> \notin MayWrite(h)
      BY <2>2, <3>1, HoldsWhatItReopens
    <3>3. w.todo[k].round \in DOMAIN rounds
      BY <1>1, <2>3 DEF Plan, Lasting, Reopens, RoundStmts
    <3> QED
      BY <3>2, <3>3 DEF KeepsToItsRows
  <2>6. Plan(w.todo, rounds', iters', overtaken')
    BY <2>3, <2>5, PlanStays
  <2>7. /\ At(g, s.op)
        /\ s.op \in RoundStmts => RoundOf(g) = r
        /\ s.op \in RequestStmts => RequestOf(g) = i
    BY DEF At, Current, RoundOf, RequestOf
  <2>8. Ready(w, rounds, iters, skipped, overtaken)
    BY <1>1, <1>3 DEF Fits
  <2>9. s.op \in RoundStmts => r \in DOMAIN rounds /\ r \in DOMAIN rounds'
    <3>1. s.op \in RoundStmts => r \in DOMAIN rounds
      BY <2>8, Zenon DEF Ready
    <3>2. DOMAIN rounds \subseteq DOMAIN rounds'
      BY <2>4
    <3> HIDE DEF r
    <3> QED
      BY <3>1, <3>2
  <2>10. s.op \in RequestStmts => i \in DOMAIN iters /\ i \in DOMAIN iters'
    <3>1. s.op \in RequestStmts => i \in DOMAIN iters
      BY <2>8, Zenon DEF Ready
    <3>2. DOMAIN iters \subseteq DOMAIN iters'
      BY <2>4
    <3> HIDE DEF i
    <3> QED
      BY <3>1, <3>2
  <2>11. s.op = "advance" => Answered(iters', s.about) # {}
    BY <2>3, <2>8, AnsweredStays DEF Ready
  <2>12. ASSUME s.op = "insert", <<"numbers", r>> \notin overtaken',
                NEW j \in IterationsOf(iters', r)
         PROVE  iters'[j].num < s.num
    <3>1. <<"numbers", r>> \notin MayWrite(h) /\ <<"numbers", r>> \notin overtaken
      BY <2>2, <2>7, <2>12, HoldsWhatItWrites DEF RoundStmts
    <3>2. j \in DOMAIN iters /\ j \in IterationsOf(iters, r) /\ iters'[j].num = iters[j].num
      BY <2>12, <3>1 DEF IterationsOf, KeepsToItsRows, Grown
    <3> QED
      BY <2>8, <2>12, <3>1, <3>2 DEF Ready
  <2>13. ASSUME s.op \in {"release", "record"}, <<"request", i>> \notin overtaken'
         PROVE  /\ s.op = "release" => iters'[i].status = "awaiting_nudge"
                /\ s.op = "record" => iters'[i].status = "awaiting_destination"
    <3>1. <<"request", i>> \notin MayWrite(h) /\ <<"request", i>> \notin overtaken
      BY <2>2, <2>7, <2>13, HoldsWhatItWrites DEF RequestStmts
    <3>2. i \in DOMAIN iters /\ iters'[i].status = iters[i].status
      BY <2>10, <2>13, <3>1 DEF KeepsToItsRows, RequestStmts
    <3> QED
      BY <2>8, <2>13, <3>1, <3>2 DEF Ready
  <2>14. ASSUME s.op = "set_round", s.status = "in_progress", <<"status", r>> \notin overtaken'
         PROVE  rounds'[r].status # "aborted"
    <3>1. <<"status", r>> \notin MayWrite(h) /\ <<"status", r>> \notin overtaken
      BY <2>2, <2>7, <2>14, HoldsWhatItWrites DEF RoundStmts
    <3>2. r \in DOMAIN rounds /\ rounds'[r].status = rounds[r].status
      BY <2>9, <2>14, <3>1 DEF KeepsToItsRows, RoundStmts
    <3> QED
      BY <2>8, <2>14, <3>1, <3>2 DEF Ready
  <2>15. ASSUME s.op = "write_skips", <<"skipped", New>> \notin overtaken'
         PROVE  skipped' \subseteq s.skips
    <3>1. <<"skipped", New>> \notin MayWrite(h) /\ <<"skipped", New>> \notin overtaken
      BY <2>2, <2>7, <2>15, HoldsWhatItWrites
    <3> QED
      BY <2>8, <2>15, <3>1 DEF Ready, KeepsToItsRows
  <2>16. Ready(w, rounds', iters', skipped', overtaken')
    BY <2>9, <2>10, <2>11, <2>12, <2>13, <2>14, <2>15 DEF Ready
  <2>17. w.made <= Len(rounds') /\ w.asked <= Len(iters')
    BY <2>4
  <2> QED
    BY <1>1, <2>6, <2>16, <2>17 DEF Fits
<1> QED
  BY <1>2, <1>3

-----------------------------------------------------------------------------
(***************************************************************************)
(* What a thread sees of its own step.                                     *)
(***************************************************************************)
Handlers == [todo: Seq(Statement), made: Nat, asked: Nat]

\* What a statement that has been carried out leaves for the next one: w is the
\* handler it leaves, t and t2 the iterations before and after.
Leaves(s, w, rs2, t, t2) ==
    /\ s.op # "number"
    /\ s.op = "open_round" => w.made \in DOMAIN rs2 /\ rs2[w.made].status # "aborted"
    /\ s.op \in RoundStmts /\ s.round = New => w.made \in DOMAIN rs2
    /\ s.op = "insert" => w.asked \in DOMAIN t2
    /\ s.op = "check" =>
           LET i == IF s.request = New THEN w.asked ELSE s.request
           IN  i \in DOMAIN t2 /\ t2[i].status = s.status
    /\ s.op = "record" => Answered(t2, t[s.request].round) # {}

LEMMA NextIsReady ==
    ASSUME NEW s, NEW w, NEW rs2, NEW t, NEW t2, NEW sk, NEW over,
           w.todo # <<>>, Plan(w.todo, rs2, t2, over), Follows(s, w.todo[1], t),
           Leaves(s, w, rs2, t, t2)
    PROVE  Ready(w, rs2, t2, sk, over)
<1> DEFINE n == w.todo[1]
           r == IF n.round = New THEN w.made ELSE n.round
           i == IF n.request = New THEN w.asked ELSE n.request
<1>1. Lasting(n, rs2, t2, over)
  BY RestOfPlan
<1>2. Follows(s, n, t)
  OBVIOUS
<1> HIDE DEF n
<1>3. n.op \in RoundStmts => r \in DOMAIN rs2
  <2>1. CASE n.round # New
    BY <1>1, <2>1 DEF Lasting
  <2>2. CASE n.round = New
    BY <1>2, <2>2 DEF Follows, Leaves, RoundStmts
  <2> QED
    BY <2>1, <2>2
<1>4. n.op \in RequestStmts => i \in DOMAIN t2
  <2>1. CASE n.request # New
    BY <1>1, <2>1 DEF Lasting
  <2>2. CASE n.request = New
    BY <1>2, <2>2 DEF Follows, Leaves, RequestStmts
  <2> QED
    BY <2>1, <2>2
<1>5. n.op = "advance" => Answered(t2, n.about) # {}
  BY <1>2 DEF Follows, Leaves
<1>6. n.op \notin {"insert", "write_skips"}
  BY <1>2 DEF Follows
<1>7. /\ n.op = "release" => t2[i].status = "awaiting_nudge"
      /\ n.op = "record" => t2[i].status = "awaiting_destination"
  BY <1>2 DEF Follows, Leaves
<1>8. n.op = "set_round" /\ n.status = "in_progress" /\ <<"status", r>> \notin over =>
          rs2[r].status # "aborted"
  <2>1. CASE n.round # New
    BY <1>1, <2>1 DEF Lasting, Reopens
  <2>2. CASE n.round = New
    BY <1>2, <2>2 DEF Follows, Leaves
  <2> QED
    BY <2>1, <2>2
<1> QED
  BY <1>3, <1>4, <1>5, <1>6, <1>7, <1>8 DEF Ready, n

LEMMA BusyFits ==
    ASSUME StepsInv, NEW h \in Busy
    PROVE  /\ h \in Threads
           /\ work[h] \in Handlers
           /\ work[h].made <= Len(rounds) /\ work[h].asked <= Len(iters)
           /\ work[h].todo # <<>>
           /\ Plan(work[h].todo, rounds, iters, overtaken)
           /\ Ready(work[h], rounds, iters, skipped, overtaken)
           /\ Current(h) = work[h].todo[1]
           /\ Current(h) \in Statement
           /\ Lasting(Current(h), rounds, iters, overtaken)
<1>1. h \in Threads /\ work[h].todo # <<>>
  BY DEF Busy
<1>2. Fits(work[h], rounds, iters, skipped, overtaken)
  BY <1>1 DEF StepsInv
<1>3. Plan(work[h].todo, rounds, iters, overtaken)
  BY <1>2 DEF Fits
<1>4. work[h].todo[1] \in Statement /\ Lasting(work[h].todo[1], rounds, iters, overtaken)
  BY <1>1, <1>3, RestOfPlan
<1> QED
  BY <1>1, <1>2, <1>3, <1>4 DEF Fits, Handlers, Current

\* What the statement a thread is at relies on, in the terms of its action.
LEMMA AtReady ==
    ASSUME StepsInv, NEW h \in Busy
    PROVE  /\ Current(h).op \in RoundStmts => RoundOf(h) \in DOMAIN rounds
           /\ Current(h).op \in RequestStmts => RequestOf(h) \in DOMAIN iters
           /\ Current(h).op = "insert" /\ <<"numbers", RoundOf(h)>> \notin overtaken =>
                  \A j \in IterationsOf(iters, RoundOf(h)) : iters[j].num < Current(h).num
           /\ Current(h).op = "release" /\ <<"request", RequestOf(h)>> \notin overtaken =>
                  iters[RequestOf(h)].status = "awaiting_nudge"
           /\ Current(h).op = "record" /\ <<"request", RequestOf(h)>> \notin overtaken =>
                  iters[RequestOf(h)].status = "awaiting_destination"
           /\ /\ Current(h).op = "set_round" /\ Current(h).status = "in_progress"
              /\ <<"status", RoundOf(h)>> \notin overtaken
              => rounds[RoundOf(h)].status # "aborted"
<1>1. Ready(work[h], rounds, iters, skipped, overtaken)
  BY BusyFits
<1> QED
  BY <1>1, Zenon DEF Ready, Current, RoundOf, RequestOf

\* A handler that goes on with the rest of its list.
LEMMA MovesOn ==
    ASSUME StepsInv, NEW h \in Busy, NEW w \in Handlers,
           w.todo = Tail(work[h].todo),
           w.made <= Len(rounds'), w.asked <= Len(iters'),
           KeepsToItsRows(h),
           LeavesAlone(w.todo, rounds, rounds', overtaken),
           Leaves(Current(h), w, rounds', iters, iters')
    PROVE  Fits(Resting(w), rounds', iters', skipped', overtaken)
<1>1. /\ Plan(work[h].todo, rounds, iters, overtaken)
      /\ work[h].todo # <<>> /\ Current(h) = work[h].todo[1]
  BY BusyFits
<1>2. /\ Plan(w.todo, rounds, iters, overtaken)
      /\ w.todo # <<>> => Follows(Current(h), w.todo[1], iters)
  BY <1>1, RestOfPlan
<1>3. /\ Grown(rounds, iters, rounds', iters')
      /\ rounds' \in Seq(Round) /\ iters' \in Seq(Iteration)
  BY DEF KeepsToItsRows, Grown, Tables
<1>4. Plan(w.todo, rounds', iters', overtaken)
  BY <1>2, <1>3, PlanStays
<1>5. w.todo # <<>> => Ready(w, rounds', iters', skipped', overtaken)
  BY <1>2, <1>4, NextIsReady
<1>6. Fits(w, rounds', iters', skipped', overtaken)
  BY <1>4, <1>5 DEF Fits, Handlers
<1> QED
  BY <1>3, <1>6, RestingFits

-----------------------------------------------------------------------------
(***************************************************************************)
(* The writes.                                                             *)
(***************************************************************************)
\* What AcceptedStands says of a step.
Stands(over) ==
    /\ \A i \in DOMAIN iters : <<"request", i>> \notin over =>
           /\ iters[i].status = "complete" => iters'[i] = iters[i]
           /\ iters[i].nudged => iters'[i].nudged
    /\ <<"skipped", New>> \notin over => skipped \subseteq skipped'
    /\ \A r \in DOMAIN rounds : <<"status", r>> \notin over =>
           (rounds[r].status = "aborted" => rounds'[r].status # "in_progress")

\* The columns nobody's list depends on.
OtherColumns ==
    /\ session' \in SessionStatuses
    /\ reviews' \in SUBSET Review
    /\ \A v \in reviews' : v.round \in DOMAIN rounds'
    /\ skipped' \in SUBSET Agents
    /\ finalized' \in Texts \cup {None}

\* What every step of a thread owes the others and itself.
Steady(h) ==
    /\ KeepsToItsRows(h)
    /\ work' = [work EXCEPT ![h] = work'[h]]
    /\ Fits(work'[h], rounds', iters', skipped', overtaken)
    /\ NudgedOnce(iters')
    /\ Numbered(iters', overtaken)
    /\ OtherColumns
    /\ Stands(overtaken)

LEMMA GrownReflexive ==
    ASSUME NEW rs, NEW t, Tables(rs, t)
    PROVE  Grown(rs, t, rs, t)
BY DEF Grown, Tables

\* Nothing that a list depends on is written.
Quiet ==
    /\ session' \in {session, "drafting"}
    /\ UNCHANGED <<rounds, iters, skipped, finalized>>
    /\ reviews' \in SUBSET Review
    /\ \A v \in reviews' : v.round \in DOMAIN rounds

LEMMA UnchangedIsQuiet ==
    ASSUME StepsInv, UNCHANGED tables
    PROVE  Quiet
BY DEF tables, Quiet, StepsInv, StepsTypeOK, TypeOK

LEMMA QuietIsSteady ==
    ASSUME StepsInv, NEW h \in Threads, NEW w, Quiet,
           work' = [work EXCEPT ![h] = w],
           Fits(w, rounds, iters, skipped, overtaken)
    PROVE  Steady(h)
<1>1. work'[h] = w /\ work' = [work EXCEPT ![h] = work'[h]]
  BY InvTables
<1>2. Grown(rounds, iters, rounds', iters')
  BY InvTables, GrownReflexive DEF Quiet
<1>3. KeepsToItsRows(h)
  BY <1>2 DEF KeepsToItsRows, Quiet
<1>4. OtherColumns
  <2>1. session' \in SessionStatuses
    BY InvTables DEF SessionStatuses, Quiet
  <2> QED
    BY <2>1 DEF OtherColumns, Quiet, StepsInv, StepsTypeOK, TypeOK
<1>5. Stands(overtaken)
  BY DEF Stands, Quiet
<1> QED
  BY <1>1, <1>3, <1>4, <1>5 DEF Steady, StepsInv, Quiet

\* A write to one table that leaves what the others hold to itself.
LEMMA RowsAreKept ==
    ASSUME StepsInv, NEW h \in Busy, UNCHANGED <<iters, skipped>>,
           Tables(rounds', iters), Len(rounds) <= Len(rounds'),
           \A r \in DOMAIN rounds :
               /\ rounds'[r].type = rounds[r].type
               /\ rounds'[r].status # rounds[r].status => <<"status", r>> \in HeldBy(h)
    PROVE  KeepsToItsRows(h)
<1>1. iters' = iters /\ skipped' = skipped /\ Tables(rounds, iters) /\ Len(iters) \in Nat
  BY InvTables
<1>2. Grown(rounds, iters, rounds', iters)
  <2>1. \A r \in DOMAIN rounds : rounds'[r].type = rounds[r].type
    OBVIOUS
  <2>2. Len(iters) <= Len(iters)
    BY <1>1
  <2> QED
    BY <1>1, <2>1, <2>2 DEF Grown
<1> QED
  BY <1>1, <1>2 DEF KeepsToItsRows, MayWrite

LEMMA OpenRoundIsSteady ==
    ASSUME StepsInv, NEW h \in Busy, OpenRound(h)
    PROVE  Steady(h)
<1> DEFINE s == Current(h)
           rd == [NewRound(s.type, s.host) EXCEPT !.status = "pending"]
           w == [work[h] EXCEPT !.todo = Rest(h), !.made = Len(rounds) + 1]
<1>1. /\ s.op = "open_round"
      /\ rounds' = Append(rounds, rd)
      /\ work' = [work EXCEPT ![h] = Resting(w)]
      /\ UNCHANGED <<session, iters, reviews, skipped, finalized>>
  BY DEF OpenRound, At
<1>2. h \in Threads /\ work[h] \in Handlers /\ work[h].todo # <<>> /\ s = work[h].todo[1]
      /\ work[h].made <= Len(rounds) /\ work[h].asked <= Len(iters)
      /\ s \in Statement /\ Lasting(s, rounds, iters, overtaken)
      /\ Plan(work[h].todo, rounds, iters, overtaken)
  BY BusyFits
<1>3. s.type \in RoundTypes /\ s.host \in Hosts \cup {None}
  BY <1>1, <1>2, OpenRoundFields
<1>4. /\ rd \in Round /\ rd.type = s.type /\ rd.host = s.host /\ rd.status = "pending"
  BY <1>3 DEF NewRound, Round, RoundStatuses
<1>5. rd.type = "same_host_pair" => rd.host \in Hosts /\ Len(Workers[rd.host]) = 2
  BY <1>1, <1>2, <1>4 DEF Lasting
<1>6. /\ rounds \in Seq(Round) /\ Len(rounds) \in Nat /\ Tables(rounds, iters)
      /\ work \in [Threads -> Handlers]
  BY InvTables DEF Handlers
<1> HIDE DEF rd
<1>7. /\ rounds' \in Seq(Round) /\ Len(rounds') = Len(rounds) + 1
      /\ rounds'[Len(rounds) + 1] = rd
      /\ \A r \in DOMAIN rounds : rounds'[r] = rounds[r] /\ r \in DOMAIN rounds'
      /\ \A r \in DOMAIN rounds' : r \in DOMAIN rounds \/ r = Len(rounds) + 1
  BY <1>1, <1>4, <1>6
<1>8. Manned(rounds')
  BY <1>5, <1>6, <1>7 DEF Tables, Manned
<1>9. Tables(rounds', iters)
  BY <1>6, <1>7, <1>8 DEF Tables
<1>10. KeepsToItsRows(h)
  BY <1>1, <1>6, <1>7, <1>9, RowsAreKept
<1>11. /\ w \in Handlers /\ w.todo = Tail(work[h].todo)
       /\ w.made = Len(rounds) + 1 /\ w.asked = work[h].asked
  <2>1. Tail(work[h].todo) \in Seq(Statement) /\ Len(rounds) + 1 \in Nat
    BY <1>2, <1>6 DEF Handlers
  <2> QED
    BY <1>2, <2>1 DEF Handlers, Rest
<1> HIDE DEF w
<1>12. LeavesAlone(w.todo, rounds, rounds', overtaken)
  <2> SUFFICES ASSUME NEW k \in 1..Len(w.todo), Reopens(w.todo[k])
               PROVE  FALSE
    BY DEF LeavesAlone
  <2> QED
    BY <1>1, <1>2, <1>11, RestOfPlan
<1>13. Leaves(s, w, rounds', iters, iters')
  BY <1>1, <1>4, <1>6, <1>7, <1>11 DEF Leaves
<1>14. w.made <= Len(rounds') /\ w.asked <= Len(iters')
  BY <1>1, <1>2, <1>6, <1>7, <1>11
<1>15. Fits(Resting(w), rounds', iters', skipped', overtaken)
  BY <1>10, <1>11, <1>12, <1>13, <1>14, MovesOn
<1>16. OtherColumns
  BY <1>1, <1>7 DEF OtherColumns, StepsInv, StepsTypeOK, TypeOK
<1>17. Stands(overtaken)
  BY <1>1, <1>7 DEF Stands
<1>18. work'[h] = Resting(w) /\ work' = [work EXCEPT ![h] = work'[h]]
  BY <1>1, <1>2, <1>6
<1> QED
  BY <1>1, <1>10, <1>15, <1>16, <1>17, <1>18 DEF Steady, StepsInv

\* A statement that is carried out and leaves the thread's own references alone.
LEMMA WrittenFits ==
    ASSUME StepsInv, NEW h \in Busy, Proceed(h, <<>>), KeepsToItsRows(h),
           rounds' = rounds \/ Current(h).op = "set_round",
           Current(h).op \notin {"open_round", "number", "insert"},
           Current(h).op = "record" =>
               Answered(iters', iters[Current(h).request].round) # {},
           Current(h).op = "check" => iters[RequestOf(h)].status = Current(h).status /\ iters' = iters
    PROVE  /\ work' = [work EXCEPT ![h] = work'[h]]
           /\ Fits(work'[h], rounds', iters', skipped', overtaken)
<1> DEFINE s == Current(h)
           w == [work[h] EXCEPT !.todo = Rest(h)]
<1>1. /\ h \in Threads /\ work[h] \in Handlers /\ work[h].todo # <<>>
      /\ work[h].made <= Len(rounds) /\ work[h].asked <= Len(iters)
      /\ Plan(work[h].todo, rounds, iters, overtaken)
      /\ Ready(work[h], rounds, iters, skipped, overtaken)
      /\ s = work[h].todo[1]
  BY BusyFits
<1>2. /\ work \in [Threads -> Handlers] /\ Len(rounds) \in Nat /\ Len(iters) \in Nat
      /\ DOMAIN rounds = 1..Len(rounds) /\ DOMAIN iters = 1..Len(iters)
  BY InvTables DEF Handlers
<1>3. Rest(h) \in Seq(Statement) /\ <<>> \o Rest(h) = Rest(h)
  <2>1. Rest(h) \in Seq(Statement)
    BY <1>1 DEF Handlers, Rest
  <2> QED
    BY <2>1
<1>4. /\ w \in Handlers /\ w.todo = Tail(work[h].todo)
      /\ w.made = work[h].made /\ w.asked = work[h].asked
  BY <1>1, <1>3 DEF Handlers, Rest
<1>5. work' = [work EXCEPT ![h] = Resting(w)]
  BY <1>3 DEF Proceed
<1> HIDE DEF w, s
<1>6. /\ Len(rounds) <= Len(rounds') /\ Len(iters) <= Len(iters')
      /\ Len(rounds') \in Nat /\ Len(iters') \in Nat
      /\ DOMAIN rounds' = 1..Len(rounds') /\ DOMAIN iters' = 1..Len(iters')
  BY DEF KeepsToItsRows, Grown, Tables
<1>7. w.made <= Len(rounds') /\ w.asked <= Len(iters')
  BY <1>1, <1>2, <1>4, <1>6 DEF Handlers
<1>8. LeavesAlone(w.todo, rounds, rounds', overtaken)
  <2>1. CASE rounds' = rounds
    BY <2>1 DEF LeavesAlone
  <2>2. CASE s.op = "set_round"
    <3> SUFFICES ASSUME NEW k \in 1..Len(w.todo), Reopens(w.todo[k])
                 PROVE  FALSE
      BY DEF LeavesAlone
    <3> QED
      BY <1>1, <1>4, <2>2, RestOfPlan
  <2> QED
    BY <2>1, <2>2 DEF s
<1>9. s.op \in RoundStmts /\ s.round = New => w.made \in DOMAIN rounds'
  BY <1>1, <1>2, <1>4, <1>6 DEF Ready
<1>10. s.op = "check" =>
           LET i == IF s.request = New THEN w.asked ELSE s.request
           IN  i \in DOMAIN iters' /\ iters'[i].status = s.status
  <2> SUFFICES ASSUME s.op = "check"
               PROVE  LET i == IF s.request = New THEN w.asked ELSE s.request
                      IN  i \in DOMAIN iters' /\ iters'[i].status = s.status
    OBVIOUS
  <2> DEFINE i == IF s.request = New THEN w.asked ELSE s.request
  <2>1. RequestOf(h) = i
    BY <1>4 DEF RequestOf, s
  <2>2. i \in DOMAIN iters
    BY <1>1, <1>4 DEF Ready, RequestStmts
  <2>3. iters[i].status = s.status /\ iters' = iters
    BY <2>1 DEF s
  <2> QED
    BY <2>2, <2>3
<1>11. Leaves(s, w, rounds', iters, iters')
  BY <1>9, <1>10 DEF Leaves, s
<1>12. Fits(Resting(w), rounds', iters', skipped', overtaken)
  BY <1>4, <1>7, <1>8, <1>11, MovesOn DEF s
<1> QED
  BY <1>1, <1>2, <1>5, <1>12

LEMMA SetRoundIsSteady ==
    ASSUME StepsInv, NEW h \in Busy, SetRound(h)
    PROVE  Steady(h)
<1> DEFINE s == Current(h)
           r == RoundOf(h)
<1>1. /\ s.op = "set_round" /\ Proceed(h, <<>>)
      /\ rounds' = UpdateRound(rounds, r, s.status, s.outcome)
      /\ UNCHANGED <<session, iters, reviews, skipped, finalized>>
  BY DEF SetRound, At
<1>2. /\ Ready(work[h], rounds, iters, skipped, overtaken) /\ s \in Statement
      /\ s = work[h].todo[1]
  BY BusyFits
<1>3. r = IF s.round = New THEN work[h].made ELSE s.round
  BY DEF RoundOf
<1>4. /\ r \in DOMAIN rounds
      /\ s.status = "in_progress" /\ <<"status", r>> \notin overtaken =>
             rounds[r].status # "aborted"
  BY <1>1, AtReady DEF RoundStmts
<1>5. s.status \in RoundStatuses /\ s.outcome \in Texts \cup {None}
  BY <1>1, <1>2, SetRoundFields
<1> HIDE DEF r, s
<1>6. Tables(rounds', iters) /\ Len(rounds') = Len(rounds)
  BY <1>1, <1>4, <1>5, InvTables, UpdateRoundKeeps
<1>7. \A q \in DOMAIN rounds :
          /\ rounds'[q].type = rounds[q].type
          /\ rounds'[q].status = IF q = r THEN s.status ELSE rounds[q].status
  <2>1. \A q \in DOMAIN rounds : rounds[q] \in Round
    BY InvTables
  <2> QED
    BY <1>1, <1>4, <2>1 DEF UpdateRound, Round
<1>8. <<"status", r>> \in HeldBy(h)
  BY <1>1, HoldsWhatItWrites DEF At, r, s
<1>9. KeepsToItsRows(h)
  <2>1. Len(rounds) <= Len(rounds')
    BY <1>6, InvTables
  <2>2. \A q \in DOMAIN rounds :
            /\ rounds'[q].type = rounds[q].type
            /\ rounds'[q].status # rounds[q].status => <<"status", q>> \in HeldBy(h)
    BY <1>7, <1>8
  <2> QED
    BY <1>1, <1>6, <2>1, <2>2, RowsAreKept
<1>10. /\ work' = [work EXCEPT ![h] = work'[h]]
       /\ Fits(work'[h], rounds', iters', skipped', overtaken)
  BY <1>1, <1>9, WrittenFits DEF s
<1>11. DOMAIN rounds' = DOMAIN rounds
  BY <1>6, InvTables DEF Tables
<1>12. OtherColumns
  BY <1>1, <1>11 DEF OtherColumns, StepsInv, StepsTypeOK, TypeOK
<1>13. Stands(overtaken)
  BY <1>1, <1>4, <1>7 DEF Stands
<1> QED
  BY <1>1, <1>9, <1>10, <1>12, <1>13 DEF Steady, StepsInv

\* Statements that write neither rounds nor requests.
LEMMA SessionWriteIsSteady ==
    ASSUME StepsInv, NEW h \in Busy, SetSession(h) \/ Finalize(h) \/ WriteSkips(h)
    PROVE  Steady(h)
<1> DEFINE s == Current(h)
<1>1. /\ s.op \in {"set_session", "finalize", "write_skips"} /\ Proceed(h, <<>>)
      /\ rounds' = rounds /\ iters' = iters /\ reviews' = reviews
  BY DEF SetSession, Finalize, WriteSkips, At
<1>2. /\ Ready(work[h], rounds, iters, skipped, overtaken) /\ s \in Statement
      /\ s = work[h].todo[1]
  BY BusyFits
<1>3. /\ session' = IF s.op = "set_session" THEN s.status ELSE session
      /\ skipped' = IF s.op = "write_skips" THEN s.skips ELSE skipped
      /\ \/ finalized' \in {finalized, Round2Outcome(rounds)}
         \/ s.op = "finalize" /\ finalized' = s.output
  BY DEF SetSession, Finalize, WriteSkips, At
<1>4. /\ session' \in SessionStatuses /\ skipped' \in SUBSET Agents
      /\ finalized' \in Texts \cup {None}
  <2>1. Round2Outcome(rounds) \in Texts \cup {None} /\ finalized \in Texts \cup {None}
    BY InvTables, Round2OutcomeIsText DEF StepsInv, StepsTypeOK, TypeOK
  <2>2. /\ s.op = "set_session" => s.status \in SessionStatuses
        /\ s.op = "write_skips" => s.skips \in SUBSET Agents
        /\ s.op = "finalize" => s.output \in Texts
    BY <1>2, WriteFields
  <2> HIDE DEF s
  <2> QED
    BY <1>3, <2>1, <2>2, InvTables
<1>5. OtherColumns
  BY <1>1, <1>4 DEF OtherColumns, StepsInv, StepsTypeOK, TypeOK
<1>6. s.op = "write_skips" => <<"skipped", New>> \in HeldBy(h)
  BY HoldsWhatItWrites DEF At
<1>7. s.op = "write_skips" /\ <<"skipped", New>> \notin overtaken => skipped \subseteq s.skips
  BY <1>2 DEF Ready
<1> HIDE DEF s
<1>8. Grown(rounds, iters, rounds', iters')
  BY <1>1, InvTables, GrownReflexive
<1>9. KeepsToItsRows(h)
  BY <1>1, <1>3, <1>6, <1>8 DEF KeepsToItsRows, MayWrite
<1>10. /\ work' = [work EXCEPT ![h] = work'[h]]
       /\ Fits(work'[h], rounds', iters', skipped', overtaken)
  BY <1>1, <1>9, WrittenFits DEF s
<1>11. Stands(overtaken)
  BY <1>1, <1>3, <1>7 DEF Stands
<1> QED
  BY <1>1, <1>5, <1>9, <1>10, <1>11 DEF Steady, StepsInv

\* Rewriting one request, the one the handler holds.
LEMMA RequestRewritten ==
    ASSUME StepsInv, NEW h \in Busy, NEW i \in DOMAIN iters,
           UNCHANGED <<rounds, skipped>>,
           <<"request", i>> \in HeldBy(h),
           NEW row \in Iteration, iters' = [iters EXCEPT ![i] = row],
           row.round = iters[i].round, row.num = iters[i].num,
           iters[i].output # None => row.output # None,
           row.status = "awaiting_nudge" => ~row.nudged
    PROVE  /\ KeepsToItsRows(h)
           /\ NudgedOnce(iters')
           /\ Numbered(iters', overtaken)
           /\ \A j \in DOMAIN iters : iters'[j] = IF j = i THEN row ELSE iters[j]
<1>1. /\ Tables(rounds, iters) /\ iters \in Seq(Iteration) /\ Len(iters) \in Nat
      /\ NudgedOnce(iters) /\ Numbered(iters, overtaken)
  BY InvTables DEF StepsInv
<1>2. /\ iters' \in Seq(Iteration) /\ Len(iters') = Len(iters) /\ DOMAIN iters' = DOMAIN iters
      /\ \A j \in DOMAIN iters : iters'[j] = IF j = i THEN row ELSE iters[j]
  BY <1>1
<1>3. \A j \in DOMAIN iters :
          /\ iters'[j].round = iters[j].round /\ iters'[j].num = iters[j].num
          /\ iters[j].output # None => iters'[j].output # None
  BY <1>2
<1>4. Tables(rounds, iters')
  BY <1>1, <1>2, <1>3 DEF Tables
<1>5. rounds' = rounds /\ skipped' = skipped /\ Len(rounds) \in Nat
  BY InvTables
<1>6. Grown(rounds, iters, rounds, iters')
  <2>1. Len(iters) <= Len(iters') /\ Len(rounds) <= Len(rounds)
    BY <1>1, <1>2, <1>5
  <2> QED
    BY <1>1, <1>3, <1>4, <2>1 DEF Grown
<1>7. KeepsToItsRows(h)
  BY <1>2, <1>5, <1>6 DEF KeepsToItsRows, MayWrite
<1>8. NudgedOnce(iters')
  BY <1>1, <1>2 DEF NudgedOnce
<1>9. Numbered(iters', overtaken)
  BY <1>1, <1>2, <1>3 DEF Numbered
<1> QED
  BY <1>2, <1>7, <1>8, <1>9

LEMMA ReleaseIsSteady ==
    ASSUME StepsInv, NEW h \in Busy, Release(h)
    PROVE  Steady(h)
<1> DEFINE s == Current(h)
           i == RequestOf(h)
           row == [iters[i] EXCEPT !.status = "awaiting_destination", !.nudged = s.nudged]
<1>1. /\ s.op = "release" /\ Proceed(h, <<>>)
      /\ iters' = [iters EXCEPT ![i].status = "awaiting_destination", ![i].nudged = s.nudged]
      /\ UNCHANGED <<session, rounds, reviews, skipped, finalized>>
  BY DEF Release, At
<1>2. /\ Ready(work[h], rounds, iters, skipped, overtaken) /\ s \in Statement
      /\ s = work[h].todo[1]
  BY BusyFits
<1>3. i = IF s.request = New THEN work[h].asked ELSE s.request
  BY DEF RequestOf
<1>4. /\ i \in DOMAIN iters
      /\ <<"request", i>> \notin overtaken => iters[i].status = "awaiting_nudge"
  <2> HIDE DEF i, s
  <2>1. s.op \in RequestStmts
    BY <1>1 DEF RequestStmts
  <2>2. i \in DOMAIN iters
    BY <1>2, <1>3, <2>1 DEF Ready
  <2>3. <<"request", i>> \notin overtaken => iters[i].status = "awaiting_nudge"
    BY <1>1, <1>2, <1>3 DEF Ready
  <2> QED
    BY <2>2, <2>3
<1>5. s.nudged \in BOOLEAN /\ iters[i] \in Iteration
  BY <1>1, <1>2, <1>4, WriteFields, InvTables
<1>6. <<"request", i>> \in HeldBy(h)
  BY <1>1, HoldsWhatItWrites DEF At
<1> HIDE DEF i, s
<1>7. /\ row \in Iteration /\ row.round = iters[i].round /\ row.num = iters[i].num
      /\ row.output = iters[i].output /\ row.status = "awaiting_destination"
      /\ row.status # "awaiting_nudge"
  BY <1>5 DEF Iteration, IterationStatuses
<1>8. iters' = [iters EXCEPT ![i] = row]
  BY <1>1, <1>4, <1>5 DEF Iteration
<1> HIDE DEF row
<1>9. /\ KeepsToItsRows(h) /\ NudgedOnce(iters') /\ Numbered(iters', overtaken)
      /\ \A j \in DOMAIN iters : iters'[j] = IF j = i THEN row ELSE iters[j]
  <2>1. /\ row.status = "awaiting_nudge" => ~row.nudged
        /\ iters[i].output # None => row.output # None
    BY <1>7
  <2>2. UNCHANGED <<rounds, skipped>>
    BY <1>1
  <2> QED
    BY <1>4, <1>6, <1>7, <1>8, <2>1, <2>2, RequestRewritten
<1>10. /\ work' = [work EXCEPT ![h] = work'[h]]
       /\ Fits(work'[h], rounds', iters', skipped', overtaken)
  BY <1>1, <1>9, WrittenFits DEF s
<1>11. OtherColumns
  BY <1>1 DEF OtherColumns, StepsInv, StepsTypeOK, TypeOK
<1>12. Stands(overtaken)
  BY <1>1, <1>4, <1>9 DEF Stands, StepsInv, NudgedOnce
<1> QED
  BY <1>9, <1>10, <1>11, <1>12 DEF Steady

LEMMA RecordIsSteady ==
    ASSUME StepsInv, NEW h \in Busy, Record(h)
    PROVE  Steady(h)
<1> DEFINE s == Current(h)
           i == RequestOf(h)
           row == [iters[i] EXCEPT !.output = s.output, !.assess = s.assess,
                                   !.status = "complete"]
<1>1. /\ s.op = "record" /\ Proceed(h, <<>>)
      /\ iters' = Respond(iters, i, s.output, s.assess)
      /\ UNCHANGED <<session, rounds, reviews, skipped, finalized>>
  BY DEF Record, At
<1>2. /\ Ready(work[h], rounds, iters, skipped, overtaken) /\ s \in Statement
      /\ s = work[h].todo[1] /\ Lasting(s, rounds, iters, overtaken)
  BY BusyFits
<1>3. i = s.request
  BY <1>1, <1>2 DEF RequestOf, Lasting
<1>4. /\ i \in DOMAIN iters
      /\ <<"request", i>> \notin overtaken => iters[i].status = "awaiting_destination"
  BY <1>1, AtReady DEF RequestStmts
<1>5. /\ s.output \in Texts /\ s.assess \in {"converged", "more_work_needed"}
      /\ iters[i] \in Iteration
  BY <1>1, <1>2, <1>4, WriteFields, InvTables
<1>6. <<"request", i>> \in HeldBy(h)
  BY <1>1, HoldsWhatItWrites DEF At
<1> HIDE DEF i, s
<1>7. /\ row \in Iteration /\ row.round = iters[i].round /\ row.num = iters[i].num
      /\ row.output = s.output /\ row.status = "complete" /\ row.nudged = iters[i].nudged
  BY <1>5 DEF Iteration, IterationStatuses
<1>8. iters' = [iters EXCEPT ![i] = row]
  BY <1>1, <1>4, <1>5 DEF Respond, Iteration
<1> HIDE DEF row
<1>9. s.output # None
  BY <1>5, RegistryAssumption
<1>10. /\ KeepsToItsRows(h) /\ NudgedOnce(iters') /\ Numbered(iters', overtaken)
       /\ \A j \in DOMAIN iters : iters'[j] = IF j = i THEN row ELSE iters[j]
  BY <1>1, <1>4, <1>6, <1>7, <1>8, <1>9, RequestRewritten
<1>11. i \in Answered(iters', iters[i].round)
  <2>1. DOMAIN iters' = DOMAIN iters
    BY <1>8
  <2> QED
    BY <1>4, <1>7, <1>9, <1>10, <2>1 DEF Answered, IterationsOf
<1>12. /\ work' = [work EXCEPT ![h] = work'[h]]
       /\ Fits(work'[h], rounds', iters', skipped', overtaken)
  BY <1>1, <1>3, <1>10, <1>11, WrittenFits DEF s
<1>13. OtherColumns
  BY <1>1 DEF OtherColumns, StepsInv, StepsTypeOK, TypeOK
<1>14. Stands(overtaken)
  BY <1>1, <1>4, <1>7, <1>10 DEF Stands
<1> QED
  BY <1>10, <1>12, <1>13, <1>14 DEF Steady

LEMMA InsertIsSteady ==
    ASSUME StepsInv, NEW h \in Busy, Insert(h)
    PROVE  Steady(h)
<1> DEFINE s == Current(h)
           r == RoundOf(h)
           row == NewIteration(r, s.num, s.src, s.dst, s.input)
           w == [work[h] EXCEPT !.todo = Rest(h), !.asked = Len(iters) + 1]
<1>1. /\ s.op = "insert" /\ iters' = Append(iters, row)
      /\ work' = [work EXCEPT ![h] = Resting(w)]
      /\ UNCHANGED <<session, rounds, reviews, skipped, finalized>>
  BY DEF Insert, At
<1>2. /\ h \in Threads /\ work[h] \in Handlers /\ work[h].todo # <<>> /\ s = work[h].todo[1]
      /\ work[h].made <= Len(rounds) /\ work[h].asked <= Len(iters)
      /\ s \in Statement /\ Ready(work[h], rounds, iters, skipped, overtaken)
      /\ Plan(work[h].todo, rounds, iters, overtaken)
  BY BusyFits
<1>3. r = IF s.round = New THEN work[h].made ELSE s.round
  BY DEF RoundOf
<1>4. /\ r \in DOMAIN rounds
      /\ <<"numbers", r>> \notin overtaken => \A j \in IterationsOf(iters, r) : iters[j].num < s.num
  BY <1>1, AtReady DEF RoundStmts
<1>5. <<"numbers", r>> \in HeldBy(h)
  BY <1>1, HoldsWhatItWrites DEF At
<1>6. /\ iters \in Seq(Iteration) /\ Len(iters) \in Nat /\ Tables(rounds, iters)
      /\ work \in [Threads -> Handlers] /\ Len(rounds) \in Nat /\ DOMAIN rounds = 1..Len(rounds)
      /\ DOMAIN iters = 1..Len(iters)
      /\ NudgedOnce(iters) /\ Numbered(iters, overtaken)
  BY InvTables DEF Handlers, StepsInv
<1>7. row \in Iteration
  <2>1. /\ s.src \in Agents \cup {None} /\ s.dst \in Agents /\ s.input \in Inputs
        /\ s.num \in Nat \ {0}
    BY <1>1, <1>2, NumberFields, InsertFields
  <2>2. r \in Nat \ {0}
    BY <1>4, <1>6
  <2> HIDE DEF r, s
  <2> QED
    BY <2>1, <2>2, NewIterationIsIteration
<1>8. row.round = r /\ row.num = s.num /\ row.status = "awaiting_nudge" /\ ~row.nudged
  BY DEF NewIteration
<1>9. /\ w \in Handlers /\ w.todo = Tail(work[h].todo)
      /\ w.asked = Len(iters) + 1 /\ w.made = work[h].made
  <2>1. Rest(h) \in Seq(Statement) /\ Len(iters) + 1 \in Nat
    BY <1>2, <1>6 DEF Handlers, Rest
  <2> QED
    BY <1>2, <2>1 DEF Handlers, Rest
<1> HIDE DEF row, w, r, s
<1>10. /\ iters' \in Seq(Iteration) /\ Len(iters') = Len(iters) + 1
       /\ iters'[Len(iters) + 1] = row /\ Len(iters) + 1 \in DOMAIN iters'
       /\ \A j \in DOMAIN iters : iters'[j] = iters[j] /\ j \in DOMAIN iters'
       /\ \A j \in DOMAIN iters' : j \in DOMAIN iters \/ j = Len(iters) + 1
  BY <1>1, <1>6, <1>7
<1>11. Tables(rounds, iters')
  BY <1>4, <1>6, <1>8, <1>10 DEF Tables
<1>12. rounds' = rounds /\ skipped' = skipped
  BY <1>1
<1>13. Grown(rounds, iters, rounds, iters')
  <2>1. Len(iters) <= Len(iters') /\ Len(rounds) <= Len(rounds)
    BY <1>6, <1>10
  <2> QED
    BY <1>6, <1>10, <1>11, <2>1 DEF Grown
<1>14. KeepsToItsRows(h)
  <2>1. \A j \in DOMAIN iters' \ DOMAIN iters : iters'[j].round = r
    BY <1>8, <1>10
  <2> QED
    BY <1>5, <1>10, <1>12, <1>13, <2>1 DEF KeepsToItsRows, MayWrite
<1>15. NudgedOnce(iters')
  BY <1>6, <1>8, <1>10 DEF NudgedOnce
<1>16. Numbered(iters', overtaken)
  <2> SUFFICES ASSUME NEW i \in DOMAIN iters', NEW j \in DOMAIN iters', i # j,
                      iters'[i].round = iters'[j].round,
                      <<"numbers", iters'[i].round>> \notin overtaken
               PROVE  iters'[i].num # iters'[j].num
    BY DEF Numbered
  <2>1. CASE i \in DOMAIN iters /\ j \in DOMAIN iters
    BY <1>6, <1>10, <2>1 DEF Numbered
  <2>2. ASSUME NEW k \in DOMAIN iters, iters[k].round = r, <<"numbers", r>> \notin overtaken
        PROVE  iters[k].num # s.num
    <3>1. iters[k].num < s.num
      BY <1>4, <2>2 DEF IterationsOf
    <3>3. iters[k] \in Iteration
      BY InvTables
    <3>4. iters[k].num \in Nat
      BY <3>3 DEF Iteration
    <3>2. s.num \in Nat
      BY <1>7, <1>8 DEF Iteration
    <3> QED
      BY <3>1, <3>2, <3>4
  <2> QED
    BY <1>8, <1>10, <2>1, <2>2
<1>17. LeavesAlone(w.todo, rounds, rounds', overtaken)
  BY <1>12 DEF LeavesAlone
<1>18. s.op \in RoundStmts /\ s.round = New => w.made \in DOMAIN rounds'
  BY <1>3, <1>4, <1>9, <1>12
<1>19. Leaves(s, w, rounds', iters, iters')
  BY <1>1, <1>9, <1>10, <1>18 DEF Leaves
<1>20. w.made <= Len(rounds') /\ w.asked <= Len(iters')
  BY <1>2, <1>6, <1>9, <1>10, <1>12
<1>21. Fits(Resting(w), rounds', iters', skipped', overtaken)
  BY <1>9, <1>14, <1>17, <1>19, <1>20, MovesOn DEF s
<1>22. OtherColumns
  BY <1>1 DEF OtherColumns, StepsInv, StepsTypeOK, TypeOK
<1>23. Stands(overtaken)
  BY <1>10, <1>12 DEF Stands
<1>24. work'[h] = Resting(w) /\ work' = [work EXCEPT ![h] = work'[h]]
  BY <1>1, <1>2, <1>6
<1> QED
  BY <1>14, <1>15, <1>16, <1>21, <1>22, <1>23, <1>24 DEF Steady

LEMMA WriteIsSteady ==
    ASSUME StepsInv, Write
    PROVE  \E h \in Threads : Steady(h)
<1>1. PICK h \in Busy :
          \/ OpenRound(h) \/ SetRound(h) \/ Insert(h) \/ Release(h) \/ Record(h)
          \/ SetSession(h) \/ Finalize(h) \/ WriteSkips(h)
  BY DEF Write
<1>2. Steady(h)
  BY <1>1, OpenRoundIsSteady, SetRoundIsSteady, InsertIsSteady, ReleaseIsSteady,
     RecordIsSteady, SessionWriteIsSteady
<1> QED
  BY <1>2 DEF Busy

-----------------------------------------------------------------------------
(***************************************************************************)
(* The reads.  They leave the tables alone; what is to be shown is that    *)
(* the statements they lead to fit.                                        *)
(***************************************************************************)
\* A plan that a handler may go on with: what it starts with is ready.
Continues(h, p) ==
    /\ Plan(p, rounds, iters, overtaken)
    /\ p # <<>> =>
           Ready([work[h] EXCEPT !.todo = p], rounds, iters, skipped, overtaken)

LEMMA ContinuedIsSteady ==
    ASSUME StepsInv, NEW h \in Busy, NEW p, Proceed(h, p), UNCHANGED tables,
           Continues(h, p \o Rest(h))
    PROVE  Steady(h)
<1> DEFINE q == p \o Rest(h)
           w == [work[h] EXCEPT !.todo = q]
<1>1. /\ h \in Threads /\ work[h] \in Handlers
      /\ work[h].made <= Len(rounds) /\ work[h].asked <= Len(iters)
  BY BusyFits
<1>2. q \in Seq(Statement)
  BY DEF Continues, Plan
<1>3. work' = [work EXCEPT ![h] = Resting(w)]
  BY DEF Proceed
<1> HIDE DEF q
<1>4. /\ w \in Handlers /\ w.todo = q /\ w.made = work[h].made /\ w.asked = work[h].asked
  BY <1>1, <1>2 DEF Handlers
<1>5. Plan(q, rounds, iters, overtaken) /\ (q # <<>> => Ready(w, rounds, iters, skipped, overtaken))
  BY DEF Continues, q
<1> HIDE DEF w
<1>6. Fits(w, rounds, iters, skipped, overtaken)
  BY <1>1, <1>4, <1>5 DEF Fits, Handlers
<1>7. Fits(Resting(w), rounds, iters, skipped, overtaken)
  BY <1>6, InvTables, RestingFits
<1> QED
  BY <1>1, <1>3, <1>7, UnchangedIsQuiet, QuietIsSteady

LEMMA AbandonedIsSteady ==
    ASSUME StepsInv, NEW h \in Busy, Abandon(h), UNCHANGED tables
    PROVE  Steady(h)
<1>1. h \in Threads /\ work' = [work EXCEPT ![h] = Idle]
  BY DEF Abandon, Busy
<1>2. Fits(Idle, rounds, iters, skipped, overtaken)
  BY InvTables, IdleFits
<1> QED
  BY <1>1, <1>2, UnchangedIsQuiet, QuietIsSteady

LEMMA CheckIsSteady ==
    ASSUME StepsInv, NEW h \in Busy, Check(h), UNCHANGED tables
    PROVE  Steady(h)
<1>1. CASE Abandon(h)
  BY <1>1, AbandonedIsSteady
<1>2. CASE iters[RequestOf(h)].status = Current(h).status /\ Proceed(h, <<>>)
  <2>1. Current(h).op = "check"
    BY DEF Check, At
  <2>2. UNCHANGED <<session, rounds, iters, reviews, skipped, finalized>>
    BY DEF tables
  <2>3. Grown(rounds, iters, rounds', iters') /\ h \in Threads
    BY <2>2, InvTables, GrownReflexive DEF Busy
  <2>4. KeepsToItsRows(h)
    BY <2>2, <2>3 DEF KeepsToItsRows
  <2>5. /\ work' = [work EXCEPT ![h] = work'[h]]
        /\ Fits(work'[h], rounds, iters, skipped, overtaken)
    BY <1>2, <2>1, <2>2, <2>4, WrittenFits
  <2> QED
    BY <2>2, <2>3, <2>5, UnchangedIsQuiet, QuietIsSteady
<1> QED
  BY <1>1, <1>2 DEF Check

\* The rest of a handler that reads, behind what the read led to.
LEMMA RestContinues ==
    ASSUME StepsInv, NEW h \in Busy
    PROVE  /\ Rest(h) \in Seq(Statement)
           /\ Plan(Rest(h), rounds, iters, overtaken)
           /\ Rest(h) # <<>> => Follows(Current(h), Rest(h)[1], iters)
           /\ \A k \in 1..Len(Rest(h)) : Reopens(Rest(h)[k]) =>
                  Current(h).op \in {"number", "insert", "check", "release"}
           /\ Current(h).op \in LastReads => Rest(h) = <<>>
<1>1. /\ Plan(work[h].todo, rounds, iters, overtaken) /\ work[h].todo # <<>>
      /\ Current(h) = work[h].todo[1]
  BY BusyFits
<1>2. Plan(Rest(h), rounds, iters, overtaken)
  BY <1>1, RestOfPlan DEF Rest
<1>3. Rest(h) \in Seq(Statement)
  BY <1>2 DEF Plan
<1> QED
  BY <1>1, <1>2, <1>3, RestOfPlan, NothingFollowsLastReads DEF Rest

\* A read that leads to one statement and goes on behind it.
LEMMA OneStatementContinues ==
    ASSUME StepsInv, NEW h \in Busy, NEW s \in Statement,
           Lasting(s, rounds, iters, overtaken),
           Ready([work[h] EXCEPT !.todo = <<s>>], rounds, iters, skipped, overtaken),
           Joins(<<s>>, Rest(h), iters)
    PROVE  Continues(h, <<s>> \o Rest(h))
<1> DEFINE q == <<s>> \o Rest(h)
<1>1. Rest(h) \in Seq(Statement) /\ Plan(Rest(h), rounds, iters, overtaken)
  BY RestContinues
<1>2. Plan(q, rounds, iters, overtaken)
  BY <1>1, OnePlan, JoinedPlan
<1>3. q[1] = s /\ <<s>>[1] = s
  BY <1>1
<1>4. work[h] \in Handlers
  BY BusyFits
<1> HIDE DEF q
<1>5. /\ [work[h] EXCEPT !.todo = q].todo = q
      /\ [work[h] EXCEPT !.todo = q].made = work[h].made
      /\ [work[h] EXCEPT !.todo = q].asked = work[h].asked
      /\ [work[h] EXCEPT !.todo = <<s>>].todo = <<s>>
      /\ [work[h] EXCEPT !.todo = <<s>>].made = work[h].made
      /\ [work[h] EXCEPT !.todo = <<s>>].asked = work[h].asked
  BY <1>4 DEF Handlers
<1>6. Ready([work[h] EXCEPT !.todo = q], rounds, iters, skipped, overtaken)
  BY <1>3, <1>5 DEF Ready
<1> QED
  BY <1>2, <1>6 DEF Continues, q

\* Numbers on record have a bound.
LEMMA NumbersAreBounded ==
    ASSUME NEW n \in Nat, NEW f \in [1..n -> Nat]
    PROVE  \E m \in Nat : \A k \in 1..n : f[k] <= m
<1> DEFINE Bounded(k) == \E m \in Nat : \A j \in 1..k : f[j] <= m
           Unbounded == {k \in 0..n : ~Bounded(k)}
<1>1. SUFFICES Unbounded = {}
  <2>1. n \in 0..n
    OBVIOUS
  <2> QED
    BY <2>1
<1>2. SUFFICES ASSUME Unbounded # {}
               PROVE  FALSE
  OBVIOUS
<1>3. PICK k \in Unbounded : \A j \in Unbounded : ~(<<j, k>> \in OpToRel(<, Nat))
  <2>1. Unbounded \subseteq Nat
    OBVIOUS
  <2> HIDE DEF Unbounded
  <2> QED
    BY <1>2, <2>1, WFMin, NatLessThanWellFounded
<1>4. k \in 0..n /\ ~Bounded(k)
  OBVIOUS
<1>5. Bounded(0)
  <2>1. \A j \in 1..0 : f[j] <= 0
    OBVIOUS
  <2> QED
    BY <2>1
<1> HIDE DEF Bounded
<1>6. k # 0
  BY <1>4, <1>5
<1>7. k - 1 \in 0..n /\ <<k - 1, k>> \in OpToRel(<, Nat)
  <2>1. k - 1 \in 0..n /\ k - 1 < k /\ k \in Nat
    BY <1>4, <1>6
  <2>2. LET p == <<k - 1, k>> IN p \in Nat \X Nat /\ p[1] < p[2]
    BY <2>1
  <2> QED
    BY <2>1, <2>2 DEF OpToRel
<1>8. Bounded(k - 1)
  BY <1>3, <1>7
<1>9. PICK m \in Nat : \A j \in 1..(k - 1) : f[j] <= m
  BY <1>8 DEF Bounded
<1>10. f[k] \in Nat
  BY <1>4, <1>6
<1>11. CASE m <= f[k]
  <2>1. \A j \in 1..k : f[j] <= f[k]
    BY <1>4, <1>9, <1>10, <1>11
  <2> QED
    BY <1>4, <1>10, <2>1 DEF Bounded
<1>12. CASE f[k] <= m
  <2>1. \A j \in 1..k : f[j] <= m
    BY <1>4, <1>9, <1>10, <1>12
  <2> QED
    BY <1>4, <2>1 DEF Bounded
<1> QED
  BY <1>10, <1>11, <1>12

\* The number after those on record.
NextNumber(r) ==
    LET nums == {iters[i].num : i \in IterationsOf(iters, r)}
    IN  IF nums = {} THEN 1 ELSE Latest(nums) + 1

LEMMA NextNumberIsNew ==
    ASSUME StepsInv, NEW r
    PROVE  /\ NextNumber(r) \in Nat \ {0}
           /\ \A i \in IterationsOf(iters, r) : iters[i].num < NextNumber(r)
<1> DEFINE nums == {iters[i].num : i \in IterationsOf(iters, r)}
           n == IF nums = {} THEN 1 ELSE Latest(nums) + 1
<1> SUFFICES n \in Nat \ {0} /\ \A i \in IterationsOf(iters, r) : iters[i].num < n
  BY DEF NextNumber
<1>1. iters \in Seq(Iteration) /\ Len(iters) \in Nat /\ DOMAIN iters = 1..Len(iters)
  BY InvTables
<1>2. \A i \in DOMAIN iters : iters[i].num \in Nat \ {0}
  <2>1. \A i \in DOMAIN iters : iters[i] \in Iteration
    BY <1>1
  <2> QED
    BY <2>1 DEF Iteration
<1>3. PICK m \in Nat : \A i \in DOMAIN iters : iters[i].num <= m
  <2>1. [i \in 1..Len(iters) |-> iters[i].num] \in [1..Len(iters) -> Nat]
    BY <1>1, <1>2
  <2>2. PICK m \in Nat :
            \A i \in 1..Len(iters) : [j \in 1..Len(iters) |-> iters[j].num][i] <= m
    BY <1>1, <2>1, NumbersAreBounded
  <2> QED
    BY <1>1, <2>2
<1>4. nums \in SUBSET (1..m)
  BY <1>2, <1>3 DEF IterationsOf
<1>5. CASE nums = {}
  <2>1. \A i \in IterationsOf(iters, r) : iters[i].num \in nums
    OBVIOUS
  <2> HIDE DEF nums
  <2> QED
    BY <1>5, <2>1
<1>6. CASE nums # {}
  <2>1. Latest(nums) \in 1..m /\ \A x \in nums : x <= Latest(nums)
    BY <1>4, <1>6, LatestIsMember
  <2>2. \A i \in IterationsOf(iters, r) : iters[i].num \in nums /\ iters[i].num \in Nat
    BY <1>2 DEF IterationsOf
  <2> HIDE DEF nums
  <2> QED
    BY <1>6, <2>1, <2>2
<1> QED
  BY <1>5, <1>6

LEMMA NumberIsSteady ==
    ASSUME StepsInv, NEW h \in Busy, Number(h), UNCHANGED tables
    PROVE  Steady(h)
<1> DEFINE s == Current(h)
           r == RoundOf(h)
           nums == {iters[i].num : i \in IterationsOf(iters, r)}
           n == IF nums = {} THEN 1 ELSE Latest(nums) + 1
           ins == InsertStmt(s.round, n, s.src, s.dst, s.input)
<1>1. s.op = "number" /\ Proceed(h, <<ins>>)
  BY DEF Number, At
<1>2. /\ work[h] \in Handlers /\ s = work[h].todo[1] /\ s \in Statement
      /\ Ready(work[h], rounds, iters, skipped, overtaken)
      /\ Lasting(s, rounds, iters, overtaken)
  BY BusyFits
<1>3. r = IF s.round = New THEN work[h].made ELSE s.round
  BY DEF RoundOf
<1>4. r \in DOMAIN rounds
  BY <1>1, AtReady DEF RoundStmts
<1>5. n \in Nat \ {0} /\ \A i \in IterationsOf(iters, r) : iters[i].num < n
  BY NextNumberIsNew DEF NextNumber
<1>6. /\ s.src \in Agents \cup {None} /\ s.dst \in Agents /\ s.input \in Inputs
      /\ s.round \in Nat
  BY <1>1, <1>2, NumberFields, RoundFields DEF RoundStmts
<1> HIDE DEF n, r, s
<1>7. ins \in Statement
  BY <1>5, <1>6, InsertIsStatement
<1>8. ins.op = "insert" /\ ins.round = s.round /\ ins.num = n
  BY DEF InsertStmt
<1> HIDE DEF ins
<1>9. Lasting(ins, rounds, iters, overtaken)
  BY <1>1, <1>2, <1>8 DEF Lasting, RoundStmts, RequestStmts, Reopens
<1>10. Ready([work[h] EXCEPT !.todo = <<ins>>], rounds, iters, skipped, overtaken)
  <2> DEFINE w == [work[h] EXCEPT !.todo = <<ins>>]
  <2>1. w.todo[1] = ins /\ w.made = work[h].made
    BY <1>2 DEF Handlers
  <2> HIDE DEF w
  <2>2. Ready(w, rounds, iters, skipped, overtaken)
    BY <1>3, <1>4, <1>5, <1>8, <2>1 DEF Ready, RequestStmts
  <2> QED
    BY <2>2 DEF w
<1>11. Joins(<<ins>>, Rest(h), iters)
  <2>1. Rest(h) # <<>> => Follows(s, Rest(h)[1], iters)
    BY RestContinues DEF s
  <2>2. Rest(h) # <<>> => Follows(ins, Rest(h)[1], iters)
    BY <1>1, <1>8, <2>1 DEF Follows, RoundStmts, LastReads
  <2>3. Len(<<ins>>) = 1 /\ <<ins>>[1] = ins
    OBVIOUS
  <2> QED
    BY <1>8, <2>2, <2>3 DEF Joins
<1>12. Continues(h, <<ins>> \o Rest(h))
  BY <1>7, <1>9, <1>10, <1>11, OneStatementContinues
<1> QED
  BY <1>1, <1>12, ContinuedIsSteady

\* Most statements ask little to be first in line.
LEMMA HeadIsReady ==
    ASSUME NEW w, NEW s, w.todo[1] = s, NEW rs, NEW t, NEW sk, NEW over,
           s.op \notin RequestStmts \cup {"advance", "insert", "write_skips"},
           s.op \in RoundStmts => s.round # New /\ s.round \in DOMAIN rs,
           s.op = "set_round" => s.status # "in_progress"
    PROVE  Ready(w, rs, t, sk, over)
BY DEF Ready, RequestStmts

\* A last read that leads to a plan.
LEMMA PlanContinues ==
    ASSUME StepsInv, NEW h \in Busy, Current(h).op \in LastReads, NEW p,
           Plan(p, rounds, iters, overtaken),
           p # <<>> =>
               /\ p[1].op \notin RequestStmts \cup {"advance", "insert", "write_skips"}
               /\ p[1].op \in RoundStmts => p[1].round # New /\ p[1].round \in DOMAIN rounds
               /\ p[1].op = "set_round" => p[1].status # "in_progress"
    PROVE  Continues(h, p \o Rest(h))
<1>1. p \in Seq(Statement) /\ Rest(h) = <<>>
  BY RestContinues DEF Plan
<1>2. p \o Rest(h) = p
  BY <1>1
<1>3. work[h] \in Handlers
  BY BusyFits
<1>4. [work[h] EXCEPT !.todo = p].todo = p
  BY <1>3 DEF Handlers
<1>5. p # <<>> => Ready([work[h] EXCEPT !.todo = p], rounds, iters, skipped, overtaken)
  BY <1>4, HeadIsReady
<1> QED
  BY <1>2, <1>5 DEF Continues

LEMMA TwoPlan ==
    ASSUME NEW rs, NEW t, NEW over, NEW a \in Statement, NEW b \in Statement,
           Lasting(a, rs, t, over), Lasting(b, rs, t, over), Follows(a, b, t), ~Reopens(b)
    PROVE  Plan(<<a, b>>, rs, t, over)
<1>1. <<a, b>> \in Seq(Statement) /\ Len(<<a, b>>) = 2
  OBVIOUS
<1>2. \A k \in 1..2 : Lasting(<<a, b>>[k], rs, t, over)
  OBVIOUS
<1>3. \A k \in 1..(2 - 1) : Follows(<<a, b>>[k], <<a, b>>[k + 1], t)
  OBVIOUS
<1>4. \A j, k \in 1..2 : j < k => ~Reopens(<<a, b>>[k])
  OBVIOUS
<1> QED
  BY <1>1, <1>2, <1>3, <1>4 DEF Plan

\* A list of rows in the order of their numbers lists them all.
LEMMA OrderedLists ==
    ASSUME StepsInv, NEW r, NEW t \in Ordered(r)
    PROVE  \E n \in Nat : \E q \in Surjection(1..n, IterationsOf(iters, r)) :
               /\ t = [k \in 1..n |-> iters[q[k]]]
               /\ \A j, k \in 1..n : j < k => iters[q[j]].num <= iters[q[k]].num
<1> DEFINE rows == IterationsOf(iters, r)
           n == Cardinality(rows)
           byNum(i, j) == iters[i].num < iters[j].num \/ (iters[i].num = iters[j].num /\ i < j)
<1>1. PICK q \in [1..n -> rows] :
          /\ \A j, k \in DOMAIN q : j < k => byNum(q[j], q[k])
          /\ t = [k \in DOMAIN q |-> iters[q[k]]]
  BY Zenon DEF Ordered
<1>2. /\ iters \in Seq(Iteration) /\ Len(iters) \in Nat /\ DOMAIN iters = 1..Len(iters)
      /\ rows \in SUBSET (1..Len(iters))
  BY InvTables DEF IterationsOf
<1>3. IsFiniteSet(rows) /\ n \in Nat
  BY <1>2, SubsetOfInterval
<1>4. \A i \in rows : i \in Nat /\ iters[i].num \in Nat
  <2>1. \A i \in rows : i \in Nat /\ iters[i] \in Iteration
    BY <1>2
  <2> QED
    BY <2>1 DEF Iteration
<1> HIDE DEF rows, n
<1>5. \A k \in 1..n : q[k] \in rows
  BY <1>1
<1>6. ASSUME NEW a \in 1..n, NEW b \in 1..n, a < b
      PROVE  q[a] # q[b] /\ iters[q[a]].num <= iters[q[b]].num
  <2>1. byNum(q[a], q[b])
    BY <1>1, <1>6
  <2>2. q[a] \in Nat /\ q[b] \in Nat /\ iters[q[a]].num \in Nat /\ iters[q[b]].num \in Nat
    BY <1>4, <1>5
  <2> QED
    BY <2>1, <2>2
<1>7. ASSUME NEW j \in 1..n, NEW k \in 1..n, j # k
      PROVE  q[j] # q[k]
  <2>1. j < k \/ k < j
    BY <1>3, <1>7
  <2> QED
    BY <1>6, <2>1
<1>8. q \in Surjection(1..n, rows)
  <2>1. q \in Injection(1..n, rows)
    BY <1>7 DEF Injection, IsInjective
  <2>2. IsFiniteSet(1..n) /\ Cardinality(1..n) = n
    BY <1>3, FS_Interval
  <2> QED
    BY <1>3, <2>1, <2>2, FS_Injection DEF n
<1>9. t = [k \in 1..n |-> iters[q[k]]]
  BY <1>1
<1> QED
  BY <1>3, <1>6, <1>8, <1>9 DEF rows

\* It is made of rows, and has an answer if one of them has.
LEMMA OrderedRows ==
    ASSUME StepsInv, NEW r, NEW t \in Ordered(r)
    PROVE  /\ t \in Seq(Iteration)
           /\ Answered(iters, r) # {} => Answered(t, r) # {}
<1> DEFINE rows == IterationsOf(iters, r)
<1>1. PICK n \in Nat : \E q \in Surjection(1..n, rows) : t = [k \in 1..n |-> iters[q[k]]]
  BY OrderedLists
<1>2. PICK q \in Surjection(1..n, rows) : t = [k \in 1..n |-> iters[q[k]]]
  BY <1>1
<1>3. \A i \in rows : iters[i] \in Iteration
  BY InvTables DEF IterationsOf
<1>4. \A k \in 1..n : q[k] \in rows /\ t[k] = iters[q[k]] /\ t[k] \in Iteration
  BY <1>2, <1>3 DEF Surjection
<1>5. t \in Seq(Iteration) /\ DOMAIN t = 1..n
  BY <1>2, <1>4
<1>6. ASSUME Answered(iters, r) # {}
      PROVE  Answered(t, r) # {}
  <2>1. PICK i \in rows : iters[i].output # None
    BY <1>6 DEF Answered
  <2>2. PICK k \in 1..n : q[k] = i
    BY <2>1 DEF Surjection
  <2>3. t[k].output # None /\ t[k].round = r
    BY <1>4, <2>1, <2>2 DEF IterationsOf
  <2> QED
    BY <1>5, <2>3 DEF Answered, IterationsOf
<1> QED
  BY <1>5, <1>6

-----------------------------------------------------------------------------
(***************************************************************************)
(* Plans that open rounds.                                                 *)
(***************************************************************************)
\* A session status may be written behind anything that is not a last read.
LEMMA SessionStatusJoins ==
    ASSUME NEW rs, NEW t, NEW over, NEW p, Plan(p, rs, t, over),
           NEW status \in SessionStatuses,
           p # <<>> => p[Len(p)].op \notin LastReads
    PROVE  /\ Plan(<<SetSessionStmt(status)>>, rs, t, over)
           /\ Plan(p \o <<SetSessionStmt(status)>>, rs, t, over)
<1> DEFINE s == SetSessionStmt(status)
<1>1. s \in Statement /\ s.op = "set_session"
  BY SessionStatements DEF SetSessionStmt
<1> HIDE DEF s
<1>2. Lasting(s, rs, t, over)
  BY <1>1 DEF Lasting, RoundStmts, RequestStmts, Reopens
<1>3. Plan(<<s>>, rs, t, over)
  BY <1>1, <1>2, OnePlan
<1>4. Joins(p, <<s>>, t)
  <2>1. ~Reopens(s)
    BY <1>1 DEF Reopens
  <2>2. p # <<>> => Follows(p[Len(p)], s, t)
    BY <1>1 DEF Follows
  <2>3. Len(<<s>>) = 1 /\ <<s>>[1] = s
    OBVIOUS
  <2> QED
    BY <2>1, <2>2, <2>3 DEF Joins
<1>5. Plan(p \o <<s>>, rs, t, over)
  BY <1>3, <1>4, JoinedPlan
<1> QED
  BY <1>3, <1>5 DEF s

\* Requests for the round that was just opened.
Requests(p) ==
    /\ p \in Seq(Statement)
    /\ \A k \in 1..Len(p) : p[k].op = "number" /\ p[k].round = New

LEMMA RequestsPlan ==
    ASSUME NEW rs, NEW t, NEW over, NEW p, Requests(p)
    PROVE  Plan(p, rs, t, over)
<1>1. p \in Seq(Statement) /\ Len(p) \in Nat
  BY DEF Requests
<1>2. \A k \in 1..Len(p) : p[k].op = "number" /\ p[k].round = New
  BY DEF Requests
<1>3. ASSUME NEW s, s.op = "number", s.round = New
      PROVE  Lasting(s, rs, t, over) /\ ~Reopens(s)
  BY <1>3 DEF Lasting, RoundStmts, RequestStmts, Reopens
<1>4. ASSUME NEW a, NEW b, a.op = "number", a.round = New, b.op = "number", b.round = New
      PROVE  Follows(a, b, t)
  BY <1>4 DEF Follows, RoundStmts, LastReads
<1>5. \A k \in 1..(Len(p) - 1) : Follows(p[k], p[k + 1], t)
  <2> SUFFICES ASSUME NEW k \in 1..(Len(p) - 1)
               PROVE  Follows(p[k], p[k + 1], t)
    OBVIOUS
  <2>1. k \in 1..Len(p) /\ k + 1 \in 1..Len(p)
    BY <1>1
  <2> QED
    BY <1>2, <1>4, <2>1
<1> QED
  BY <1>1, <1>2, <1>3, <1>5 DEF Plan

\* The two statements that open a round.
Opening(type, host) ==
    <<OpenRoundStmt(type, host), SetRoundStmt(New, "in_progress", None)>>

LEMMA OpeningPlan ==
    ASSUME NEW rs, NEW t, NEW over, NEW type \in RoundTypes, NEW host \in Hosts \cup {None},
           type = "same_host_pair" => host \in Hosts /\ Len(Workers[host]) = 2
    PROVE  Plan(Opening(type, host), rs, t, over)
<1> DEFINE a == OpenRoundStmt(type, host)
           b == SetRoundStmt(New, "in_progress", None)
<1>1. /\ a \in Statement /\ a.op = "open_round" /\ a.type = type /\ a.host = host
      /\ b \in Statement /\ b.op = "set_round" /\ b.round = New
  BY OpenRoundIsStatement, SetRoundIsStatement
     DEF OpenRoundStmt, SetRoundStmt, RoundStatuses, New
<1> HIDE DEF a, b
<1>2. Lasting(a, rs, t, over) /\ Lasting(b, rs, t, over) /\ ~Reopens(b)
  BY <1>1 DEF Lasting, RoundStmts, RequestStmts, Reopens
<1>3. Follows(a, b, t)
  BY <1>1 DEF Follows, LastReads
<1>4. Plan(<<a, b>>, rs, t, over)
  BY <1>1, <1>2, <1>3, TwoPlan
<1> QED
  BY <1>4 DEF Opening, a, b

\* A round with its requests and the session status it is announced with, if any.
LEMMA SpawnPlan ==
    ASSUME NEW rs, NEW t, NEW over, NEW type \in RoundTypes, type # "same_host_pair",
           NEW requests, Requests(requests),
           NEW last, \/ last = <<>>
                     \/ \E status \in SessionStatuses : last = <<SetSessionStmt(status)>>
    PROVE  /\ Plan(Spawn(type, None, requests, last), rs, t, over)
           /\ Spawn(type, None, requests, last)[1].op = "open_round"
<1> DEFINE o == Opening(type, None)
           c == o \o requests
<1>1. Plan(o, rs, t, over) /\ Plan(requests, rs, t, over)
  BY OpeningPlan, RequestsPlan
<1>2. /\ Len(o) = 2 /\ o \in Seq(Statement) /\ o[1].op = "open_round"
      /\ o[2].op = "set_round" /\ o[2].round = New
  <2>1. o \in Seq(Statement)
    BY <1>1 DEF Plan
  <2>2. Len(o) = 2
    BY DEF Opening
  <2>3. o[1] = OpenRoundStmt(type, None) /\ o[2] = SetRoundStmt(New, "in_progress", None)
    BY DEF Opening
  <2> QED
    BY <2>1, <2>2, <2>3 DEF OpenRoundStmt, SetRoundStmt
<1>3. /\ requests \in Seq(Statement) /\ Len(requests) \in Nat
      /\ \A k \in 1..Len(requests) : requests[k].op = "number" /\ requests[k].round = New
  BY DEF Requests
<1>4. Spawn(type, None, requests, last) = c \o last
  BY DEF Spawn, Opening
<1> HIDE DEF o
<1>5. Joins(o, requests, t)
  <2>1. ASSUME NEW k \in 1..Len(requests)
        PROVE  ~Reopens(requests[k])
    BY <1>3 DEF Reopens
  <2>2. requests # <<>> => Follows(o[2], requests[1], t)
    BY <1>2, <1>3 DEF Follows, RoundStmts, LastReads
  <2> QED
    BY <1>2, <2>1, <2>2 DEF Joins
<1>6. Plan(c, rs, t, over)
  BY <1>1, <1>5, JoinedPlan
<1>7. /\ c \in Seq(Statement) /\ Len(c) = 2 + Len(requests)
      /\ \A k \in 1..Len(c) : c[k] = IF k <= 2 THEN o[k] ELSE requests[k - 2]
  <2>1. /\ c \in Seq(Statement) /\ Len(c) = Len(o) + Len(requests)
        /\ \A k \in 1..(Len(o) + Len(requests)) :
               c[k] = IF k <= Len(o) THEN o[k] ELSE requests[k - Len(o)]
    BY <1>2, <1>3, ConcatProperties
  <2> HIDE DEF c
  <2> QED
    BY <1>2, <2>1
<1> HIDE DEF c
<1>8. c[1].op = "open_round" /\ c[Len(c)].op \in {"number", "set_round"}
  <2>1. c[1] = o[1]
    BY <1>3, <1>7
  <2>2. CASE Len(requests) = 0
    <3>1. Len(c) = 2 /\ c[2] = o[2]
      BY <1>7, <2>2
    <3> QED
      BY <1>2, <2>1, <3>1
  <2>3. CASE Len(requests) > 0
    <3>1. Len(c) \in 1..Len(c) /\ ~(Len(c) <= 2) /\ Len(c) - 2 = Len(requests)
      BY <1>3, <1>7, <2>3
    <3>2. c[Len(c)] = requests[Len(requests)] /\ Len(requests) \in 1..Len(requests)
      BY <1>3, <1>7, <2>3, <3>1
    <3> QED
      BY <1>2, <1>3, <2>1, <3>2
  <2> QED
    BY <1>3, <2>2, <2>3
<1>9. CASE last = <<>>
  <2>1. c \o last = c
    BY <1>7, <1>9
  <2> QED
    BY <1>4, <1>6, <1>8, <2>1
<1>10. ASSUME NEW status \in SessionStatuses, last = <<SetSessionStmt(status)>>
       PROVE  /\ Plan(c \o last, rs, t, over)
              /\ (c \o last)[1] = c[1]
  <2>1. Plan(c \o last, rs, t, over)
    BY <1>6, <1>8, <1>10, SessionStatusJoins DEF LastReads
  <2>2. SetSessionStmt(status) \in Statement
    BY SessionStatements
  <2>3. last \in Seq(Statement)
    BY <1>10, <2>2
  <2>4. (c \o last)[1] = c[1]
    BY <1>3, <1>7, <2>3, ConcatProperties
  <2> QED
    BY <2>1, <2>4
<1> QED
  BY <1>4, <1>8, <1>9, <1>10

LEMMA SpawnArbitrationPlan ==
    ASSUME NEW rs, NEW t, NEW over, NEW input \in Inputs
    PROVE  /\ Plan(SpawnArbitration(input), rs, t, over)
           /\ SpawnArbitration(input)[1].op = "open_round"
<1> DEFINE s == NumberStmt(New, None, Arbitrator, input)
<1>1. s \in Statement /\ s.op = "number" /\ s.round = New
  BY NumberIsStatement DEF NumberStmt, Agents, New
<1> HIDE DEF s
<1>2. Requests(<<s>>)
  BY <1>1 DEF Requests
<1>3. "round_2" \in SessionStatuses /\ "cross_host_arbitration" \in RoundTypes
  BY DEF SessionStatuses, RoundTypes
<1> QED
  BY <1>2, <1>3, SpawnPlan DEF SpawnArbitration, Ask, s

\* The pairs, host by host, up to the first host without two workers.
LEMMA SpawnPairsPlan ==
    ASSUME NEW rs, NEW t, NEW over, NEW input \in Inputs
    PROVE  /\ Plan(SpawnPairs(input), rs, t, over)
           /\ SpawnPairs(input) # <<>> =>
                  SpawnPairs(input)[1].op \in {"open_round", "set_session"}
<1> DEFINE n == Cardinality(ReadyHosts)
           host(k) == HostOrder[(k + 2) \div 3]
           stmt(k) ==
               CASE k % 3 = 1 -> OpenRoundStmt("same_host_pair", host(k))
                 [] k % 3 = 2 -> SetRoundStmt(New, "in_progress", None)
                 [] OTHER -> NumberStmt(New, None, Workers[host(k)][1], input)
           p == [k \in 1..(3 * n) |-> stmt(k)]
           last == IF n = Len(HostOrder) THEN <<SetSessionStmt("round_1")>> ELSE <<>>
<1>1. SpawnPairs(input) = p \o last
  BY Zenon DEF SpawnPairs
<1>2. n \in Nat
  BY ReadyHostsArePrefix
<1>3. ASSUME NEW k \in 1..(3 * n)
      PROVE  /\ host(k) \in Hosts /\ Len(Workers[host(k)]) = 2
             /\ Workers[host(k)][1] \in Agents
  <2>1. (k + 2) \div 3 \in 1..n
    BY <1>2
  <2>2. host(k) \in Hosts /\ Len(Workers[host(k)]) = 2
    BY <2>1, ReadyHostsArePrefix, RegistryAssumption
  <2>3. Workers[host(k)] \in Seq(AllWorkers)
    BY <2>2, RegistryAssumption
  <2> HIDE DEF host
  <2> QED
    BY <2>2, <2>3 DEF Agents
<1> HIDE DEF host
<1>4. ASSUME NEW k \in 1..(3 * n)
      PROVE  /\ p[k] \in Statement
             /\ k % 3 = 1 => p[k].op = "open_round" /\ p[k].host = host(k)
             /\ k % 3 = 2 => p[k].op = "set_round" /\ p[k].round = New
             /\ k % 3 = 0 => p[k].op = "number" /\ p[k].round = New
  <2>1. p[k] = stmt(k)
    OBVIOUS
  <2>2. CASE k % 3 = 1
    <3>1. p[k] = OpenRoundStmt("same_host_pair", host(k))
      BY <2>1, <2>2
    <3>2. "same_host_pair" \in RoundTypes /\ host(k) \in Hosts \cup {None}
      BY <1>3 DEF RoundTypes
    <3>3. OpenRoundStmt("same_host_pair", host(k)) \in Statement
      BY <3>2, OpenRoundIsStatement
    <3> QED
      BY <2>2, <3>1, <3>3 DEF OpenRoundStmt
  <2>3. CASE k % 3 = 2
    <3>1. p[k] = SetRoundStmt(New, "in_progress", None)
      BY <2>1, <2>3
    <3>2. SetRoundStmt(New, "in_progress", None) \in Statement
      BY SetRoundIsStatement DEF New, RoundStatuses
    <3> QED
      BY <2>3, <3>1, <3>2 DEF SetRoundStmt
  <2>4. CASE k % 3 = 0
    <3>1. p[k] = NumberStmt(New, None, Workers[host(k)][1], input)
      BY <2>1, <2>4
    <3>2. NumberStmt(New, None, Workers[host(k)][1], input) \in Statement
      BY <1>3, NumberIsStatement DEF New
    <3> QED
      BY <2>4, <3>1, <3>2 DEF NumberStmt
  <2>5. k % 3 \in {0, 1, 2}
    BY <1>2
  <2> QED
    BY <2>2, <2>3, <2>4, <2>5
<1>5. /\ p \in Seq(Statement) /\ Len(p) = 3 * n
  BY <1>2, <1>4
<1> HIDE DEF p
<1>6. ASSUME NEW k \in 1..(3 * n)
      PROVE  Lasting(p[k], rs, t, over) /\ ~Reopens(p[k])
  <2>1. k % 3 \in {0, 1, 2}
    BY <1>2
  <2>2. CASE k % 3 = 1
    <3>1. p[k].op = "open_round" /\ p[k].host \in Hosts /\ Len(Workers[p[k].host]) = 2
      BY <1>3, <1>4, <2>2
    <3> QED
      BY <3>1 DEF Lasting, RoundStmts, RequestStmts, Reopens
  <2>3. CASE k % 3 \in {0, 2}
    <3>1. p[k].op \in {"set_round", "number"} /\ p[k].round = New
      BY <1>4, <2>3
    <3> QED
      BY <3>1 DEF Lasting, RoundStmts, RequestStmts, Reopens
  <2> QED
    BY <2>1, <2>2, <2>3
<1>7. ASSUME NEW k \in 1..(3 * n - 1)
      PROVE  Follows(p[k], p[k + 1], t)
  <2>1. k \in 1..(3 * n) /\ k + 1 \in 1..(3 * n) /\ k % 3 \in {0, 1, 2}
    BY <1>2
  <2>2. CASE k % 3 = 1
    <3>1. (k + 1) % 3 = 2
      BY <1>2, <2>2
    <3>2. p[k].op = "open_round" /\ p[k + 1].op = "set_round"
      BY <1>4, <2>1, <2>2, <3>1
    <3> QED
      BY <3>2 DEF Follows, LastReads
  <2>3. CASE k % 3 = 2
    <3>1. (k + 1) % 3 = 0
      BY <1>2, <2>3
    <3>2. p[k].op = "set_round" /\ p[k].round = New /\ p[k + 1].op = "number"
      BY <1>4, <2>1, <2>3, <3>1
    <3> QED
      BY <3>2 DEF Follows, LastReads, RoundStmts
  <2>4. CASE k % 3 = 0
    <3>1. (k + 1) % 3 = 1
      BY <1>2, <2>4
    <3>2. p[k].op = "number" /\ p[k + 1].op = "open_round"
      BY <1>4, <2>1, <2>4, <3>1
    <3> QED
      BY <3>2 DEF Follows, LastReads
  <2> QED
    BY <2>1, <2>2, <2>3, <2>4
<1>8. Plan(p, rs, t, over)
  BY <1>5, <1>6, <1>7 DEF Plan
<1>9. p # <<>> => p[Len(p)].op = "number" /\ p[1].op = "open_round"
  <2> SUFFICES ASSUME p # <<>>
               PROVE  p[Len(p)].op = "number" /\ p[1].op = "open_round"
    OBVIOUS
  <2>1. n # 0
    BY <1>2, <1>5
  <2>2. 3 * n \in 1..(3 * n) /\ (3 * n) % 3 = 0 /\ 1 \in 1..(3 * n) /\ 1 % 3 = 1
    BY <1>2, <2>1
  <2> QED
    BY <1>4, <1>5, <2>2
<1>10. CASE last = <<>>
  <2>1. p \o last = p
    BY <1>5, <1>10
  <2> QED
    BY <1>1, <1>8, <1>9, <2>1
<1>11. CASE last = <<SetSessionStmt("round_1")>>
  <2>1. "round_1" \in SessionStatuses
    BY DEF SessionStatuses
  <2>2. Plan(p \o last, rs, t, over)
    BY <1>8, <1>9, <1>11, <2>1, SessionStatusJoins DEF LastReads
  <2>3. SetSessionStmt("round_1") \in Statement /\ SetSessionStmt("round_1").op = "set_session"
    BY <2>1, SessionStatements DEF SetSessionStmt
  <2> DEFINE s == SetSessionStmt("round_1")
  <2> HIDE DEF s
  <2>4. last = <<s>> /\ s \in Statement /\ s.op = "set_session"
    BY <1>11, <2>3 DEF s
  <2>5. CASE p = <<>>
    <3>1. p \o last = <<s>>
      BY <2>4, <2>5
    <3> QED
      BY <1>1, <2>2, <2>4, <3>1
  <2>6. CASE p # <<>>
    <3>1. last \in Seq(Statement) /\ Len(p) \in Nat \ {0} /\ Len(last) = 1
      BY <1>5, <2>4, <2>6
    <3>2. (p \o last)[1] = p[1]
      BY <1>5, <3>1, ConcatProperties
    <3> QED
      BY <1>1, <1>9, <2>2, <2>6, <3>2
  <2> QED
    BY <2>5, <2>6
<1> QED
  BY <1>10, <1>11

\* Statements that name no row.
Plain ==
    {"set_session", "finalize", "maybe_advance", "reconcile", "arbitrate", "execute",
     "ask_reviewers", "weigh", "mediate"}

LEMMA PlainStatement ==
    ASSUME NEW rs, NEW t, NEW over, NEW s, s.op \in Plain
    PROVE  /\ Lasting(s, rs, t, over)
           /\ ~Reopens(s)
           /\ s.op \notin RoundStmts \cup RequestStmts
           /\ s.op \notin {"open_round", "advance", "close", "tally", "insert", "write_skips"}
           /\ \A a : a.op \notin LastReads => Follows(a, s, t)
<1>1. s.op \notin RoundStmts \cup RequestStmts
  BY DEF Plain, RoundStmts, RequestStmts
<1>2. s.op \notin {"open_round", "advance", "close", "tally", "insert", "write_skips",
                   "set_round", "number", "check", "release", "record"}
  BY DEF Plain
<1>3. Lasting(s, rs, t, over) /\ ~Reopens(s)
  BY <1>1, <1>2 DEF Lasting, Reopens
<1>4. \A a : a.op \notin LastReads => Follows(a, s, t)
  BY <1>2 DEF Follows
<1> QED
  BY <1>1, <1>2, <1>3, <1>4

\* A last read and the plan it leads to.
LEMMA PlanIsSteady ==
    ASSUME StepsInv, NEW h \in Busy, Current(h).op \in LastReads, UNCHANGED tables,
           NEW p, Proceed(h, p), Plan(p, rounds, iters, overtaken),
           p # <<>> =>
               \/ p[1].op \in Plain \cup {"open_round"}
               \/ /\ p[1].op \in {"set_round", "number"}
                  /\ p[1].round # New /\ p[1].round \in DOMAIN rounds
                  /\ p[1].op = "set_round" => p[1].status # "in_progress"
    PROVE  Steady(h)
<1>1. p # <<>> =>
          /\ p[1].op \notin RequestStmts \cup {"advance", "insert", "write_skips"}
          /\ p[1].op \in RoundStmts => p[1].round # New /\ p[1].round \in DOMAIN rounds
          /\ p[1].op = "set_round" => p[1].status # "in_progress"
  BY DEF RequestStmts, RoundStmts, Plain
<1>2. Continues(h, p \o Rest(h))
  BY <1>1, PlanContinues
<1> QED
  BY <1>2, ContinuedIsSteady

LEMMA OnePlainIsSteady ==
    ASSUME StepsInv, NEW h \in Busy, Current(h).op \in LastReads, UNCHANGED tables,
           NEW s \in Statement, s.op \in Plain, Proceed(h, <<s>>)
    PROVE  Steady(h)
<1>1. Plan(<<s>>, rounds, iters, overtaken)
  BY PlainStatement, OnePlan
<1>2. <<s>>[1] = s
  OBVIOUS
<1> QED
  BY <1>1, <1>2, PlanIsSteady

LEMMA NothingIsSteady ==
    ASSUME StepsInv, NEW h \in Busy, Current(h).op \in LastReads, UNCHANGED tables,
           Proceed(h, <<>>)
    PROVE  Steady(h)
BY EmptyPlan, PlanIsSteady

\* A round is closed and something plain comes next.
LEMMA RoundThenPlainIsSteady ==
    ASSUME StepsInv, NEW h \in Busy, Current(h).op \in LastReads, UNCHANGED tables,
           NEW r \in DOMAIN rounds, NEW status \in RoundStatuses \ {"in_progress"},
           NEW outcome \in Texts \cup {None}, NEW b \in Statement, b.op \in Plain,
           Proceed(h, <<SetRoundStmt(r, status, outcome), b>>)
    PROVE  Steady(h)
<1> DEFINE a == SetRoundStmt(r, status, outcome)
<1>1. r \in Nat /\ r # New
  BY InvTables DEF New
<1>2. /\ a \in Statement /\ a.op = "set_round" /\ a.round = r /\ a.status = status
  BY <1>1, SetRoundIsStatement DEF SetRoundStmt
<1> HIDE DEF a
<1>3. Lasting(a, rounds, iters, overtaken)
  BY <1>2 DEF Lasting, RoundStmts, RequestStmts, Reopens
<1>4. /\ Lasting(b, rounds, iters, overtaken) /\ ~Reopens(b)
      /\ Follows(a, b, iters)
  BY <1>2, PlainStatement DEF LastReads
<1>5. Plan(<<a, b>>, rounds, iters, overtaken)
  BY <1>2, <1>3, <1>4, TwoPlan
<1>6. <<a, b>>[1] = a
  OBVIOUS
<1>7. Proceed(h, <<a, b>>)
  BY DEF a
<1> QED
  BY <1>1, <1>2, <1>5, <1>6, <1>7, PlanIsSteady

LEMMA AdvanceIsSteady ==
    ASSUME StepsInv, NEW h \in Busy, Advance(h), UNCHANGED tables
    PROVE  Steady(h)
<1> DEFINE r == Current(h).about
<1>1. Current(h).op = "advance" /\ Current(h).op \in LastReads
  BY DEF Advance, At, LastReads
<1>2. /\ r \in DOMAIN rounds /\ rounds[r].type = "same_host_pair"
      /\ Answered(iters, r) # {}
  <2>1. /\ Lasting(Current(h), rounds, iters, overtaken)
        /\ Ready(work[h], rounds, iters, skipped, overtaken)
        /\ Current(h) = work[h].todo[1]
    BY BusyFits
  <2>2. Answered(iters, r) # {}
    BY <1>1, <2>1 DEF Ready
  <2> QED
    BY <1>1, <2>1, <2>2 DEF Lasting
<1> HIDE DEF r
<1>3. PICK t \in Ordered(r) :
          LET last == t[LatestAnswered(t, r)]
          IN  \/ Proceed(h, <<SetRoundStmt(r, "escalated", None), SetSessionStmt("escalated")>>)
              \/ Proceed(h, <<SetRoundStmt(r, "converged", last.output),
                              ReadStmt("maybe_advance", None)>>)
              \/ Proceed(h, Ask(r, last.dst, OtherAgentOnHost(rounds[r].host, last.dst),
                                Draft(last.output)))
  BY DEF Advance, r
<1> DEFINE last == t[LatestAnswered(t, r)]
<1>4. t \in Seq(Iteration) /\ Answered(t, r) # {}
  BY <1>2, <1>3, OrderedRows
<1>5. last \in Iteration /\ last.output \in Texts /\ last.dst \in Agents
  <2>1. LatestAnswered(t, r) \in DOMAIN t /\ last.output \in Texts
    BY <1>4, LatestAnswerIsText
  <2>2. last \in Iteration
    BY <1>4, <2>1
  <2> QED
    BY <2>1, <2>2 DEF Iteration
<1> HIDE DEF last
<1>6. CASE Proceed(h, <<SetRoundStmt(r, "escalated", None), SetSessionStmt("escalated")>>)
  <2>1. SetSessionStmt("escalated") \in Statement /\ SetSessionStmt("escalated").op \in Plain
    BY SessionStatements DEF SessionStatuses, SetSessionStmt, Plain
  <2>2. "escalated" \in RoundStatuses \ {"in_progress"}
    BY DEF RoundStatuses
  <2> QED
    BY <1>1, <1>2, <1>6, <2>1, <2>2, RoundThenPlainIsSteady
<1>7. CASE Proceed(h, <<SetRoundStmt(r, "converged", last.output),
                        ReadStmt("maybe_advance", None)>>)
  <2>1. /\ ReadStmt("maybe_advance", None) \in Statement
        /\ ReadStmt("maybe_advance", None).op \in Plain
    BY ReadStatements DEF ReadStmt, Plain
  <2>2. "converged" \in RoundStatuses \ {"in_progress"}
    BY DEF RoundStatuses
  <2> QED
    BY <1>1, <1>2, <1>5, <1>7, <2>1, <2>2, RoundThenPlainIsSteady
<1>8. CASE Proceed(h, Ask(r, last.dst, OtherAgentOnHost(rounds[r].host, last.dst),
                          Draft(last.output)))
  <2> DEFINE s == NumberStmt(r, last.dst, OtherAgentOnHost(rounds[r].host, last.dst),
                             Draft(last.output))
  <2>1. OtherAgentOnHost(rounds[r].host, last.dst) \in Agents
    BY <1>2, InvTables, OtherAgentIsAgent
  <2>2. Draft(last.output) \in Inputs
    BY <1>5 DEF Inputs
  <2>3. r \in Nat /\ r # New
    BY <1>2, InvTables DEF New
  <2>4. s \in Statement /\ s.op = "number" /\ s.round = r
    BY <1>5, <2>1, <2>2, <2>3, NumberIsStatement DEF NumberStmt
  <2>5. Proceed(h, <<s>>) /\ <<s>>[1] = s
    BY <1>8 DEF Ask
  <2> HIDE DEF s
  <2>6. Lasting(s, rounds, iters, overtaken)
    BY <1>2, <2>4 DEF Lasting, RoundStmts, RequestStmts, Reopens
  <2>7. Plan(<<s>>, rounds, iters, overtaken)
    BY <2>4, <2>6, OnePlan
  <2> QED
    BY <1>1, <1>2, <2>3, <2>4, <2>5, <2>7, PlanIsSteady
<1> QED
  BY <1>3, <1>6, <1>7, <1>8 DEF last

LEMMA MaybeAdvanceIsSteady ==
    ASSUME StepsInv, NEW h \in Busy, MaybeAdvance(h), UNCHANGED tables
    PROVE  Steady(h)
<1>1. Current(h).op \in LastReads
  BY DEF MaybeAdvance, At, LastReads
<1>2. ReadStmt("reconcile", None) \in Statement /\ ReadStmt("reconcile", None).op \in Plain
  BY ReadStatements DEF ReadStmt, Plain
<1>3. Proceed(h, <<ReadStmt("reconcile", None)>>) \/ Proceed(h, <<>>)
  BY DEF MaybeAdvance
<1> QED
  BY <1>1, <1>2, <1>3, OnePlainIsSteady, NothingIsSteady

LEMMA ArbitrationIsSteady ==
    ASSUME StepsInv, NEW h \in Busy, Current(h).op \in LastReads, UNCHANGED tables,
           NEW input \in Inputs, Proceed(h, SpawnArbitration(input))
    PROVE  Steady(h)
<1> DEFINE p == SpawnArbitration(input)
<1>1. Plan(p, rounds, iters, overtaken) /\ p[1].op = "open_round"
  BY SpawnArbitrationPlan
<1>2. Proceed(h, p)
  OBVIOUS
<1> HIDE DEF p
<1> QED
  BY <1>1, <1>2, PlanIsSteady

LEMMA ToArbitrationIsSteady ==
    ASSUME StepsInv, NEW h \in Busy, Reconcile(h) \/ Arbitrate(h) \/ Mediate(h),
           UNCHANGED tables
    PROVE  Steady(h)
<1>1. Current(h).op \in LastReads
  BY DEF Reconcile, Arbitrate, Mediate, At, LastReads
<1>2. ArbitratorInput(RoundOutcomesPerHost(rounds)) \in Inputs
  BY InvTables, OutcomesAreInput DEF StepsInv
<1>3. SetSessionStmt("escalated") \in Statement /\ SetSessionStmt("escalated").op \in Plain
  BY SessionStatements DEF SessionStatuses, SetSessionStmt, Plain
<1>4. CASE Reconcile(h) \/ Arbitrate(h)
  <2>1. \/ Proceed(h, <<SetSessionStmt("escalated")>>)
        \/ Proceed(h, SpawnArbitration(ArbitratorInput(RoundOutcomesPerHost(rounds))))
    BY <1>4 DEF Reconcile, Arbitrate
  <2> QED
    BY <1>1, <1>2, <1>3, <2>1, OnePlainIsSteady, ArbitrationIsSteady
<1>5. CASE Mediate(h)
  <2> DEFINE input == MediationInput(Round2Outcome(rounds), Current(h).about)
  <2>1. Current(h) \in Statement /\ Current(h).op = "mediate" /\ Proceed(h, SpawnArbitration(input))
    BY <1>5, BusyFits DEF Mediate, At
  <2>2. Current(h).about \in SUBSET Agents
    BY <2>1, ReadFields
  <2>3. Round2Outcome(rounds) \in Texts \cup {None}
    BY InvTables, Round2OutcomeIsText
  <2>4. input \in Inputs
    BY <2>2, <2>3 DEF Inputs
  <2> HIDE DEF input
  <2> QED
    BY <1>1, <2>1, <2>4, ArbitrationIsSteady
<1> QED
  BY <1>4, <1>5

LEMMA CloseIsSteady ==
    ASSUME StepsInv, NEW h \in Busy, Close(h), UNCHANGED tables
    PROVE  Steady(h)
<1> DEFINE s == Current(h)
           r == s.about
<1>1. s.op = "close" /\ r \in DOMAIN rounds
  <2>1. s.op = "close" /\ Lasting(s, rounds, iters, overtaken)
    BY BusyFits DEF Close, At
  <2> QED
    BY <2>1 DEF Lasting
<1> HIDE DEF r
<1>2. PICK t \in Ordered(r) :
          \/ Abandon(h)
          \/ /\ Answered(t, r) # {}
             /\ Proceed(h, <<SetRoundStmt(r, "converged", t[LatestAnswered(t, r)].output)>>)
  BY DEF Close, r
<1>3. CASE Abandon(h)
  BY <1>3, AbandonedIsSteady
<1>4. CASE /\ Answered(t, r) # {}
           /\ Proceed(h, <<SetRoundStmt(r, "converged", t[LatestAnswered(t, r)].output)>>)
  <2> DEFINE n == SetRoundStmt(r, "converged", t[LatestAnswered(t, r)].output)
  <2>1. t \in Seq(Iteration)
    BY <1>2, OrderedRows
  <2>2. t[LatestAnswered(t, r)].output \in Texts
    BY <1>4, <2>1, LatestAnswerIsText
  <2>3. r \in Nat /\ r # New /\ "converged" \in RoundStatuses
    BY <1>1, InvTables DEF New, RoundStatuses
  <2>4. n \in Statement /\ n.op = "set_round" /\ n.round = r /\ n.status = "converged"
    BY <2>2, <2>3, SetRoundIsStatement DEF SetRoundStmt
  <2>5. Proceed(h, <<n>>)
    BY <1>4
  <2> HIDE DEF n, s
  <2>6. Lasting(n, rounds, iters, overtaken)
    BY <1>1, <2>4 DEF Lasting, RoundStmts, RequestStmts, Reopens
  <2>7. Ready([work[h] EXCEPT !.todo = <<n>>], rounds, iters, skipped, overtaken)
    <3> DEFINE w == [work[h] EXCEPT !.todo = <<n>>]
    <3>1. w.todo[1] = n
      BY BusyFits DEF Handlers
    <3> HIDE DEF w
    <3>2. Ready(w, rounds, iters, skipped, overtaken)
      BY <1>1, <2>3, <2>4, <3>1, HeadIsReady DEF RequestStmts
    <3> QED
      BY <3>2 DEF w
  <2>8. Joins(<<n>>, Rest(h), iters)
    <3>1. Rest(h) # <<>> => Follows(s, Rest(h)[1], iters)
      BY RestContinues DEF s
    <3>2. Rest(h) # <<>> => Follows(n, Rest(h)[1], iters)
      BY <1>1, <2>4, <3>1 DEF Follows, RoundStmts, LastReads
    <3>3. \A k \in 1..Len(Rest(h)) : ~Reopens(Rest(h)[k])
      BY <1>1, RestContinues DEF s
    <3>4. Len(<<n>>) = 1 /\ <<n>>[1] = n
      OBVIOUS
    <3> QED
      BY <3>2, <3>3, <3>4 DEF Joins
  <2>9. Continues(h, <<n>> \o Rest(h))
    BY <2>4, <2>6, <2>7, <2>8, OneStatementContinues
  <2> QED
    BY <2>5, <2>9, ContinuedIsSteady
<1> QED
  BY <1>2, <1>3, <1>4

\* A round is opened with its requests and a session status.
LEMMA SpawnIsSteady ==
    ASSUME StepsInv, NEW h \in Busy, Current(h).op \in LastReads, UNCHANGED tables,
           NEW type \in RoundTypes, type # "same_host_pair",
           NEW requests, Requests(requests),
           NEW last, \/ last = <<>>
                     \/ \E status \in SessionStatuses : last = <<SetSessionStmt(status)>>,
           Proceed(h, Spawn(type, None, requests, last))
    PROVE  Steady(h)
<1> DEFINE p == Spawn(type, None, requests, last)
<1>1. Plan(p, rounds, iters, overtaken) /\ p[1].op = "open_round"
  BY SpawnPlan
<1>2. Proceed(h, p)
  OBVIOUS
<1> HIDE DEF p
<1> QED
  BY <1>1, <1>2, PlanIsSteady

\* The requests of a review round.
LEMMA ReviewRequests ==
    ASSUME NEW x \in Texts, ExpectedReviewers # {},
           NEW order \in [1..Cardinality(ExpectedReviewers) -> ExpectedReviewers]
    PROVE  LET p == [k \in DOMAIN order |-> NumberStmt(New, None, order[k], Draft(x))]
           IN  Requests(p) /\ p # <<>>
<1> DEFINE n == Cardinality(ExpectedReviewers)
           p == [k \in DOMAIN order |-> NumberStmt(New, None, order[k], Draft(x))]
<1>1. n \in Nat \ {0}
  <2>1. IsFiniteSet(ExpectedReviewers)
    BY RegistryAssumption, FS_Difference DEF ExpectedReviewers
  <2> QED
    BY <2>1, FS_CardinalityType, FS_EmptySet
<1>2. ASSUME NEW k \in 1..n
      PROVE  p[k] \in Statement /\ p[k].op = "number" /\ p[k].round = New
  <2>1. p[k] = NumberStmt(New, None, order[k], Draft(x))
    OBVIOUS
  <2>2. order[k] \in Agents /\ New \in Nat
    <3>1. order[k] \in ExpectedReviewers
      BY DEF n
    <3> QED
      BY <3>1 DEF ExpectedReviewers, Agents, New
  <2>3. Draft(x) \in Inputs
    BY DEF Inputs
  <2>4. NumberStmt(New, None, order[k], Draft(x)) \in Statement
    BY <2>2, <2>3, NumberIsStatement
  <2> QED
    BY <2>1, <2>4 DEF NumberStmt
<1>3. p \in [1..n -> Statement]
  BY <1>2
<1> HIDE DEF p, n
<1>4. Requests(p)
  BY <1>1, <1>2, <1>3 DEF Requests
<1>5. p # <<>>
  BY <1>1, <1>3
<1> QED
  BY <1>4, <1>5, Zenon DEF p

LEMMA AskReviewersIsSteady ==
    ASSUME StepsInv, NEW h \in Busy, AskReviewers(h), UNCHANGED tables
    PROVE  Steady(h)
<1> DEFINE x == Current(h).about
<1>1. Current(h).op = "ask_reviewers" /\ Current(h).op \in LastReads /\ Current(h) \in Statement
  BY BusyFits DEF AskReviewers, At, LastReads
<1>2. x \in Texts
  BY <1>1, ReadFields
<1>3. CASE Abandon(h)
  BY <1>3, AbandonedIsSteady
<1>4. CASE /\ ExpectedReviewers # {}
           /\ \E order \in [1..Cardinality(ExpectedReviewers) -> ExpectedReviewers] :
                  Proceed(h, Spawn("multi_agent_review", None,
                      [k \in DOMAIN order |-> NumberStmt(New, None, order[k], Draft(x))],
                      <<SetSessionStmt("round_3")>>))
  <2>1. PICK order \in [1..Cardinality(ExpectedReviewers) -> ExpectedReviewers] :
            Proceed(h, Spawn("multi_agent_review", None,
                [k \in DOMAIN order |-> NumberStmt(New, None, order[k], Draft(x))],
                <<SetSessionStmt("round_3")>>))
    BY <1>4
  <2> DEFINE p == [k \in DOMAIN order |-> NumberStmt(New, None, order[k], Draft(x))]
  <2>2. Requests(p)
    BY <1>2, <1>4, ReviewRequests, Zenon
  <2>3. Proceed(h, Spawn("multi_agent_review", None, p, <<SetSessionStmt("round_3")>>))
    BY <2>1
  <2> HIDE DEF p
  <2>4. "multi_agent_review" \in RoundTypes /\ "round_3" \in SessionStatuses
    BY DEF RoundTypes, SessionStatuses
  <2> QED
    BY <1>1, <2>2, <2>3, <2>4, SpawnIsSteady
<1> QED
  BY <1>3, <1>4 DEF AskReviewers

LEMMA TallyIsSteady ==
    ASSUME StepsInv, NEW h \in Busy, Tally(h), UNCHANGED tables
    PROVE  Steady(h)
<1> DEFINE r == Current(h).about
           rejecters == RejectersOf(reviews, r)
<1>1. Current(h).op \in LastReads /\ r \in DOMAIN rounds
  <2>1. Current(h).op = "tally" /\ Lasting(Current(h), rounds, iters, overtaken)
    BY BusyFits DEF Tally, At
  <2> QED
    BY <2>1 DEF Lasting, LastReads
<1>2. rejecters \in SUBSET Agents
  <2>1. \A v \in reviews : v.reviewer \in Agents
    BY DEF StepsInv, StepsTypeOK, TypeOK, Review
  <2> QED
    BY <2>1 DEF RejectersOf
<1>3. \/ Proceed(h, <<>>)
      \/ Proceed(h, <<SetRoundStmt(r, "complete", None), ReadStmt("execute", None)>>)
      \/ Proceed(h, <<SetRoundStmt(r, "complete", None), ReadStmt("weigh", rejecters)>>)
  BY DEF Tally
<1>4. /\ ReadStmt("execute", None) \in Statement /\ ReadStmt("execute", None).op \in Plain
      /\ ReadStmt("weigh", rejecters) \in Statement /\ ReadStmt("weigh", rejecters).op \in Plain
  <2> HIDE DEF rejecters
  <2> QED
    BY <1>2, ReadStatements DEF ReadStmt, Plain
<1>5. "complete" \in RoundStatuses \ {"in_progress"}
  BY DEF RoundStatuses
<1> HIDE DEF r, rejecters
<1> QED
  BY <1>1, <1>3, <1>4, <1>5, NothingIsSteady, RoundThenPlainIsSteady

LEMMA WeighIsSteady ==
    ASSUME StepsInv, NEW h \in Busy, Weigh(h), UNCHANGED tables
    PROVE  Steady(h)
<1> DEFINE S == Current(h).about
           p == SpawnPairs(ProblemWith(S))
<1>1. Current(h).op \in LastReads /\ Current(h).op = "weigh" /\ Current(h) \in Statement
  BY BusyFits DEF Weigh, At, LastReads
<1>2. S \in SUBSET Agents
  BY <1>1, ReadFields
<1>3. Proceed(h, <<ReadStmt("mediate", S)>>) \/ Proceed(h, p)
  BY DEF Weigh
<1>4. ReadStmt("mediate", S) \in Statement /\ ReadStmt("mediate", S).op \in Plain
  BY <1>2, ReadStatements DEF ReadStmt, Plain
<1>5. ProblemWith(S) \in Inputs
  BY <1>2 DEF Inputs
<1>6. Plan(p, rounds, iters, overtaken) /\ (p # <<>> => p[1].op \in Plain \cup {"open_round"})
  BY <1>5, SpawnPairsPlan DEF Plain
<1> HIDE DEF p, S
<1> QED
  BY <1>1, <1>3, <1>4, <1>6, OnePlainIsSteady, PlanIsSteady

LEMMA ExecuteIsSteady ==
    ASSUME StepsInv, NEW h \in Busy, Execute(h), UNCHANGED tables
    PROVE  Steady(h)
<1> DEFINE input == Draft(Round2Outcome(rounds))
<1>1. Current(h).op \in LastReads
  BY DEF Execute, At, LastReads
<1>2. /\ "execute" \in RoundTypes /\ "execute" # "same_host_pair"
      /\ "executing" \in SessionStatuses
  BY DEF RoundTypes, SessionStatuses
<1>3. CASE Round2Outcome(rounds) = None
  <2>1. Requests(<<>>)
    BY DEF Requests
  <2>2. Proceed(h, Spawn("execute", None, <<>>, <<>>))
    BY <1>3 DEF Execute
  <2> QED
    BY <1>1, <1>2, <2>1, <2>2, SpawnIsSteady
<1>4. CASE Round2Outcome(rounds) # None
  <2> DEFINE s == NumberStmt(New, None, Executor, input)
  <2>1. Round2Outcome(rounds) \in Texts
    BY <1>4, InvTables, Round2OutcomeIsText
  <2>2. input \in Inputs
    BY <2>1 DEF Inputs
  <2>3. s \in Statement /\ s.op = "number" /\ s.round = New
    BY <2>2, NumberIsStatement DEF NumberStmt, Agents, New
  <2>4. Proceed(h, Spawn("execute", None, <<s>>, <<SetSessionStmt("executing")>>))
    BY <1>4 DEF Execute, Ask
  <2> HIDE DEF s
  <2>5. Requests(<<s>>)
    BY <2>3 DEF Requests
  <2> QED
    BY <1>1, <1>2, <2>4, <2>5, SpawnIsSteady
<1> QED
  BY <1>3, <1>4

LEMMA ReadIsSteady ==
    ASSUME StepsInv, Read
    PROVE  \E h \in Threads : Steady(h)
<1>1. PICK h \in Busy :
           \/ Check(h) \/ Number(h) \/ Advance(h) \/ MaybeAdvance(h) \/ Reconcile(h)
           \/ Arbitrate(h) \/ Close(h) \/ AskReviewers(h) \/ Tally(h) \/ Weigh(h)
           \/ Mediate(h) \/ Execute(h)
  BY DEF Read
<1>2. UNCHANGED tables
  BY DEF Read
<1>3. Steady(h)
  BY <1>1, <1>2, CheckIsSteady, NumberIsSteady, AdvanceIsSteady, MaybeAdvanceIsSteady,
     ToArbitrationIsSteady, CloseIsSteady, AskReviewersIsSteady, TallyIsSteady,
     WeighIsSteady, ExecuteIsSteady
<1> QED
  BY <1>3 DEF Busy

-----------------------------------------------------------------------------
(***************************************************************************)
(* The handlers: what each of them sets out to do fits what it has read.   *)
(***************************************************************************)
LEMMA BegunIsSteady ==
    ASSUME StepsInv, NEW h \in Threads, NEW p, Begin(h, p), Quiet,
           Plan(p, rounds, iters, overtaken),
           p # <<>> => Ready([Idle EXCEPT !.todo = p], rounds, iters, skipped, overtaken)
    PROVE  Steady(h)
<1> DEFINE w == [Idle EXCEPT !.todo = p]
<1>1. work' = [work EXCEPT ![h] = Resting(w)]
  BY DEF Begin
<1>2. p \in Seq(Statement)
  BY DEF Plan
<1>3. w \in Handlers /\ w.todo = p /\ w.made = New /\ w.asked = New
  BY <1>2 DEF Handlers, Idle, New
<1>4. p # <<>> => Ready(w, rounds, iters, skipped, overtaken)
  OBVIOUS
<1> HIDE DEF w
<1>5. Len(rounds) \in Nat /\ Len(iters) \in Nat
  BY InvTables
<1>6. Fits(w, rounds, iters, skipped, overtaken)
  BY <1>3, <1>4, <1>5 DEF Fits, Handlers, New
<1>7. Fits(Resting(w), rounds, iters, skipped, overtaken)
  BY <1>6, InvTables, RestingFits
<1> QED
  BY <1>1, <1>7, QuietIsSteady

\* What the first statement has to be, where a handler begins with it.
Starts(s) ==
    \/ s.op \in Plain \cup {"open_round", "close", "tally"}
    \/ /\ s.op \in {"set_round", "number"}
       /\ s.round # New /\ s.round \in DOMAIN rounds
       /\ s.op = "set_round" => s.status # "in_progress"
    \/ /\ s.op = "release" /\ s.request # New /\ s.request \in DOMAIN iters
       /\ iters[s.request].status = "awaiting_nudge"
    \/ /\ s.op = "record" /\ s.request # New /\ s.request \in DOMAIN iters
       /\ iters[s.request].status = "awaiting_destination"
    \/ s.op = "write_skips" /\ skipped \subseteq s.skips

LEMMA StartIsReady ==
    ASSUME NEW p, Starts(p[1])
    PROVE  Ready([Idle EXCEPT !.todo = p], rounds, iters, skipped, overtaken)
<1> DEFINE w == [Idle EXCEPT !.todo = p]
           s == p[1]
<1>1. w.todo = p
  BY DEF Idle
<1>2. w.todo[1] = s
  BY <1>1
<1> HIDE DEF w
<1>3. s.op \in RoundStmts => s.op \in {"set_round", "number", "insert"}
  BY DEF RoundStmts
<1>4. s.op \in RequestStmts => s.op \in {"check", "release", "record"}
  BY DEF RequestStmts
<1> HIDE DEF s
<1>5. CASE s.op \in Plain \cup {"open_round", "close", "tally"}
  <2>1. /\ s.op \notin {"set_round", "number", "insert", "check", "release", "record",
                        "advance", "write_skips"}
    BY <1>5 DEF Plain
  <2>2. Ready(w, rounds, iters, skipped, overtaken)
    BY <1>2, <1>3, <1>4, <2>1 DEF Ready
  <2> QED
    BY <2>2 DEF w
<1>6. CASE s.op \in {"set_round", "number"} /\ Starts(s)
  <2>1. /\ s.round # New /\ s.round \in DOMAIN rounds
        /\ s.op = "set_round" => s.status # "in_progress"
    BY <1>6 DEF Starts, Plain
  <2>2. Ready(w, rounds, iters, skipped, overtaken)
    BY <1>2, <1>3, <1>4, <1>6, <2>1 DEF Ready
  <2> QED
    BY <2>2 DEF w
<1>7. CASE s.op \in {"release", "record"} /\ Starts(s)
  <2>1. /\ s.request # New /\ s.request \in DOMAIN iters
        /\ s.op = "release" => iters[s.request].status = "awaiting_nudge"
        /\ s.op = "record" => iters[s.request].status = "awaiting_destination"
    BY <1>7 DEF Starts, Plain
  <2>2. Ready(w, rounds, iters, skipped, overtaken)
    BY <1>2, <1>3, <1>4, <1>7, <2>1 DEF Ready
  <2> QED
    BY <2>2 DEF w
<1>8. CASE s.op = "write_skips" /\ Starts(s)
  <2>1. skipped \subseteq s.skips
    BY <1>8 DEF Starts, Plain
  <2>2. Ready(w, rounds, iters, skipped, overtaken)
    BY <1>2, <1>3, <1>4, <1>8, <2>1 DEF Ready
  <2> QED
    BY <2>2 DEF w
<1> QED
  BY <1>5, <1>6, <1>7, <1>8 DEF Starts, s

LEMMA PlanBegins ==
    ASSUME StepsInv, NEW h \in Threads, NEW p, Begin(h, p), Quiet,
           Plan(p, rounds, iters, overtaken), p # <<>> => Starts(p[1])
    PROVE  Steady(h)
BY StartIsReady, BegunIsSteady

LEMMA OneBegins ==
    ASSUME StepsInv, NEW h \in Threads, NEW s \in Statement, Begin(h, <<s>>), Quiet,
           Lasting(s, rounds, iters, overtaken), Starts(s)
    PROVE  Steady(h)
<1>1. Plan(<<s>>, rounds, iters, overtaken) /\ <<s>>[1] = s
  BY OnePlan
<1> QED
  BY <1>1, PlanBegins

\* One more statement.
LEMMA AppendedPlan ==
    ASSUME NEW rs, NEW t, NEW over, NEW p, Plan(p, rs, t, over),
           NEW b \in Statement, Lasting(b, rs, t, over),
           p # <<>> => Follows(p[Len(p)], b, t),
           Reopens(b) => \A j \in 1..Len(p) : p[j].op \in {"number", "insert", "check", "release"}
    PROVE  /\ Plan(p \o <<b>>, rs, t, over)
           /\ Len(p \o <<b>>) = Len(p) + 1
           /\ (p \o <<b>>)[Len(p) + 1] = b
           /\ \A k \in 1..Len(p) : (p \o <<b>>)[k] = p[k]
           /\ (p \o <<b>>)[1] = IF p = <<>> THEN b ELSE p[1]
<1>1. p \in Seq(Statement) /\ Len(p) \in Nat
  BY DEF Plan
<1>2. Plan(<<b>>, rs, t, over) /\ Len(<<b>>) = 1 /\ <<b>>[1] = b
  BY OnePlan
<1>3. Joins(p, <<b>>, t)
  BY <1>2 DEF Joins
<1>4. Plan(p \o <<b>>, rs, t, over)
  BY <1>2, <1>3, JoinedPlan
<1> QED
  BY <1>1, <1>4

LEMMA JoinedTuple ==
    ASSUME NEW S, NEW a \in S, NEW b \in S, NEW c \in S
    PROVE  <<a, b>> \o <<c>> = <<a, b, c>>
<1> DEFINE p == <<a, b>> \o <<c>>
           q == <<a, b, c>>
<1>1. /\ p \in Seq(S) /\ Len(p) = 3 /\ p[1] = a /\ p[2] = b /\ p[3] = c
      /\ q \in Seq(S) /\ Len(q) = 3 /\ q[1] = a /\ q[2] = b /\ q[3] = c
  OBVIOUS
<1> HIDE DEF p, q
<1>2. \A k \in 1..3 : p[k] = q[k]
  BY <1>1
<1>3. p = q
  BY <1>1, <1>2, SeqEqual
<1> QED
  BY <1>3 DEF p, q

LEMMA JoinedTriple ==
    ASSUME NEW S, NEW w \in Seq(S), NEW a \in S, NEW b \in S, NEW c \in S
    PROVE  w \o <<a, b, c>> = (w \o <<a, b>>) \o <<c>>
<1>1. <<a, b>> \in Seq(S) /\ <<c>> \in Seq(S)
  OBVIOUS
<1>2. (w \o <<a, b>>) \o <<c>> = w \o (<<a, b>> \o <<c>>)
  BY <1>1, ConcatAssociative
<1>3. <<a, b>> \o <<c>> = <<a, b, c>>
  BY JoinedTuple
<1> QED
  BY <1>2, <1>3

\* The ends of a list that goes on.
LEMMA JoinedEnds ==
    ASSUME NEW S, NEW p \in Seq(S), NEW q \in Seq(S), q # <<>>
    PROVE  /\ p \o q # <<>>
           /\ (p \o q)[Len(p \o q)] = q[Len(q)]
           /\ (p \o q)[1] = IF p = <<>> THEN q[1] ELSE p[1]
<1> DEFINE c == p \o q
<1>1. /\ c \in Seq(S) /\ Len(c) = Len(p) + Len(q)
      /\ \A k \in 1..(Len(p) + Len(q)) : c[k] = IF k <= Len(p) THEN p[k] ELSE q[k - Len(p)]
  BY ConcatProperties
<1>2. Len(p) \in Nat /\ Len(q) \in Nat \ {0} /\ (p # <<>> => Len(p) # 0)
  OBVIOUS
<1> HIDE DEF c
<1>3. Len(c) \in 1..(Len(p) + Len(q)) /\ ~(Len(c) <= Len(p)) /\ Len(c) - Len(p) = Len(q)
  BY <1>1, <1>2
<1>4. c[Len(c)] = q[Len(q)]
  BY <1>1, <1>3
<1>5. CASE p = <<>>
  <2>1. Len(p) = 0 /\ 1 \in 1..(Len(p) + Len(q)) /\ 1 - Len(p) = 1 /\ ~(1 <= Len(p))
    BY <1>2, <1>5
  <2>2. c[1] = q[1]
    BY <1>1, <2>1
  <2> QED
    BY <1>3, <1>4, <1>5, <2>2 DEF c
<1>6. CASE p # <<>>
  <2>1. 1 \in 1..(Len(p) + Len(q)) /\ 1 <= Len(p)
    BY <1>2, <1>6
  <2>2. c[1] = p[1]
    BY <1>1, <2>1
  <2> QED
    BY <1>3, <1>4, <1>6, <2>2 DEF c
<1> QED
  BY <1>5, <1>6

LEMMA PlainBehind ==
    ASSUME NEW rs, NEW t, NEW over, NEW p, Plan(p, rs, t, over),
           NEW b \in Statement, b.op \in Plain,
           p # <<>> => p[Len(p)].op \notin LastReads
    PROVE  /\ Plan(p \o <<b>>, rs, t, over)
           /\ (p \o <<b>>)[1] = IF p = <<>> THEN b ELSE p[1]
<1>1. /\ Lasting(b, rs, t, over) /\ ~Reopens(b)
      /\ p # <<>> => Follows(p[Len(p)], b, t)
  BY PlainStatement
<1> QED
  BY <1>1, AppendedPlan

LEMMA CreateSessionIsSteady ==
    ASSUME StepsInv, NEW h \in Threads, CreateSession(h)
    PROVE  Steady(h)
<1> DEFINE p == SpawnPairs(Problem)
<1>1. Begin(h, p)
  BY DEF CreateSession
<1>2. Quiet
  BY DEF CreateSession, Quiet, StepsInv, StepsTypeOK, TypeOK
<1>3. Problem \in Inputs
  BY DEF Inputs
<1>4. Plan(p, rounds, iters, overtaken) /\ (p # <<>> => p[1].op \in {"open_round", "set_session"})
  BY <1>3, SpawnPairsPlan
<1> HIDE DEF p
<1>5. p # <<>> => Starts(p[1])
  BY <1>4 DEF Starts, Plain
<1> QED
  BY <1>1, <1>2, <1>4, <1>5, PlanBegins

\* An answer that is recorded first.
LEMMA RecordStarts ==
    ASSUME StepsInv, NEW i \in DOMAIN iters, NEW output \in Texts,
           NEW assess \in {"converged", "more_work_needed"}
    PROVE  /\ RecordStmt(i, output, assess) \in Statement
           /\ RecordStmt(i, output, assess).op = "record"
           /\ RecordStmt(i, output, assess).request = i
           /\ Lasting(RecordStmt(i, output, assess), rounds, iters, overtaken)
           /\ iters[i].status = "awaiting_destination" => Starts(RecordStmt(i, output, assess))
<1> DEFINE s == RecordStmt(i, output, assess)
<1>1. i \in Nat /\ i # New
  BY InvTables DEF New
<1>2. s \in Statement /\ s.op = "record" /\ s.request = i
  BY <1>1, RequestStatements DEF RecordStmt
<1> HIDE DEF s
<1>3. Lasting(s, rounds, iters, overtaken)
  BY <1>1, <1>2 DEF Lasting, RoundStmts, RequestStmts, Reopens
<1>4. iters[i].status = "awaiting_destination" => Starts(s)
  BY <1>1, <1>2 DEF Starts
<1> QED
  BY <1>2, <1>3, <1>4 DEF s

\* A round that is given a status other than the one a retry gives it.
LEMMA SetRoundLasts ==
    ASSUME StepsInv, NEW r \in DOMAIN rounds, NEW status \in RoundStatuses \ {"in_progress"},
           NEW outcome \in Texts \cup {None}
    PROVE  LET s == SetRoundStmt(r, status, outcome)
           IN  /\ s \in Statement /\ s.op = "set_round" /\ s.round = r
               /\ Lasting(s, rounds, iters, overtaken) /\ ~Reopens(s) /\ Starts(s)
               /\ \A a : a.op \notin LastReads => Follows(a, s, iters)
<1> DEFINE s == SetRoundStmt(r, status, outcome)
<1>1. r \in Nat /\ r # New
  BY InvTables DEF New
<1>2. s \in Statement /\ s.op = "set_round" /\ s.round = r /\ s.status = status
  BY <1>1, SetRoundIsStatement DEF SetRoundStmt
<1> HIDE DEF s
<1>3. Lasting(s, rounds, iters, overtaken) /\ ~Reopens(s)
  BY <1>2 DEF Lasting, RoundStmts, RequestStmts, Reopens
<1>4. Starts(s)
  BY <1>1, <1>2 DEF Starts
<1>5. \A a : a.op \notin LastReads => Follows(a, s, iters)
  BY <1>1, <1>2 DEF Follows
<1> QED
  BY <1>2, <1>3, <1>4, <1>5 DEF s

LEMMA DestinationRespondsIsSteady ==
    ASSUME StepsInv, NEW i \in DOMAIN iters, NEW output \in Texts,
           NEW assess \in {"converged", "more_work_needed"},
           DestinationResponds(i, output, assess)
    PROVE  Steady(Loop)
<1> DEFINE r == iters[i].round
           a == RecordStmt(i, output, assess)
           b == ReadStmt("advance", r)
           c == SetRoundStmt(r, "complete", output)
           d == ReadStmt("ask_reviewers", output)
<1>1. /\ Quiet /\ Loop \in Threads /\ iters[i].status = "awaiting_destination"
      /\ r \in DOMAIN rounds /\ r \in Nat \ {0}
  <2>1. UNCHANGED tables /\ iters[i].status = "awaiting_destination"
    BY DEF DestinationResponds, CanRespond
  <2>2. Quiet
    BY <2>1, UnchangedIsQuiet
  <2>3. r \in DOMAIN rounds /\ r \in Nat \ {0}
    BY InvTables DEF StepsInv, StepsTypeOK, TypeOK
  <2> QED
    BY <2>1, <2>2, <2>3 DEF Threads
<1>2. /\ a \in Statement /\ a.op = "record" /\ a.request = i
      /\ Lasting(a, rounds, iters, overtaken) /\ Starts(a)
  BY <1>1, RecordStarts
<1>3. \/ rounds[r].type = "same_host_pair" /\ Begin(Loop, <<a, b>>)
      \/ Begin(Loop, <<a, c, d>>)
  BY DEF DestinationResponds, CanRespond
<1>4. CASE rounds[r].type = "same_host_pair" /\ Begin(Loop, <<a, b>>)
  <2>1. b \in Statement /\ b.op = "advance" /\ b.about = r
    BY <1>1, ReadStatements DEF ReadStmt
  <2> DEFINE x == r
  <2>2. /\ iters[a.request].round = x /\ b.about = x /\ x \in DOMAIN rounds
        /\ rounds[x].type = "same_host_pair"
    BY <1>1, <1>2, <1>4, <2>1
  <2> HIDE DEF x, a, b
  <2>3. Lasting(b, rounds, iters, overtaken) /\ ~Reopens(b)
    BY <2>1, <2>2 DEF Lasting, RoundStmts, RequestStmts, Reopens
  <2>4. Follows(a, b, iters)
    BY <1>2, <2>1, <2>2 DEF Follows, LastReads
  <2>5. Plan(<<a, b>>, rounds, iters, overtaken) /\ <<a, b>>[1] = a
    BY <1>2, <2>1, <2>3, <2>4, TwoPlan
  <2> QED
    BY <1>1, <1>2, <1>4, <2>5, PlanBegins
<1>5. CASE Begin(Loop, <<a, c, d>>)
  <2>1. /\ c \in Statement /\ c.op = "set_round"
        /\ Lasting(c, rounds, iters, overtaken) /\ ~Reopens(c)
        /\ a.op \notin LastReads => Follows(a, c, iters)
    <3>1. "complete" \in RoundStatuses \ {"in_progress"}
      BY DEF RoundStatuses
    <3> QED
      BY <1>1, <3>1, SetRoundLasts
  <2>2. d \in Statement /\ d.op \in Plain
    BY ReadStatements DEF ReadStmt, Plain
  <2> HIDE DEF a, c, d
  <2>3. Follows(a, c, iters)
    BY <1>2, <2>1 DEF LastReads
  <2> DEFINE p == <<a, c>>
  <2>4. Plan(p, rounds, iters, overtaken)
    BY <1>2, <2>1, <2>3, TwoPlan
  <2>5. Len(p) = 2 /\ p # <<>> /\ p[1] = a /\ p[2] = c /\ p \o <<d>> = <<a, c, d>>
    BY <1>2, <2>1, <2>2, JoinedTuple
  <2> HIDE DEF p
  <2>6. Plan(p \o <<d>>, rounds, iters, overtaken) /\ (p \o <<d>>)[1] = a
    BY <2>1, <2>2, <2>4, <2>5, PlainBehind DEF LastReads
  <2> QED
    BY <1>1, <1>2, <1>5, <2>5, <2>6, PlanBegins
<1> QED
  BY <1>3, <1>4, <1>5

LEMMA ReviewerDecidesIsSteady ==
    ASSUME StepsInv, NEW r \in DOMAIN rounds, NEW a \in Agents,
           NEW decision \in {"approve", "reject"}, ReviewerDecides(r, a, decision)
    PROVE  Steady(Loop)
<1> DEFINE s == ReadStmt("tally", r)
           v == [round |-> r, reviewer |-> a, decision |-> decision]
<1>1. r \in Nat \ {0}
  BY InvTables
<1>2. v \in Review /\ v.round = r
  BY <1>1 DEF Review
<1>3. Begin(Loop, <<s>>) /\ Loop \in Threads
  BY DEF ReviewerDecides, Threads
<1>4. Quiet
  <2>1. reviews' = reviews \cup {v} /\ UNCHANGED <<session, rounds, iters, skipped, finalized>>
    BY DEF ReviewerDecides
  <2>2. reviews \in SUBSET Review /\ \A u \in reviews : u.round \in DOMAIN rounds
    BY DEF StepsInv, StepsTypeOK, TypeOK
  <2> HIDE DEF v
  <2> QED
    BY <1>2, <2>1, <2>2 DEF Quiet
<1>5. s \in Statement /\ s.op = "tally" /\ s.about = r
  BY <1>1, ReadStatements DEF ReadStmt
<1> HIDE DEF s
<1>6. Lasting(s, rounds, iters, overtaken) /\ Starts(s)
  BY <1>5 DEF Lasting, RoundStmts, RequestStmts, Reopens, Starts
<1> QED
  BY <1>3, <1>4, <1>5, <1>6, OneBegins

\* A window that is closed first.
LEMMA ReleaseStarts ==
    ASSUME StepsInv, NEW i \in AwaitingNudge, NEW nudged \in BOOLEAN
    PROVE  LET s == ReleaseStmt(i, nudged)
           IN  /\ s \in Statement /\ s.op = "release" /\ s.request = i
               /\ Lasting(s, rounds, iters, overtaken) /\ ~Reopens(s) /\ Starts(s)
<1> DEFINE s == ReleaseStmt(i, nudged)
<1>1. i \in DOMAIN iters /\ iters[i].status = "awaiting_nudge" /\ i \in Nat /\ i # New
  BY InvTables DEF AwaitingNudge, New
<1>2. s \in Statement /\ s.op = "release" /\ s.request = i
  BY <1>1, RequestStatements DEF ReleaseStmt
<1> HIDE DEF s
<1>3. Lasting(s, rounds, iters, overtaken) /\ ~Reopens(s)
  BY <1>1, <1>2 DEF Lasting, RoundStmts, RequestStmts, Reopens
<1>4. Starts(s)
  BY <1>1, <1>2 DEF Starts
<1> QED
  BY <1>2, <1>3, <1>4 DEF s

\* A request that is looked at again.
LEMMA CheckLasts ==
    ASSUME StepsInv, NEW i \in DOMAIN iters, NEW status \in IterationStatuses
    PROVE  LET s == CheckStmt(i, status)
           IN  /\ s \in Statement /\ s.op = "check" /\ s.request = i /\ s.status = status
               /\ Lasting(s, rounds, iters, overtaken) /\ ~Reopens(s)
               /\ \A a : a.op \notin LastReads => Follows(a, s, iters)
<1> DEFINE s == CheckStmt(i, status)
<1>1. i \in Nat /\ i # New
  BY InvTables DEF New
<1>2. s \in Statement /\ s.op = "check" /\ s.request = i /\ s.status = status
  BY <1>1, RequestStatements DEF CheckStmt
<1> HIDE DEF s
<1>3. Lasting(s, rounds, iters, overtaken) /\ ~Reopens(s)
  BY <1>1, <1>2 DEF Lasting, RoundStmts, RequestStmts, Reopens
<1>4. \A a : a.op \notin LastReads => Follows(a, s, iters)
  BY <1>1, <1>2 DEF Follows
<1> QED
  BY <1>2, <1>3, <1>4 DEF s

LEMMA NudgeOrSkipIsSteady ==
    ASSUME StepsInv, NEW h \in Threads, NEW i, NEW submit \in BOOLEAN,
           NudgeOrSkip(h, i, submit)
    PROVE  Steady(h)
<1>1. Quiet /\ i \in AwaitingNudge /\ Begin(h, <<ReleaseStmt(i, submit)>>)
  BY UnchangedIsQuiet DEF NudgeOrSkip
<1> QED
  BY <1>1, ReleaseStarts, OneBegins

LEMMA ResolveByAbortIsSteady ==
    ASSUME StepsInv, NEW h \in Threads, ResolveByAbort(h)
    PROVE  Steady(h)
<1> DEFINE s == SetSessionStmt("aborted")
<1>1. Quiet /\ Begin(h, <<s>>)
  BY UnchangedIsQuiet DEF ResolveByAbort
<1>2. s \in Statement /\ s.op \in Plain
  BY SessionStatements DEF SetSessionStmt, SessionStatuses, Plain
<1> HIDE DEF s
<1>3. Lasting(s, rounds, iters, overtaken) /\ Starts(s)
  BY <1>2, PlainStatement DEF Starts
<1> QED
  BY <1>1, <1>2, <1>3, OneBegins

LEMMA SkipReviewerIsSteady ==
    ASSUME StepsInv, NEW h \in Threads, NEW a \in AllWorkers, SkipReviewer(h, a)
    PROVE  Steady(h)
<1> DEFINE S == skipped \cup {a}
           s == WriteSkipsStmt(S)
<1>1. Quiet /\ Begin(h, <<s>>)
  BY UnchangedIsQuiet DEF SkipReviewer
<1>2. S \in SUBSET Agents /\ skipped \subseteq S
  BY InvTables DEF Agents
<1>3. s \in Statement /\ s.op = "write_skips" /\ s.skips = S
  BY <1>2, SessionStatements DEF WriteSkipsStmt
<1> HIDE DEF s
<1>4. Lasting(s, rounds, iters, overtaken) /\ Starts(s)
  BY <1>2, <1>3 DEF Lasting, RoundStmts, RequestStmts, Reopens, Starts
<1> QED
  BY <1>1, <1>3, <1>4, OneBegins

LEMMA SweepPlan ==
    ASSUME StepsInv, Sweep
    PROVE  \E p : /\ Begin(Loop, p) /\ Plan(p, rounds, iters, overtaken) /\ Starts(p[1])
                  /\ \A k \in 1..Len(p) : p[k].op \in {"release", "check"}
<1>0. PICK k \in AwaitingNudge :
          \E order \in [1..Cardinality({i \in AwaitingNudge : i <= k}) ->
                            {i \in AwaitingNudge : i <= k}] :
              /\ Begin(Loop, [n \in 1..(2 * Len(order) - 1) |->
                     IF n % 2 = 1 THEN ReleaseStmt(order[(n + 1) \div 2], FALSE)
                     ELSE CheckStmt(order[n \div 2 + 1], "awaiting_nudge")])
              /\ UNCHANGED tables
  BY Zenon DEF Sweep
<1>1. PICK order \in [1..Cardinality({i \in AwaitingNudge : i <= k}) ->
                          {i \in AwaitingNudge : i <= k}] :
          /\ Begin(Loop, [n \in 1..(2 * Len(order) - 1) |->
                 IF n % 2 = 1 THEN ReleaseStmt(order[(n + 1) \div 2], FALSE)
                 ELSE CheckStmt(order[n \div 2 + 1], "awaiting_nudge")])
          /\ UNCHANGED tables
  BY <1>0
<1> DEFINE expired == {i \in AwaitingNudge : i <= k}
           len == Cardinality(expired)
           p == [n \in 1..(2 * len - 1) |->
                    IF n % 2 = 1 THEN ReleaseStmt(order[(n + 1) \div 2], FALSE)
                    ELSE CheckStmt(order[n \div 2 + 1], "awaiting_nudge")]
<1>2. len \in Nat \ {0}
  <2>1. Len(iters) \in Nat /\ AwaitingNudge \in SUBSET (1..Len(iters))
    BY InvTables DEF AwaitingNudge
  <2>2. expired \in SUBSET (1..Len(iters)) /\ k \in expired
    <3>1. k \in 1..Len(iters) /\ k <= k
      BY <2>1
    <3>2. expired \subseteq AwaitingNudge /\ k \in expired
      BY <3>1
    <3> HIDE DEF expired
    <3> QED
      BY <2>1, <3>2
  <2>3. IsFiniteSet(expired)
    BY <2>1, <2>2, SubsetOfInterval
  <2> HIDE DEF expired
  <2> QED
    BY <2>2, <2>3, FS_CardinalityType, FS_EmptySet
<1>3. \A m \in 1..len : order[m] \in AwaitingNudge
  OBVIOUS
<1>4. Len(order) = len
  <2>1. order \in [1..len -> expired]
    OBVIOUS
  <2> HIDE DEF len, expired
  <2>2. order \in Seq(expired) /\ DOMAIN order = 1..len
    BY <1>2, <2>1
  <2> QED
    BY <1>2, <2>2
<1>5. Begin(Loop, p)
  BY <1>1, <1>4
<1> HIDE DEF len, expired
<1>6. ASSUME NEW n \in 1..(2 * len - 1)
      PROVE  /\ p[n] \in Statement /\ Lasting(p[n], rounds, iters, overtaken) /\ ~Reopens(p[n])
             /\ n % 2 = 1 => /\ p[n].op = "release" /\ p[n].request = order[(n + 1) \div 2]
                             /\ Starts(p[n])
             /\ n % 2 = 0 => /\ p[n].op = "check" /\ p[n].request = order[n \div 2 + 1]
                             /\ p[n].status = "awaiting_nudge"
                             /\ \A a : a.op \notin LastReads => Follows(a, p[n], iters)
  <2>1. CASE n % 2 = 1
    <3>1. (n + 1) \div 2 \in 1..len
      BY <1>2, <2>1
    <3>2. p[n] = ReleaseStmt(order[(n + 1) \div 2], FALSE)
      BY <2>1
    <3>3. PICK i \in AwaitingNudge : i = order[(n + 1) \div 2]
      BY <1>3, <3>1
    <3> HIDE DEF p
    <3>4. p[n] = ReleaseStmt(i, FALSE) /\ ~(n % 2 = 0)
      BY <2>1, <3>2, <3>3
    <3>5. /\ p[n] \in Statement /\ p[n].op = "release" /\ p[n].request = i
          /\ Lasting(p[n], rounds, iters, overtaken) /\ ~Reopens(p[n]) /\ Starts(p[n])
      BY <3>4, ReleaseStarts
    <3> QED
      BY <3>3, <3>4, <3>5
  <2>2. CASE n % 2 = 0
    <3>1. n \div 2 + 1 \in 1..len
      BY <1>2, <2>2
    <3>2. ~(n % 2 = 1)
      BY <2>2
    <3>3. p[n] = CheckStmt(order[n \div 2 + 1], "awaiting_nudge")
      BY <3>2
    <3>4. PICK i \in DOMAIN iters : i = order[n \div 2 + 1]
      BY <1>3, <3>1 DEF AwaitingNudge
    <3>5. "awaiting_nudge" \in IterationStatuses
      BY DEF IterationStatuses
    <3> HIDE DEF p
    <3>6. p[n] = CheckStmt(i, "awaiting_nudge")
      BY <3>3, <3>4
    <3>7. /\ p[n] \in Statement /\ p[n].op = "check" /\ p[n].request = i
          /\ p[n].status = "awaiting_nudge"
          /\ Lasting(p[n], rounds, iters, overtaken) /\ ~Reopens(p[n])
          /\ \A a : a.op \notin LastReads => Follows(a, p[n], iters)
      BY <3>5, <3>6, CheckLasts
    <3> QED
      BY <3>2, <3>4, <3>7
  <2>3. n % 2 \in {0, 1}
    OBVIOUS
  <2> QED
    BY <2>1, <2>2, <2>3
<1>7. p \in Seq(Statement) /\ Len(p) = 2 * len - 1
  <2>1. 2 * len - 1 \in Nat
    BY <1>2
  <2>2. p \in [1..(2 * len - 1) -> Statement]
    BY <1>6
  <2> HIDE DEF p
  <2>3. p \in Seq(Statement) /\ DOMAIN p = 1..(2 * len - 1)
    BY <2>1, <2>2
  <2> QED
    BY <2>1, <2>3
<1> HIDE DEF p
<1>8. ASSUME NEW n \in 1..(2 * len - 1 - 1)
      PROVE  Follows(p[n], p[n + 1], iters)
  <2>1. n \in 1..(2 * len - 1) /\ n + 1 \in 1..(2 * len - 1) /\ n % 2 \in {0, 1}
    BY <1>2
  <2>2. CASE n % 2 = 1
    <3>1. (n + 1) % 2 = 0
      BY <2>2
    <3> QED
      BY <1>6, <2>1, <2>2, <3>1 DEF LastReads
  <2>3. CASE n % 2 = 0
    <3>1. (n + 1) % 2 = 1 /\ (n + 1 + 1) \div 2 = n \div 2 + 1
      BY <2>3
    <3>2. /\ p[n].op = "check" /\ p[n].status = "awaiting_nudge"
          /\ p[n].request = order[n \div 2 + 1]
      BY <1>6, <2>1, <2>3
    <3>3. p[n + 1].op = "release" /\ p[n + 1].request = order[(n + 1 + 1) \div 2]
      BY <1>6, <2>1, <3>1
    <3>4. p[n + 1].request = p[n].request
      BY <3>1, <3>2, <3>3
    <3> QED
      BY <3>2, <3>3, <3>4 DEF Follows, LastReads
  <2> QED
    BY <2>1, <2>2, <2>3
<1>9. Plan(p, rounds, iters, overtaken)
  BY <1>6, <1>7, <1>8 DEF Plan
<1>10. Starts(p[1])
  <2>1. 1 \in 1..(2 * len - 1) /\ 1 % 2 = 1
    BY <1>2
  <2> QED
    BY <1>6, <2>1
<1>11. \A n \in 1..Len(p) : p[n].op \in {"release", "check"}
  <2> SUFFICES ASSUME NEW n \in 1..Len(p)
               PROVE  p[n].op \in {"release", "check"}
    OBVIOUS
  <2>1. n \in 1..(2 * len - 1) /\ n % 2 \in {0, 1}
    BY <1>2, <1>7
  <2> QED
    BY <1>6, <2>1
<1> QED
  BY <1>5, <1>9, <1>10, <1>11

LEMMA SweepIsSteady ==
    ASSUME StepsInv, Sweep
    PROVE  Steady(Loop)
<1>1. PICK p : Begin(Loop, p) /\ Plan(p, rounds, iters, overtaken) /\ Starts(p[1])
  BY SweepPlan
<1>2. Quiet /\ Loop \in Threads
  BY UnchangedIsQuiet DEF Sweep, Threads
<1> QED
  BY <1>1, <1>2, PlanBegins

\* Rounds are closed or aborted in turn, and something plain comes last.
LEMMA InTurnIsSteady ==
    ASSUME StepsInv, NEW h \in Threads, Quiet, NEW n \in Nat,
           NEW f \in [1..n -> Statement],
           \A k \in 1..n :
               /\ Lasting(f[k], rounds, iters, overtaken) /\ ~Reopens(f[k]) /\ Starts(f[k])
               /\ f[k].op \notin LastReads
               /\ \A a : a.op \notin LastReads => Follows(a, f[k], iters),
           NEW b \in Statement, b.op \in Plain, Begin(h, f \o <<b>>)
    PROVE  Steady(h)
<1>1. f \in Seq(Statement) /\ Len(f) = n
  OBVIOUS
<1>2. \A k \in 1..(n - 1) : Follows(f[k], f[k + 1], iters)
  <2> SUFFICES ASSUME NEW k \in 1..(n - 1)
               PROVE  Follows(f[k], f[k + 1], iters)
    OBVIOUS
  <2>1. k \in 1..n /\ k + 1 \in 1..n
    OBVIOUS
  <2> QED
    BY <2>1
<1>3. Plan(f, rounds, iters, overtaken)
  BY <1>1, <1>2 DEF Plan
<1>4. f # <<>> => n \in 1..n /\ 1 \in 1..n
  BY <1>1
<1>5. /\ Plan(f \o <<b>>, rounds, iters, overtaken)
      /\ (f \o <<b>>)[1] = IF f = <<>> THEN b ELSE f[1]
  BY <1>1, <1>3, <1>4, PlainBehind
<1>6. Starts((f \o <<b>>)[1])
  BY <1>4, <1>5 DEF Starts
<1> QED
  BY <1>5, <1>6, PlanBegins

\* A listing is a sequence of the rounds it lists.
LEMMA ListingIsOfRounds ==
    ASSUME StepsInv, NEW S \in SUBSET (DOMAIN rounds), NEW listed \in Listings(S)
    PROVE  /\ Cardinality(S) \in Nat
           /\ DOMAIN listed = 1..Cardinality(S)
           /\ \A k \in DOMAIN listed : listed[k] \in S
<1>1. S \in SUBSET (1..Len(rounds)) /\ Len(rounds) \in Nat
  BY InvTables
<1>2. IsFiniteSet(S)
  BY <1>1, SubsetOfInterval
<1>3. listed \in [1..Cardinality(S) -> S]
  BY DEF Listings
<1> QED
  BY <1>2, <1>3, FS_CardinalityType

LEMMA AbortSessionIsSteady ==
    ASSUME StepsInv, NEW h \in Threads, AbortSession(h)
    PROVE  Steady(h)
<1> DEFINE S == {r \in DOMAIN rounds : rounds[r].status \in {"in_progress", "pending"}}
           n == Cardinality(S)
           b == SetSessionStmt("aborted")
<1>1. PICK live \in Listings(S) :
          Begin(h, [k \in DOMAIN live |-> SetRoundStmt(live[k], "aborted", None)] \o <<b>>)
  BY DEF AbortSession
<1>2. Quiet
  BY UnchangedIsQuiet DEF AbortSession
<1>3. b \in Statement /\ b.op \in Plain
  BY SessionStatements DEF SetSessionStmt, SessionStatuses, Plain
<1> DEFINE f == [k \in DOMAIN live |-> SetRoundStmt(live[k], "aborted", None)]
<1>4. n \in Nat /\ DOMAIN live = 1..n /\ \A k \in DOMAIN live : live[k] \in DOMAIN rounds
  <2>1. S \in SUBSET (DOMAIN rounds)
    OBVIOUS
  <2> HIDE DEF S
  <2> QED
    BY <2>1, ListingIsOfRounds
<1>5. ASSUME NEW k \in 1..n
      PROVE  /\ f[k] \in Statement /\ f[k].op \notin LastReads
             /\ Lasting(f[k], rounds, iters, overtaken) /\ ~Reopens(f[k]) /\ Starts(f[k])
             /\ \A a : a.op \notin LastReads => Follows(a, f[k], iters)
  <2>1. PICK r \in DOMAIN rounds : r = live[k]
    BY <1>4
  <2>2. f[k] = SetRoundStmt(r, "aborted", None)
    BY <1>4, <2>1
  <2>3. "aborted" \in RoundStatuses \ {"in_progress"}
    BY DEF RoundStatuses
  <2> HIDE DEF f
  <2> QED
    BY <2>2, <2>3, SetRoundLasts DEF LastReads
<1>6. f \in [1..n -> Statement]
  BY <1>4, <1>5
<1>7. Begin(h, f \o <<b>>)
  BY <1>1
<1> HIDE DEF f, b, n, S
<1> QED
  BY <1>2, <1>3, <1>4, <1>5, <1>6, <1>7, InTurnIsSteady

LEMMA CloseAllIsSteady ==
    ASSUME StepsInv, NEW h \in Threads, Quiet, NEW S \in SUBSET (DOMAIN rounds),
           NEW b \in Statement, b.op \in Plain, CloseAll(h, S, b)
    PROVE  Steady(h)
<1> DEFINE n == Cardinality(S)
<1>1. PICK listed \in Listings(S) :
          Begin(h, [k \in DOMAIN listed |-> ReadStmt("close", listed[k])] \o <<b>>)
  BY DEF CloseAll
<1> DEFINE f == [k \in DOMAIN listed |-> ReadStmt("close", listed[k])]
<1>2. n \in Nat /\ DOMAIN listed = 1..n /\ \A k \in DOMAIN listed : listed[k] \in DOMAIN rounds
  BY ListingIsOfRounds
<1>3. ASSUME NEW k \in 1..n
      PROVE  /\ f[k] \in Statement /\ f[k].op \notin LastReads
             /\ Lasting(f[k], rounds, iters, overtaken) /\ ~Reopens(f[k]) /\ Starts(f[k])
             /\ \A a : a.op \notin LastReads => Follows(a, f[k], iters)
  <2>1. PICK r \in DOMAIN rounds : r = listed[k]
    BY <1>2
  <2>2. f[k] = ReadStmt("close", r)
    BY <1>2, <2>1
  <2>3. r \in Nat \ {0}
    BY InvTables
  <2> DEFINE s == ReadStmt("close", r)
  <2>4. s \in Statement /\ s.op = "close" /\ s.about = r
    BY <2>3, ReadStatements DEF ReadStmt
  <2> HIDE DEF f, s
  <2>5. Lasting(s, rounds, iters, overtaken) /\ ~Reopens(s) /\ Starts(s)
    BY <2>4 DEF Lasting, RoundStmts, RequestStmts, Reopens, Starts
  <2>6. \A a : a.op \notin LastReads => Follows(a, s, iters)
    BY <2>4 DEF Follows
  <2> QED
    BY <2>2, <2>4, <2>5, <2>6 DEF LastReads, s
<1>4. f \in [1..n -> Statement]
  BY <1>2, <1>3
<1>5. Begin(h, f \o <<b>>)
  BY <1>1
<1> HIDE DEF f, n
<1> QED
  BY <1>2, <1>3, <1>4, <1>5, InTurnIsSteady

LEMMA ClosingIsSteady ==
    ASSUME StepsInv, NEW h \in Threads, ForceConverge(h) \/ ToArbitrator(h)
    PROVE  Steady(h)
<1>1. Quiet
  BY UnchangedIsQuiet DEF ForceConverge, ToArbitrator
<1>2. /\ ReadStmt("maybe_advance", None) \in Statement
      /\ ReadStmt("maybe_advance", None).op \in Plain
      /\ ReadStmt("arbitrate", None) \in Statement
      /\ ReadStmt("arbitrate", None).op \in Plain
  BY ReadStatements DEF ReadStmt, Plain
<1>3. PICK S \in SUBSET (DOMAIN rounds) :
          \/ CloseAll(h, S, ReadStmt("maybe_advance", None))
          \/ CloseAll(h, S, ReadStmt("arbitrate", None))
  <2>1. RoundsOfType(rounds, "same_host_pair") \subseteq DOMAIN rounds
    BY DEF RoundsOfType
  <2>2. CASE ForceConverge(h)
    <3> DEFINE S == {r \in RoundsOfType(rounds, "same_host_pair") :
                        rounds[r].status \in {"in_progress", "escalated", "pending"}}
    <3>1. S \in SUBSET (DOMAIN rounds) /\ CloseAll(h, S, ReadStmt("maybe_advance", None))
      BY <2>1, <2>2 DEF ForceConverge
    <3> HIDE DEF S
    <3> QED
      BY <3>1
  <2>3. CASE ToArbitrator(h)
    <3> DEFINE S == {r \in RoundsOfType(rounds, "same_host_pair") :
                        rounds[r].status # "converged"}
    <3>1. S \in SUBSET (DOMAIN rounds) /\ CloseAll(h, S, ReadStmt("arbitrate", None))
      BY <2>1, <2>3 DEF ToArbitrator
    <3> HIDE DEF S
    <3> QED
      BY <3>1
  <2> QED
    BY <2>2, <2>3
<1> QED
  BY <1>1, <1>2, <1>3, CloseAllIsSteady

\* What both outcomes of an execution begin with: the open window is closed
\* first, the status looked at again, the report recorded and the round closed.
LEMMA ReportBegins ==
    ASSUME StepsInv, NEW i \in DOMAIN iters, CanExecute(i), NEW output \in Texts,
           NEW assess \in {"converged", "more_work_needed"},
           NEW status \in RoundStatuses \ {"in_progress"}
    PROVE  LET waited == IF iters[i].status = "awaiting_nudge"
                         THEN <<ReleaseStmt(i, FALSE), CheckStmt(i, "awaiting_destination")>>
                         ELSE <<>>
               p == waited \o <<RecordStmt(i, output, assess),
                                SetRoundStmt(iters[i].round, status, output)>>
           IN  /\ Plan(p, rounds, iters, overtaken)
               /\ p # <<>> /\ Starts(p[1])
               /\ p[Len(p)].op = "set_round"
<1> DEFINE a == ReleaseStmt(i, FALSE)
           b == CheckStmt(i, "awaiting_destination")
           c == RecordStmt(i, output, assess)
           d == SetRoundStmt(iters[i].round, status, output)
           waited == IF iters[i].status = "awaiting_nudge" THEN <<a, b>> ELSE <<>>
           p == waited \o <<c, d>>
<1>1. iters[i].round \in DOMAIN rounds
  BY DEF StepsInv, StepsTypeOK, TypeOK
<1>2. iters[i].status \in {"awaiting_nudge", "awaiting_destination"}
  BY DEF CanExecute
<1>3. /\ c \in Statement /\ c.op = "record" /\ c.request = i
      /\ Lasting(c, rounds, iters, overtaken)
      /\ iters[i].status = "awaiting_destination" => Starts(c)
  BY RecordStarts
<1>4. /\ d \in Statement /\ d.op = "set_round"
      /\ Lasting(d, rounds, iters, overtaken) /\ ~Reopens(d)
      /\ \A x : x.op \notin LastReads => Follows(x, d, iters)
  BY <1>1, SetRoundLasts
<1>5. iters[i].status = "awaiting_nudge" =>
          /\ a \in Statement /\ a.op = "release" /\ a.request = i
          /\ Lasting(a, rounds, iters, overtaken) /\ ~Reopens(a) /\ Starts(a)
  <2> SUFFICES ASSUME iters[i].status = "awaiting_nudge"
               PROVE  /\ a \in Statement /\ a.op = "release" /\ a.request = i
                      /\ Lasting(a, rounds, iters, overtaken) /\ ~Reopens(a) /\ Starts(a)
    OBVIOUS
  <2>1. i \in AwaitingNudge /\ FALSE \in BOOLEAN
    BY DEF AwaitingNudge
  <2> QED
    BY <2>1, ReleaseStarts
<1>6. /\ b \in Statement /\ b.op = "check" /\ b.request = i /\ b.status = "awaiting_destination"
      /\ Lasting(b, rounds, iters, overtaken) /\ ~Reopens(b)
      /\ \A x : x.op \notin LastReads => Follows(x, b, iters)
  <2>1. "awaiting_destination" \in IterationStatuses
    BY DEF IterationStatuses
  <2> QED
    BY <2>1, CheckLasts
<1> HIDE DEF a, b, c, d
<1>7. Plan(<<c, d>>, rounds, iters, overtaken)
  BY <1>3, <1>4, TwoPlan DEF LastReads
<1>8. <<c, d>> \in Seq(Statement) /\ <<c, d>> # <<>> /\ Len(<<c, d>>) = 2
      /\ <<c, d>>[1] = c /\ <<c, d>>[2] = d
  BY <1>3, <1>4
<1>9. CASE iters[i].status = "awaiting_nudge"
  <2> DEFINE w == <<a, b>>
  <2>1. waited = w
    BY <1>9
  <2>2. /\ w \in Seq(Statement) /\ w # <<>> /\ Len(w) = 2 /\ w[1] = a /\ w[2] = b
        /\ Plan(w, rounds, iters, overtaken)
    <3>1. Follows(a, b, iters)
      BY <1>5, <1>6, <1>9 DEF LastReads
    <3> QED
      BY <1>5, <1>6, <1>9, <3>1, TwoPlan
  <2>3. Follows(b, c, iters)
    BY <1>3, <1>6 DEF Follows, LastReads
  <2> HIDE DEF w
  <2>4. Joins(w, <<c, d>>, iters)
    <3>1. ~Reopens(c)
      BY <1>3 DEF Reopens
    <3>2. \A k \in 1..Len(<<c, d>>) : ~Reopens(<<c, d>>[k])
      BY <1>4, <1>8, <3>1
    <3> QED
      BY <1>8, <2>2, <2>3, <3>2 DEF Joins
  <2>5. Plan(w \o <<c, d>>, rounds, iters, overtaken)
    BY <1>7, <2>2, <2>4, JoinedPlan
  <2>6. /\ w \o <<c, d>> # <<>> /\ (w \o <<c, d>>)[1] = a
        /\ (w \o <<c, d>>)[Len(w \o <<c, d>>)] = d
    BY <1>8, <2>2, JoinedEnds
  <2>7. p = w \o <<c, d>>
    BY <2>1
  <2> HIDE DEF p
  <2>8. Plan(p, rounds, iters, overtaken) /\ p # <<>> /\ Starts(p[1]) /\ p[Len(p)].op = "set_round"
    BY <1>4, <1>5, <1>9, <2>5, <2>6, <2>7
  <2> QED
    BY <2>8 DEF p, a, b, c, d
<1>10. CASE iters[i].status = "awaiting_destination"
  <2>1. waited = <<>>
    BY <1>10
  <2>2. p = <<c, d>>
    <3>1. <<>> \o <<c, d>> = <<c, d>>
      BY <1>8, ConcatEmptySeq
    <3> QED
      BY <2>1, <3>1
  <2> HIDE DEF p
  <2>3. Plan(p, rounds, iters, overtaken) /\ p # <<>> /\ Starts(p[1]) /\ p[Len(p)].op = "set_round"
    BY <1>3, <1>4, <1>7, <1>8, <1>10, <2>2
  <2> QED
    BY <2>3 DEF p, a, b, c, d
<1> QED
  BY <1>2, <1>9, <1>10

LEMMA ExecutorReportsIsSteady ==
    ASSUME StepsInv, NEW i \in DOMAIN iters, NEW output \in Texts, NEW success \in BOOLEAN,
           ExecutorReports(i, output, success)
    PROVE  Steady(Loop)
<1> DEFINE r == iters[i].round
           waited == IF iters[i].status = "awaiting_nudge"
                     THEN <<ReleaseStmt(i, FALSE), CheckStmt(i, "awaiting_destination")>> ELSE <<>>
           prompt == IF finalized = None THEN <<FinalizeStmt(output)>> ELSE <<>>
           good == waited \o <<RecordStmt(i, output, "converged"),
                               SetRoundStmt(r, "complete", output)>>
           bad == waited \o <<RecordStmt(i, output, "more_work_needed"),
                              SetRoundStmt(r, "escalated", output),
                              SetSessionStmt("escalated")>>
           half == waited \o <<RecordStmt(i, output, "more_work_needed"),
                               SetRoundStmt(r, "escalated", output)>>
           done == SetSessionStmt("complete")
           fail == SetSessionStmt("escalated")
           fin == FinalizeStmt(output)
<1>1. CanExecute(i) /\ Quiet /\ Loop \in Threads
  BY UnchangedIsQuiet DEF ExecutorReports, Threads
<1>2. Begin(Loop, good \o prompt \o <<done>>) \/ Begin(Loop, bad)
  BY DEF ExecutorReports
<1>3. /\ done \in Statement /\ done.op \in Plain /\ fail \in Statement /\ fail.op \in Plain
      /\ fin \in Statement /\ fin.op \in Plain /\ fin.op \notin LastReads
  BY SessionStatements
     DEF SetSessionStmt, FinalizeStmt, SessionStatuses, Plain, LastReads
<1>4. /\ "complete" \in RoundStatuses \ {"in_progress"}
      /\ "escalated" \in RoundStatuses \ {"in_progress"}
  BY DEF RoundStatuses
<1>5. /\ Plan(good, rounds, iters, overtaken) /\ good # <<>> /\ Starts(good[1])
      /\ good[Len(good)].op = "set_round"
  BY <1>1, <1>4, ReportBegins
<1>6. /\ Plan(half, rounds, iters, overtaken) /\ half # <<>> /\ Starts(half[1])
      /\ half[Len(half)].op = "set_round"
  BY <1>1, <1>4, ReportBegins
<1>7. bad = half \o <<fail>>
  <2> DEFINE a == ReleaseStmt(i, FALSE)
             b == CheckStmt(i, "awaiting_destination")
             c == RecordStmt(i, output, "more_work_needed")
             d == SetRoundStmt(r, "escalated", output)
  <2>1. c \in Statement
    BY RecordStarts
  <2>2. d \in Statement
    <3>1. r \in DOMAIN rounds
      BY DEF StepsInv, StepsTypeOK, TypeOK
    <3> QED
      BY <1>4, <3>1, SetRoundLasts
  <2>3. waited \in Seq(Statement)
    <3>1. b \in Statement
      <4>1. "awaiting_destination" \in IterationStatuses
        BY DEF IterationStatuses
      <4> QED
        BY <4>1, CheckLasts
    <3>2. a \in Statement
      <4>1. i \in Nat /\ FALSE \in BOOLEAN
        BY InvTables
      <4> QED
        BY <4>1, RequestStatements
    <3> HIDE DEF a, b
    <3>3. <<a, b>> \in Seq(Statement) /\ <<>> \in Seq(Statement)
      BY <3>1, <3>2
    <3> QED
      BY <3>3 DEF a, b
  <2> HIDE DEF waited, c, d, fail
  <2>4. waited \o <<c, d, fail>> = (waited \o <<c, d>>) \o <<fail>>
    BY <1>3, <2>1, <2>2, <2>3, JoinedTriple
  <2> QED
    BY <2>4 DEF c, d, fail
<1> HIDE DEF good, half, bad, done, fail, fin, waited
<1>8. CASE Begin(Loop, bad)
  <2>1. /\ Plan(half \o <<fail>>, rounds, iters, overtaken)
        /\ (half \o <<fail>>)[1] = half[1]
    BY <1>3, <1>6, PlainBehind DEF LastReads
  <2> QED
    BY <1>1, <1>6, <1>7, <1>8, <2>1, PlanBegins
<1>9. CASE Begin(Loop, good \o prompt \o <<done>>)
  <2> DEFINE p == good \o prompt
  <2>1. good \in Seq(Statement)
    BY <1>5 DEF Plan
  <2>2. /\ Plan(p, rounds, iters, overtaken) /\ p # <<>> /\ p[1] = good[1]
        /\ p[Len(p)].op \notin LastReads
    <3>1. CASE finalized = None
      <4>1. prompt = <<fin>>
        BY <3>1 DEF fin
      <4>2. Plan(good \o <<fin>>, rounds, iters, overtaken)
        BY <1>3, <1>5, PlainBehind DEF LastReads
      <4>3. <<fin>> \in Seq(Statement) /\ <<fin>> # <<>> /\ Len(<<fin>>) = 1 /\ <<fin>>[1] = fin
        BY <1>3
      <4>4. /\ good \o <<fin>> # <<>> /\ (good \o <<fin>>)[1] = good[1]
            /\ (good \o <<fin>>)[Len(good \o <<fin>>)] = fin
        BY <1>5, <2>1, <4>3, JoinedEnds
      <4> QED
        BY <1>3, <4>1, <4>2, <4>4
    <3>2. CASE finalized # None
      <4>1. p = good
        BY <2>1, <3>2
      <4> HIDE DEF p
      <4> QED
        BY <1>5, <4>1 DEF LastReads
    <3> QED
      BY <3>1, <3>2
  <2>3. Begin(Loop, p \o <<done>>)
    BY <1>9
  <2> HIDE DEF p
  <2>4. Plan(p \o <<done>>, rounds, iters, overtaken) /\ (p \o <<done>>)[1] = p[1]
    BY <1>3, <2>2, PlainBehind
  <2> QED
    BY <1>1, <1>5, <2>2, <2>3, <2>4, PlanBegins
<1> QED
  BY <1>2, <1>8, <1>9

\* Statements after which a round may be reopened.
Asking(p) ==
    /\ p \in Seq(Statement) /\ p # <<>>
    /\ \A k \in 1..Len(p) : p[k].op \in {"number", "check", "release"}

\* The request of a retry, handed on at once when the operator says so.
LEMMA AskingPlan ==
    ASSUME StepsInv, NEW n \in Statement, n.op = "number",
           Lasting(n, rounds, iters, overtaken),
           NEW nudge, \/ nudge = <<>>
                      \/ nudge = <<CheckStmt(New, "awaiting_nudge"), ReleaseStmt(New, TRUE)>>
    PROVE  /\ Plan(<<n>> \o nudge, rounds, iters, overtaken)
           /\ Asking(<<n>> \o nudge)
           /\ (<<n>> \o nudge)[1] = n
<1> DEFINE a == CheckStmt(New, "awaiting_nudge")
           b == ReleaseStmt(New, TRUE)
           u == <<n>>
<1>1. /\ a \in Statement /\ a.op = "check" /\ a.request = New /\ a.status = "awaiting_nudge"
      /\ b \in Statement /\ b.op = "release" /\ b.request = New
  <2>1. New \in Nat /\ "awaiting_nudge" \in IterationStatuses /\ TRUE \in BOOLEAN
    BY DEF New, IterationStatuses
  <2> QED
    BY <2>1, RequestStatements DEF CheckStmt, ReleaseStmt
<1>2. u \in Seq(Statement) /\ Len(u) = 1 /\ u[1] = n /\ u # <<>>
      /\ Plan(u, rounds, iters, overtaken)
  BY OnePlan
<1>3. CASE nudge = <<>>
  <2>1. u \o nudge = u
    BY <1>2, <1>3
  <2>2. Asking(u)
    BY <1>2 DEF Asking
  <2> HIDE DEF u
  <2>3. Plan(u \o nudge, rounds, iters, overtaken) /\ Asking(u \o nudge) /\ (u \o nudge)[1] = n
    BY <1>2, <2>1, <2>2
  <2> QED
    BY <2>3 DEF u
<1>4. CASE nudge = <<a, b>>
  <2> HIDE DEF a, b
  <2>1. /\ Lasting(a, rounds, iters, overtaken) /\ Lasting(b, rounds, iters, overtaken)
        /\ ~Reopens(a) /\ ~Reopens(b)
    BY <1>1 DEF Lasting, RoundStmts, RequestStmts, Reopens
  <2>2. Follows(a, b, iters) /\ Follows(n, a, iters)
    BY <1>1 DEF Follows, LastReads
  <2> DEFINE v == <<a, b>>
  <2>3. /\ v \in Seq(Statement) /\ Len(v) = 2 /\ v[1] = a /\ v[2] = b /\ v # <<>>
        /\ Plan(v, rounds, iters, overtaken)
    BY <1>1, <2>1, <2>2, TwoPlan
  <2>4. nudge = v
    BY <1>4
  <2> HIDE DEF u, v
  <2>5. Joins(u, v, iters)
    BY <1>2, <2>1, <2>2, <2>3 DEF Joins
  <2>6. Plan(u \o v, rounds, iters, overtaken)
    BY <1>2, <2>3, <2>5, JoinedPlan
  <2>7. u \o v # <<>> /\ (u \o v)[1] = n
    BY <1>2, <2>3, JoinedEnds
  <2>8. Asking(u \o v)
    <3> DEFINE c == u \o v
    <3>3. /\ c \in Seq(Statement) /\ Len(c) = Len(u) + Len(v)
          /\ \A k \in 1..(Len(u) + Len(v)) :
                 c[k] = IF k <= Len(u) THEN u[k] ELSE v[k - Len(u)]
      BY <1>2, <2>3, ConcatProperties
    <3> HIDE DEF c
    <3>4. /\ c \in Seq(Statement) /\ Len(c) = 3
          /\ \A k \in 1..3 : c[k] = IF k <= 1 THEN u[k] ELSE v[k - 1]
      BY <1>2, <2>3, <3>3
    <3>1. /\ u \o v \in Seq(Statement) /\ Len(u \o v) = 3
          /\ \A k \in 1..3 : (u \o v)[k] = IF k <= 1 THEN u[k] ELSE v[k - 1]
      BY <3>4 DEF c
    <3>2. \A k \in 1..3 : (u \o v)[k] \in {n, a, b}
      <4> SUFFICES ASSUME NEW k \in 1..3
                   PROVE  (u \o v)[k] \in {n, a, b}
        OBVIOUS
      <4>1. k = 1 \/ k = 2 \/ k = 3
        OBVIOUS
      <4> QED
        BY <1>2, <2>3, <3>1, <4>1
    <3> QED
      BY <1>1, <2>7, <3>1, <3>2 DEF Asking
  <2> QED
    BY <2>4, <2>6, <2>7, <2>8 DEF u
<1> QED
  BY <1>3, <1>4

LEMMA RetryRequestIsSteady ==
    ASSUME StepsInv, NEW h \in Threads, NEW i \in DOMAIN iters, NEW submit \in BOOLEAN,
           RetryRequest(h, i, submit)
    PROVE  Steady(h)
<1> DEFINE it == iters[i]
           r == it.round
           nudge == IF submit
                    THEN <<CheckStmt(New, "awaiting_nudge"), ReleaseStmt(New, TRUE)>> ELSE <<>>
           sr == SetRoundStmt(r, "in_progress", None)
           reopen == IF rounds[r].status \in {"escalated", "pending"} THEN <<sr>> ELSE <<>>
           ss == SetSessionStmt("round_1")
           resume == IF session = "escalated" THEN <<ss>> ELSE <<>>
           dst == IF it.src = None THEN it.dst ELSE it.src
           input == IF it.output = None THEN it.input ELSE Draft(it.output)
           n == NumberStmt(r, it.dst, dst, input)
           p == <<n>> \o nudge
           q == p \o reopen
<1>1. Quiet /\ Begin(h, q \o resume)
  BY UnchangedIsQuiet DEF RetryRequest, Ask
<1>2. r \in DOMAIN rounds /\ r \in Nat /\ r # New
  <2>1. r \in DOMAIN rounds
    BY DEF StepsInv, StepsTypeOK, TypeOK
  <2> QED
    BY <2>1, InvTables DEF New
<1>3. it.dst \in Agents /\ dst \in Agents /\ input \in Inputs
  <2>1. it \in Iteration
    BY InvTables
  <2>2. /\ it.dst \in Agents /\ it.src \in Agents \cup {None}
        /\ it.input \in Inputs /\ it.output \in Texts \cup {None}
    BY <2>1 DEF Iteration
  <2>3. it.output # None => Draft(it.output) \in Inputs
    BY <2>2 DEF Inputs
  <2> QED
    BY <2>2, <2>3
<1> HIDE DEF it, r, dst, input
<1>4. n \in Statement /\ n.op = "number" /\ n.round = r
  BY <1>2, <1>3, NumberIsStatement DEF NumberStmt
<1>5. ss \in Statement /\ ss.op \in Plain
  BY SessionStatements DEF SetSessionStmt, SessionStatuses, Plain
<1>6. /\ sr \in Statement /\ sr.op = "set_round" /\ sr.round = r /\ sr.status = "in_progress"
  <2>1. "in_progress" \in RoundStatuses
    BY DEF RoundStatuses
  <2> QED
    BY <1>2, <2>1, SetRoundIsStatement DEF SetRoundStmt
<1> HIDE DEF n, ss, sr
<1>7. Lasting(n, rounds, iters, overtaken) /\ Starts(n)
  BY <1>2, <1>4 DEF Lasting, RoundStmts, RequestStmts, Reopens, Starts
<1>8. Plan(p, rounds, iters, overtaken) /\ Asking(p) /\ p[1] = n
  BY <1>4, <1>7, AskingPlan
<1>9. /\ p \in Seq(Statement) /\ p # <<>> /\ Len(p) \in Nat \ {0}
      /\ \A k \in 1..Len(p) : p[k].op \in {"number", "check", "release"}
  <2> HIDE DEF p
  <2> QED
    BY <1>8 DEF Asking
<1> HIDE DEF p
<1>10. /\ Plan(q, rounds, iters, overtaken) /\ q \in Seq(Statement) /\ q # <<>> /\ q[1] = n
       /\ q[Len(q)].op \notin LastReads
  <2>1. CASE reopen = <<>>
    <3>1. q = p
      BY <1>9, <2>1
    <3>2. p[Len(p)].op \notin LastReads
      BY <1>9 DEF LastReads
    <3> HIDE DEF q
    <3> QED
      BY <1>8, <1>9, <3>1, <3>2
  <2>2. CASE rounds[r].status \in {"escalated", "pending"}
    <3>1. Lasting(sr, rounds, iters, overtaken)
      BY <1>2, <1>6, <2>2 DEF Lasting, RoundStmts, RequestStmts, Reopens
    <3>2. Follows(p[Len(p)], sr, iters)
      <4>1. p[Len(p)].op \in {"number", "check", "release"}
        BY <1>9
      <4> QED
        BY <1>2, <1>6, <4>1 DEF Follows, LastReads
    <3>3. Plan(p \o <<sr>>, rounds, iters, overtaken)
      BY <1>6, <1>8, <1>9, <3>1, <3>2, AppendedPlan
    <3>4. <<sr>> \in Seq(Statement) /\ <<sr>> # <<>> /\ Len(<<sr>>) = 1 /\ <<sr>>[1] = sr
      BY <1>6
    <3>5. /\ p \o <<sr>> # <<>> /\ (p \o <<sr>>)[1] = p[1]
          /\ (p \o <<sr>>)[Len(p \o <<sr>>)] = sr
      BY <1>9, <3>4, JoinedEnds
    <3>6. q = p \o <<sr>>
      BY <2>2
    <3>7. sr.op \notin LastReads
      BY <1>6 DEF LastReads
    <3> HIDE DEF q
    <3>8. q \in Seq(Statement)
      BY <3>3, <3>6 DEF Plan
    <3> QED
      BY <1>8, <3>3, <3>5, <3>6, <3>7, <3>8
  <2> QED
    BY <2>1, <2>2
<1> HIDE DEF q
<1>11. CASE resume = <<>>
  <2>1. q \o resume = q
    BY <1>10, <1>11
  <2> QED
    BY <1>1, <1>7, <1>10, <2>1, PlanBegins
<1>12. CASE resume = <<ss>>
  <2>1. Plan(q \o <<ss>>, rounds, iters, overtaken) /\ (q \o <<ss>>)[1] = n
    BY <1>5, <1>10, PlainBehind
  <2>2. q \o resume = q \o <<ss>>
    BY <1>12
  <2> QED
    BY <1>1, <1>7, <2>1, <2>2, PlanBegins
<1> QED
  BY <1>11, <1>12

-----------------------------------------------------------------------------
(***************************************************************************)
(* Every step keeps the invariant.                                         *)
(***************************************************************************)
LEMMA FitsLater ==
    ASSUME NEW rs, NEW t, Tables(rs, t), NEW w, NEW sk, NEW over, NEW over2,
           over \subseteq over2, Fits(w, rs, t, sk, over)
    PROVE  Fits(w, rs, t, sk, over2)
<1>1. LeavesAlone(w.todo, rs, rs, over2)
  BY DEF LeavesAlone
<1>2. Plan(w.todo, rs, t, over2)
  BY <1>1, GrownReflexive, PlanStays DEF Fits
<1>3. w.todo # <<>> => Ready(w, rs, t, sk, over2)
  BY DEF Fits, Ready
<1> QED
  BY <1>2, <1>3 DEF Fits

\* The rows that threads hold after a step.
LEMMA HeldAreRows ==
    ASSUME work' \in [Threads -> Handlers]
    PROVE  Contested' \subseteq ({"request", "numbers", "status", "skipped", "rounds"} \X Nat)
<1> DEFINE Rows == {"request", "numbers", "status", "skipped", "rounds"} \X Nat
<1>1. ASSUME NEW h \in Busy'
      PROVE  HeldBy(h)' \subseteq Rows
  <2>1. /\ h \in Threads /\ work'[h].todo \in Seq(Statement) /\ work'[h].todo # <<>>
        /\ work'[h].made \in Nat /\ work'[h].asked \in Nat
    BY <1>1 DEF Busy, Handlers
  <2>2. Current(h)' \in Statement
    BY <2>1 DEF Current
  <2>3. Current(h)'.op \in RoundStmts => RoundOf(h)' \in Nat
    BY <2>1, <2>2, RoundFields DEF RoundOf
  <2>4. Current(h)'.op \in RequestStmts => RequestOf(h)' \in Nat
    BY <2>1, <2>2, RequestFields DEF RequestOf
  <2>5. WritesNext(h)' \subseteq Rows
    <3>1. /\ At(h, "release")' \/ At(h, "record")' => RequestOf(h)' \in Nat
          /\ At(h, "insert")' \/ At(h, "set_round")' => RoundOf(h)' \in Nat
      BY <2>3, <2>4 DEF At, RoundStmts, RequestStmts
    <3>3. New \in Nat
      BY DEF New
    <3> QED
      BY <3>1, <3>3 DEF WritesNext
  <2>6. WritesLater(h)' \subseteq Rows
    <3>1. \A s \in Elements(work'[h].todo) : s \in Statement
      BY <2>1 DEF Elements
    <3>2. \A s \in Statement : /\ s.op = "set_round" => s.round \in Nat
                               /\ s.op = "close" => s.about \in Nat
      BY RoundFields, ReadFields DEF RoundStmts
    <3> QED
      BY <3>1, <3>2 DEF WritesLater
  <2>7. ListsRounds(h)' \subseteq Rows
    BY DEF ListsRounds, New
  <2> QED
    BY <2>5, <2>6, <2>7 DEF HeldBy
<1>2. \A row \in Contested' : \E h \in Busy' : row \in HeldBy(h)'
  BY DEF Contested
<1> QED
  BY <1>1, <1>2

LEMMA SteadyInv ==
    ASSUME StepsInv, NEW h \in Threads, Steady(h), overtaken' = overtaken \cup Contested',
           overrides' \in Nat, nudges' \in Nat, crashes' \in Nat
    PROVE  StepsInv' /\ Stands(overtaken')
<1>1. /\ KeepsToItsRows(h) /\ OtherColumns /\ NudgedOnce(iters')
      /\ work' = [work EXCEPT ![h] = work'[h]]
      /\ Fits(work'[h], rounds', iters', skipped', overtaken)
      /\ Numbered(iters', overtaken) /\ Stands(overtaken)
  BY DEF Steady
<1>2. overtaken \subseteq overtaken' /\ Contested' \subseteq overtaken'
  OBVIOUS
<1>3. Tables(rounds', iters')
  BY <1>1 DEF KeepsToItsRows, Grown
<1>4. ASSUME NEW g \in Threads
      PROVE  Fits(work'[g], rounds', iters', skipped', overtaken')
  <2>1. CASE g = h
    BY <1>1, <1>2, <1>3, <2>1, FitsLater
  <2>2. CASE g # h
    <3>1. work'[g] = work[g]
      BY <1>1, <2>2, InvTables
    <3> QED
      BY <1>1, <1>2, <2>2, <3>1, OthersFit
  <2> QED
    BY <2>1, <2>2
<1>5. work' \in [Threads -> Handlers]
  <2>1. work \in [Threads -> Handlers]
    BY InvTables DEF Handlers
  <2>2. work'[h] \in Handlers
    BY <1>1 DEF Fits, Handlers
  <2> QED
    BY <1>1, <2>1, <2>2
<1>6. \A g \in Threads : work'[g].made <= Len(rounds') /\ work'[g].asked <= Len(iters')
  BY <1>4 DEF Fits
<1>7. overtaken' \subseteq ({"request", "numbers", "status", "skipped", "rounds"} \X Nat)
  BY <1>5, HeldAreRows, InvTables
<1>8. TypeOK'
  BY <1>1, <1>3 DEF OtherColumns, Tables, TypeOK
<1>9. StepsTypeOK'
  BY <1>5, <1>6, <1>7, <1>8 DEF StepsTypeOK, Handlers
<1>10. Manned(rounds')
  BY <1>3 DEF Tables
<1>11. Numbered(iters', overtaken')
  BY <1>1, <1>2 DEF Numbered
<1>12. Stands(overtaken')
  BY <1>1, <1>2 DEF Stands
<1>13. StepsInv'
  BY <1>1, <1>2, <1>4, <1>9, <1>10, <1>11 DEF StepsInv
<1> QED
  BY <1>12, <1>13

LEMMA HandleIsSteady ==
    ASSUME StepsInv, Handle
    PROVE  /\ \E h \in Threads : Steady(h)
           /\ overrides' \in Nat /\ nudges' \in Nat /\ crashes' \in Nat
<1>1. overrides \in Nat /\ nudges \in Nat /\ crashes \in Nat
  BY DEF StepsInv, StepsTypeOK, TypeOK
<1>2. \A kind \in OperatorActions : Cost[kind] \in Nat
  BY ThreadAssumption, EnvironmentAssumption
<1>3. Cost["nudge"] \in Nat
  BY ThreadAssumption DEF OperatorActionKinds
<1>4. Desk \subseteq Threads /\ Loop \in Threads
  BY DEF Threads
<1>5. CASE /\ \/ Write \/ Read
              \/ Loop \notin Busy /\ (AgentCall \/ Sweep)
              \/ \E h \in Desk \ Busy : CreateSession(h)
           /\ UNCHANGED <<overrides, nudges, crashes>>
  <2>1. CASE Write \/ Read
    BY <1>1, <1>5, <2>1, WriteIsSteady, ReadIsSteady
  <2>2. CASE AgentCall
    <3>1. Steady(Loop)
      BY <2>2, DestinationRespondsIsSteady, ReviewerDecidesIsSteady, ExecutorReportsIsSteady
         DEF AgentCall
    <3> QED
      BY <1>1, <1>4, <1>5, <3>1
  <2>3. CASE Sweep
    BY <1>1, <1>4, <1>5, <2>3, SweepIsSteady
  <2>4. CASE \E h \in Desk \ Busy : CreateSession(h)
    BY <1>1, <1>4, <1>5, <2>4, CreateSessionIsSteady
  <2> QED
    BY <1>5, <2>1, <2>2, <2>3, <2>4
<1>6. CASE /\ nudges' = nudges + Cost["nudge"]
           /\ \E h \in Desk \ Busy, i \in DOMAIN iters, submit \in BOOLEAN :
                  NudgeOrSkip(h, i, submit)
           /\ UNCHANGED <<overrides, crashes>>
  <2>1. \E h \in Threads : Steady(h)
    BY <1>4, <1>6, NudgeOrSkipIsSteady
  <2>2. nudges' \in Nat
    BY <1>1, <1>3, <1>6
  <2> QED
    BY <1>1, <1>6, <2>1, <2>2
<1>7. CASE /\ \E h \in Desk \ Busy : Override(h)
           /\ UNCHANGED <<nudges, crashes>>
  <2>1. PICK h \in Threads : Override(h)
    BY <1>4, <1>7
  <2>2. Steady(h)
    BY <2>1, AbortSessionIsSteady, ResolveByAbortIsSteady, ClosingIsSteady,
       RetryRequestIsSteady, SkipReviewerIsSteady DEF Override
  <2>3. \E kind : Overrides(kind)
    BY <2>1 DEF Override, AbortSession, ResolveByAbort, ForceConverge, ToArbitrator,
                RetryRequest, SkipReviewer
  <2>4. overrides' \in Nat
    BY <1>1, <1>2, <2>3 DEF Overrides
  <2> QED
    BY <1>1, <1>7, <2>2, <2>4
<1> QED
  BY <1>5, <1>6, <1>7 DEF Handle

LEMMA CrashKeeps ==
    ASSUME StepsInv, Crash, overtaken' = overtaken \cup Contested'
    PROVE  StepsInv' /\ Stands(overtaken')
<1>1. /\ work' = [h \in Threads |-> Idle] /\ crashes' = crashes + 1
      /\ UNCHANGED <<session, rounds, iters, reviews, skipped, finalized, overrides, nudges>>
  BY DEF Crash, tables
<1>2. /\ Idle \in Handlers /\ Idle.todo = <<>> /\ Idle.made = 0 /\ Idle.asked = 0
  BY DEF Idle, Handlers, New
<1>3. work' \in [Threads -> Handlers] /\ \A h \in Threads : work'[h] = Idle
  BY <1>1, <1>2
<1>4. overtaken' \subseteq ({"request", "numbers", "status", "skipped", "rounds"} \X Nat)
  BY <1>3, HeldAreRows, InvTables
<1>5. \A h \in Threads : Fits(work'[h], rounds', iters', skipped', overtaken')
  <2>1. rounds' \in Seq(Round) /\ iters' \in Seq(Iteration)
    BY <1>1, InvTables
  <2> QED
    BY <1>3, <2>1, IdleFits
<1>6. \A h \in Threads : work'[h].made <= Len(rounds') /\ work'[h].asked <= Len(iters')
  BY <1>5 DEF Fits
<1>7. TypeOK'
  BY <1>1 DEF TypeOK, StepsInv, StepsTypeOK
<1>8. StepsTypeOK'
  <2>1. nudges' \in Nat /\ crashes' \in Nat
    BY <1>1 DEF StepsInv, StepsTypeOK
  <2> QED
    BY <1>3, <1>4, <1>6, <1>7, <2>1 DEF StepsTypeOK, Handlers
<1>9. Manned(rounds') /\ NudgedOnce(iters')
  BY <1>1 DEF StepsInv
<1>10. Numbered(iters', overtaken')
  <2>1. overtaken \subseteq overtaken'
    OBVIOUS
  <2> QED
    BY <1>1, <2>1 DEF Numbered, StepsInv
<1>11. Contested' \subseteq overtaken'
  OBVIOUS
<1>12. Stands(overtaken')
  BY <1>1 DEF Stands
<1>13. StepsInv'
  BY <1>5, <1>8, <1>9, <1>10, <1>11 DEF StepsInv
<1> QED
  BY <1>12, <1>13

LEMMA StepsNextKeeps ==
    ASSUME StepsInv, StepsNext
    PROVE  StepsInv' /\ Stands(overtaken')
<1>1. overtaken' = overtaken \cup Contested' /\ (Handle \/ Crash)
  BY DEF StepsNext
<1>2. CASE Handle
  BY <1>1, <1>2, HandleIsSteady, SteadyInv
<1>3. CASE Crash
  BY <1>1, <1>3, CrashKeeps
<1> QED
  BY <1>1, <1>2, <1>3

LEMMA StepsStutter ==
    ASSUME StepsInv, UNCHANGED stepVars
    PROVE  StepsInv'
<1>1. /\ UNCHANGED <<session, rounds, iters, reviews, skipped, finalized, overrides>>
      /\ UNCHANGED <<work, overtaken, nudges, crashes>>
  BY DEF stepVars, vars
<1>2. Contested' = Contested
  <2>1. \A h \in Threads : /\ WritesNext(h)' = WritesNext(h) /\ WritesLater(h)' = WritesLater(h)
                           /\ ListsRounds(h)' = ListsRounds(h)
    BY <1>1 DEF WritesNext, WritesLater, ListsRounds, At, Current, RoundOf, RequestOf
  <2>2. Busy' = Busy /\ \A h \in Busy : h \in Threads
    BY <1>1 DEF Busy
  <2>3. \A h \in Busy : HeldBy(h)' = HeldBy(h)
    BY <2>1, <2>2 DEF HeldBy
  <2> QED
    BY <2>2, <2>3 DEF Contested
<1>3. StepsTypeOK'
  BY <1>1 DEF StepsInv, StepsTypeOK, TypeOK
<1> QED
  BY <1>1, <1>2, <1>3 DEF StepsInv

LEMMA StepsInitInv == StepsInit => StepsInv
<1> SUFFICES ASSUME StepsInit
             PROVE  StepsInv
  OBVIOUS
<1>1. /\ rounds = <<>> /\ iters = <<>> /\ reviews = {} /\ skipped = {} /\ overtaken = {}
      /\ session = "none" /\ finalized = None /\ overrides = 0
      /\ nudges = 0 /\ crashes = 0 /\ work = [h \in Threads |-> Idle]
  BY DEF StepsInit, Init
<1>2. Idle \in Handlers /\ Idle.todo = <<>> /\ Idle.made = 0 /\ Idle.asked = 0
  BY DEF Idle, Handlers, New
<1>3. \A h \in Threads : Fits(work[h], rounds, iters, skipped, overtaken)
  <2>1. rounds \in Seq(Round) /\ iters \in Seq(Iteration)
    BY <1>1
  <2> QED
    BY <1>1, <2>1, IdleFits
<1>4. \A h \in Threads : work[h].made <= Len(rounds) /\ work[h].asked <= Len(iters)
  BY <1>3 DEF Fits
<1>5. TypeOK
  BY <1>1 DEF TypeOK, SessionStatuses
<1>6. StepsTypeOK
  <2>1. work \in [Threads -> Handlers]
    BY <1>1, <1>2
  <2> QED
    BY <1>1, <1>4, <1>5, <2>1 DEF StepsTypeOK, Handlers
<1>7. Contested = {}
  <2>1. Busy = {}
    BY <1>1, <1>2 DEF Busy
  <2> QED
    BY <2>1 DEF Contested
<1>8. Manned(rounds) /\ NudgedOnce(iters) /\ Numbered(iters, overtaken)
  BY <1>1 DEF Manned, NudgedOnce, Numbered
<1> QED
  BY <1>1, <1>3, <1>6, <1>7, <1>8 DEF StepsInv

LEMMA StepsSpecInv == StepsSpec => []StepsInv
<1>1. StepsInv /\ [StepsNext]_stepVars => StepsInv'
  BY StepsNextKeeps, StepsStutter
<1> QED
  BY <1>1, StepsInitInv, PTL DEF StepsSpec

-----------------------------------------------------------------------------
(***************************************************************************)
(* What the session status announces.  It is written last; until then it   *)
(* is a promise.  A statement may rely on a claim about the tables: the    *)
(* claim holds, or an earlier statement of the list is going to make it    *)
(* true.                                                                   *)
(***************************************************************************)
Places == Hosts \cup {None}
Kind(x) == <<x.type, x.host>>

\* A first request was made; there is a final prompt; a request was made in a
\* round of one of these kinds.
Begun == [what |-> "begun", kinds |-> {}]
Concluded == [what |-> "concluded", kinds |-> {}]
Asked(K) == [what |-> "asked", kinds |-> K]

PairKinds == {"same_host_pair"} \X Places
Stage(type) == Asked({type} \X Places)
PairOn(host) == Asked({<<"same_host_pair", host>>})
Claims ==
    {Begun, Concluded} \cup {Stage(type) : type \in RoundTypes} \cup {PairOn(host) : host \in Hosts}

Asks(K, rs, t) == \E i \in DOMAIN t : Kind(rs[t[i].round]) \in K

Holds(c, rs, t, fin) ==
    /\ c.what = "begun" => t # <<>>
    /\ c.what = "concluded" => fin # None
    /\ c.what = "asked" => Asks(c.kinds, rs, t)

\* The round that statement j of a handler calls New is of a kind in K.
Concerns(w, j, K, rs) ==
    \/ \E i \in 1..(j - 1) :
           /\ w.todo[i].op = "open_round" /\ Kind(w.todo[i]) \in K
           /\ \A m \in (i + 1)..(j - 1) : w.todo[m].op # "open_round"
    \/ /\ \A m \in 1..(j - 1) : w.todo[m].op # "open_round"
       /\ w.made \in DOMAIN rs /\ Kind(rs[w.made]) \in K

\* Statement j of a handler is going to make the claim true.
Makes(c, w, j, rs) ==
    /\ c.what = "begun" => w.todo[j].op = "close"
    /\ c.what = "concluded" => w.todo[j].op = "finalize"
    /\ c.what = "asked" =>
           /\ w.todo[j].op \in {"number", "insert"} /\ w.todo[j].round = New
           /\ Concerns(w, j, c.kinds, rs)

\* What is read after the first request of a session.
AfterRequests ==
    {"advance", "maybe_advance", "reconcile", "arbitrate", "ask_reviewers", "tally", "weigh",
     "mediate", "execute"}

\* The stages after the pairs rely on requests that were made, and the session
\* status on what it announces.
ReliesOn(s, c, interfered) ==
    \/ /\ c = Begun
       /\ \/ s.op \in AfterRequests
          \/ s.op = "open_round" /\ s.type # "same_host_pair"
          \/ s.op = "set_session" /\ s.status = "escalated"
    \/ c = Concluded /\ s.op = "set_session" /\ s.status = "complete"
    \/ /\ s.op = "set_session" /\ s.status \in DOMAIN Announced
       /\ c = Stage(Announced[s.status])
    \/ /\ s.op = "set_session" /\ s.status = "round_1" /\ ~interfered
       /\ \E host \in Hosts : c = PairOn(host)

KeepsPromises(w, rs, t, fin, interfered) ==
    \A k \in 1..Len(w.todo) : \A c \in Claims :
        ReliesOn(w.todo[k], c, interfered) =>
            Holds(c, rs, t, fin) \/ \E j \in 1..(k - 1) : Makes(c, w, j, rs)

\* What a statement relies on is there already.
Founded(s, rs, t, fin, interfered) ==
    \A c \in Claims : ReliesOn(s, c, interfered) => Holds(c, rs, t, fin)

\* Requests start with the pairs.
PairsFirst(rs, t) ==
    /\ t # <<>> => Asks(PairKinds, rs, t)
    /\ \A r \in DOMAIN rs : rs[r].type # "same_host_pair" => t # <<>>

StatusInv ==
    /\ Founded(SetSessionStmt(session), rounds, iters, finalized, overrides # 0)
    /\ PairsFirst(rounds, iters)
    /\ \A h \in Threads : KeepsPromises(work[h], rounds, iters, finalized, overrides # 0)

-----------------------------------------------------------------------------
\* What the claims say, and what makes them true.
LEMMA ClaimsSay ==
    ASSUME NEW rs, NEW t, NEW fin
    PROVE  /\ Holds(Begun, rs, t, fin) <=> t # <<>>
           /\ Holds(Concluded, rs, t, fin) <=> fin # None
           /\ \A K : Holds(Asked(K), rs, t, fin) <=> Asks(K, rs, t)
BY DEF Holds, Begun, Concluded, Asked

LEMMA ClaimsAreMade ==
    ASSUME NEW w, NEW j, NEW rs
    PROVE  /\ Makes(Begun, w, j, rs) <=> w.todo[j].op = "close"
           /\ Makes(Concluded, w, j, rs) <=> w.todo[j].op = "finalize"
           /\ \A K : Makes(Asked(K), w, j, rs) <=>
                  /\ w.todo[j].op \in {"number", "insert"} /\ w.todo[j].round = New
                  /\ Concerns(w, j, K, rs)
BY DEF Makes, Begun, Concluded, Asked

LEMMA ClaimIsOneOf ==
    ASSUME NEW c \in Claims
    PROVE  \/ c = Begun
           \/ c = Concluded
           \/ \E K : c = Asked(K)
BY DEF Claims, Stage, PairOn

\* The tables change, and no claim ceases to hold.
Remembers(rs, t, fin, rs2, t2, fin2) ==
    /\ \A r \in DOMAIN rs : r \in DOMAIN rs2 /\ Kind(rs2[r]) = Kind(rs[r])
    /\ \A i \in DOMAIN t :
           i \in DOMAIN t2 /\ t2[i].round = t[i].round /\ t[i].round \in DOMAIN rs
    /\ t # <<>> => t2 # <<>>
    /\ fin # None => fin2 # None

LEMMA AsksStays ==
    ASSUME NEW rs, NEW t, NEW fin, NEW rs2, NEW t2, NEW fin2,
           Remembers(rs, t, fin, rs2, t2, fin2), NEW K, Asks(K, rs, t)
    PROVE  Asks(K, rs2, t2)
<1>1. PICK i \in DOMAIN t : Kind(rs[t[i].round]) \in K
  BY DEF Asks
<1>2. i \in DOMAIN t2 /\ Kind(rs2[t2[i].round]) \in K
  BY <1>1 DEF Remembers
<1> QED
  BY <1>2 DEF Asks

LEMMA HoldsStays ==
    ASSUME NEW rs, NEW t, NEW fin, NEW rs2, NEW t2, NEW fin2,
           Remembers(rs, t, fin, rs2, t2, fin2), NEW c, Holds(c, rs, t, fin)
    PROVE  Holds(c, rs2, t2, fin2)
<1>1. /\ c.what = "begun" => t2 # <<>>
      /\ c.what = "concluded" => fin2 # None
  BY DEF Holds, Remembers
<1>2. c.what = "asked" => Asks(c.kinds, rs2, t2)
  BY AsksStays DEF Holds
<1> QED
  BY <1>1, <1>2 DEF Holds

LEMMA ConcernsStays ==
    ASSUME NEW rs, NEW t, NEW fin, NEW rs2, NEW t2, NEW fin2,
           Remembers(rs, t, fin, rs2, t2, fin2), NEW w, NEW j, NEW K, Concerns(w, j, K, rs)
    PROVE  Concerns(w, j, K, rs2)
<1>1. CASE \E i \in 1..(j - 1) :
               /\ w.todo[i].op = "open_round" /\ Kind(w.todo[i]) \in K
               /\ \A m \in (i + 1)..(j - 1) : w.todo[m].op # "open_round"
  BY <1>1 DEF Concerns
<1>2. CASE /\ \A m \in 1..(j - 1) : w.todo[m].op # "open_round"
           /\ w.made \in DOMAIN rs /\ Kind(rs[w.made]) \in K
  <2>1. w.made \in DOMAIN rs2 /\ Kind(rs2[w.made]) \in K
    BY <1>2 DEF Remembers
  <2> QED
    BY <1>2, <2>1 DEF Concerns
<1> QED
  BY <1>1, <1>2 DEF Concerns

LEMMA MakesStays ==
    ASSUME NEW rs, NEW t, NEW fin, NEW rs2, NEW t2, NEW fin2,
           Remembers(rs, t, fin, rs2, t2, fin2), NEW c, NEW w, NEW j, Makes(c, w, j, rs)
    PROVE  Makes(c, w, j, rs2)
BY ConcernsStays DEF Makes

LEMMA ReliesOnLess ==
    ASSUME NEW s, NEW c, NEW b, NEW b2, b => b2, ReliesOn(s, c, b2)
    PROVE  ReliesOn(s, c, b)
BY Zenon DEF ReliesOn

\* A thread that is not moved keeps its promises.
LEMMA OthersKeepPromises ==
    ASSUME NEW rs, NEW t, NEW fin, NEW rs2, NEW t2, NEW fin2, NEW b, NEW b2,
           Remembers(rs, t, fin, rs2, t2, fin2), b => b2,
           NEW w, KeepsPromises(w, rs, t, fin, b)
    PROVE  KeepsPromises(w, rs2, t2, fin2, b2)
<1> SUFFICES ASSUME NEW k \in 1..Len(w.todo), NEW c \in Claims, ReliesOn(w.todo[k], c, b2)
             PROVE  Holds(c, rs2, t2, fin2) \/ \E j \in 1..(k - 1) : Makes(c, w, j, rs2)
  BY DEF KeepsPromises
<1>1. ReliesOn(w.todo[k], c, b)
  BY ReliesOnLess
<1>2. CASE Holds(c, rs, t, fin)
  BY <1>2, HoldsStays
<1>3. CASE \E j \in 1..(k - 1) : Makes(c, w, j, rs)
  BY <1>3, MakesStays
<1> QED
  BY <1>1, <1>2, <1>3 DEF KeepsPromises

\* The head of the list is done: what it was going to make true is true.
LEMMA ConcernsNext ==
    ASSUME NEW w, NEW w2, NEW rs, NEW rs2, NEW j \in Nat, 1 < j,
           w.todo \in Seq(Statement), w2.todo = Tail(w.todo), j <= Len(w.todo),
           \A r \in DOMAIN rs : r \in DOMAIN rs2 /\ Kind(rs2[r]) = Kind(rs[r]),
           w.todo[1].op # "open_round" => w2.made = w.made,
           w.todo[1].op = "open_round" =>
               w2.made \in DOMAIN rs2 /\ Kind(rs2[w2.made]) = Kind(w.todo[1]),
           NEW K, Concerns(w, j, K, rs)
    PROVE  Concerns(w2, j - 1, K, rs2)
<1>1. /\ Len(w.todo) \in Nat \ {0} /\ Len(w2.todo) = Len(w.todo) - 1
      /\ \A m \in 1..Len(w2.todo) : w2.todo[m] = w.todo[m + 1]
  OBVIOUS
<1>2. ASSUME NEW a \in Nat, \A m \in (a + 1)..(j - 1) : w.todo[m].op # "open_round"
      PROVE  \A m \in a..((j - 1) - 1) : m # 0 => w2.todo[m].op # "open_round"
  <2> SUFFICES ASSUME NEW m \in a..((j - 1) - 1), m # 0
               PROVE  w2.todo[m].op # "open_round"
    OBVIOUS
  <2>1. m \in 1..Len(w2.todo) /\ m + 1 \in (a + 1)..(j - 1)
    BY <1>1
  <2>2. w2.todo[m] = w.todo[m + 1]
    BY <1>1, <2>1
  <2> QED
    BY <1>2, <2>1, <2>2
<1>3. CASE \E i \in 1..(j - 1) :
               /\ w.todo[i].op = "open_round" /\ Kind(w.todo[i]) \in K
               /\ \A m \in (i + 1)..(j - 1) : w.todo[m].op # "open_round"
  <2>1. PICK i \in 1..(j - 1) :
            /\ w.todo[i].op = "open_round" /\ Kind(w.todo[i]) \in K
            /\ \A m \in (i + 1)..(j - 1) : w.todo[m].op # "open_round"
    BY <1>3
  <2>2. \A m \in i..((j - 1) - 1) : m # 0 => w2.todo[m].op # "open_round"
    BY <1>2, <2>1
  <2>3. CASE i = 1
    <3>1. w2.made \in DOMAIN rs2 /\ Kind(rs2[w2.made]) \in K
      BY <2>1, <2>3
    <3>2. \A m \in 1..((j - 1) - 1) : w2.todo[m].op # "open_round"
      BY <2>2, <2>3
    <3> QED
      BY <3>1, <3>2 DEF Concerns
  <2>4. CASE i # 1
    <3>1. i - 1 \in 1..((j - 1) - 1) /\ i - 1 \in 1..Len(w2.todo) /\ (i - 1) + 1 = i
      BY <1>1, <2>4
    <3>2. w2.todo[i - 1] = w.todo[i]
      BY <1>1, <3>1
    <3>3. \A m \in ((i - 1) + 1)..((j - 1) - 1) : w2.todo[m].op # "open_round"
      BY <2>2, <3>1
    <3>4. w2.todo[i - 1].op = "open_round" /\ Kind(w2.todo[i - 1]) \in K
      BY <2>1, <3>2
    <3> QED
      BY <3>1, <3>3, <3>4 DEF Concerns
  <2> QED
    BY <2>3, <2>4
<1>4. CASE /\ \A m \in 1..(j - 1) : w.todo[m].op # "open_round"
           /\ w.made \in DOMAIN rs /\ Kind(rs[w.made]) \in K
  <2>1. w.todo[1].op # "open_round"
    BY <1>4
  <2>2. w2.made \in DOMAIN rs2 /\ Kind(rs2[w2.made]) \in K
    BY <1>4, <2>1
  <2>3. \A m \in (0 + 1)..(j - 1) : w.todo[m].op # "open_round"
    BY <1>4
  <2>4. \A m \in 0..((j - 1) - 1) : m # 0 => w2.todo[m].op # "open_round"
    BY <1>2, <2>3
  <2>5. \A m \in 1..((j - 1) - 1) : w2.todo[m].op # "open_round"
    BY <2>4
  <2> QED
    BY <2>2, <2>5 DEF Concerns
<1> QED
  BY <1>3, <1>4 DEF Concerns

LEMMA HeadDone ==
    ASSUME NEW rs, NEW t, NEW fin, NEW rs2, NEW t2, NEW fin2, NEW b,
           Remembers(rs, t, fin, rs2, t2, fin2),
           NEW w, NEW w2, w.todo \in Seq(Statement), w.todo # <<>>, w2.todo = Tail(w.todo),
           w.todo[1].op # "open_round" => w2.made = w.made,
           w.todo[1].op = "open_round" =>
               w2.made \in DOMAIN rs2 /\ Kind(rs2[w2.made]) = Kind(w.todo[1]),
           \A c \in Claims : Makes(c, w, 1, rs) => Holds(c, rs2, t2, fin2),
           KeepsPromises(w, rs, t, fin, b)
    PROVE  KeepsPromises(w2, rs2, t2, fin2, b)
<1>1. /\ Len(w.todo) \in Nat \ {0} /\ Len(w2.todo) = Len(w.todo) - 1
      /\ \A m \in 1..Len(w2.todo) : w2.todo[m] = w.todo[m + 1]
  OBVIOUS
<1> SUFFICES ASSUME NEW k \in 1..Len(w2.todo), NEW c \in Claims, ReliesOn(w2.todo[k], c, b)
             PROVE  Holds(c, rs2, t2, fin2) \/ \E j \in 1..(k - 1) : Makes(c, w2, j, rs2)
  BY DEF KeepsPromises
<1>2. k + 1 \in 1..Len(w.todo) /\ ReliesOn(w.todo[k + 1], c, b)
  BY <1>1
<1>3. Holds(c, rs, t, fin) \/ \E j \in 1..((k + 1) - 1) : Makes(c, w, j, rs)
  BY <1>2 DEF KeepsPromises
<1>4. CASE Holds(c, rs, t, fin)
  BY <1>4, HoldsStays
<1>5. CASE \E j \in 1..((k + 1) - 1) : Makes(c, w, j, rs)
  <2>1. PICK j \in 1..((k + 1) - 1) : Makes(c, w, j, rs)
    BY <1>5
  <2>2. CASE j = 1
    BY <2>1, <2>2
  <2>3. CASE j # 1
    <3>1. /\ j \in Nat /\ 1 < j /\ j <= Len(w.todo) /\ j - 1 \in 1..(k - 1)
          /\ j - 1 \in 1..Len(w2.todo) /\ (j - 1) + 1 = j
      BY <1>1, <2>3
    <3>2. w2.todo[j - 1] = w.todo[j]
      BY <1>1, <3>1
    <3>3. \A r \in DOMAIN rs : r \in DOMAIN rs2 /\ Kind(rs2[r]) = Kind(rs[r])
      BY DEF Remembers
    <3>4. c.what = "asked" => Concerns(w, j, c.kinds, rs)
      BY <2>1 DEF Makes
    <3>5. c.what = "asked" => Concerns(w2, j - 1, c.kinds, rs2)
      BY <3>1, <3>3, <3>4, ConcernsNext
    <3>6. Makes(c, w2, j - 1, rs2)
      BY <2>1, <3>2, <3>5 DEF Makes
    <3> QED
      BY <3>1, <3>6
  <2> QED
    BY <2>2, <2>3
<1> QED
  BY <1>3, <1>4, <1>5

\* The head of the list becomes another statement, which relies on nothing.
LEMMA HeadReplaced ==
    ASSUME NEW rs, NEW t, NEW fin, NEW b,
           NEW w, NEW w2, w.todo \in Seq(Statement), w.todo # <<>>,
           NEW s, w2.todo = <<s>> \o Tail(w.todo), w2.made = w.made,
           s.op \in {"insert", "set_round"}, w.todo[1].op # "open_round",
           \A c \in Claims : Makes(c, w, 1, rs) =>
               \/ Holds(c, rs, t, fin)
               \/ s.op \in {"number", "insert"} /\ s.round = New /\ c.what = "asked",
           KeepsPromises(w, rs, t, fin, b)
    PROVE  KeepsPromises(w2, rs, t, fin, b)
<1>1. /\ Len(w.todo) \in Nat \ {0} /\ Len(w2.todo) = Len(w.todo)
      /\ w2.todo[1] = s
      /\ \A m \in 2..Len(w.todo) : w2.todo[m] = w.todo[m]
  <2> DEFINE S == Statement \cup {s}
             q == Tail(w.todo)
  <2>1. /\ Len(w.todo) \in Nat \ {0} /\ q \in Seq(Statement) /\ Len(q) = Len(w.todo) - 1
        /\ \A m \in 2..Len(w.todo) : q[m - 1] = w.todo[m]
    OBVIOUS
  <2>2. q \in Seq(S) /\ <<s>> \in Seq(S)
    BY <2>1
  <2> HIDE DEF S, q
  <2>3. w2.todo = <<s>> \o q /\ Len(<<s>>) = 1 /\ <<s>>[1] = s
    BY DEF q
  <2> QED
    BY <2>1, <2>2, <2>3
<1> SUFFICES ASSUME NEW k \in 1..Len(w2.todo), NEW c \in Claims, ReliesOn(w2.todo[k], c, b)
             PROVE  Holds(c, rs, t, fin) \/ \E j \in 1..(k - 1) : Makes(c, w2, j, rs)
  BY DEF KeepsPromises
<1>2. k # 1
  <2> SUFFICES ASSUME k = 1
               PROVE  FALSE
    OBVIOUS
  <2>1. ReliesOn(s, c, b)
    BY <1>1
  <2> QED
    BY <2>1 DEF ReliesOn, AfterRequests
<1>3. ReliesOn(w.todo[k], c, b) /\ k \in 1..Len(w.todo)
  BY <1>1, <1>2
<1>4. ASSUME NEW j \in 1..Len(w.todo)
      PROVE  w2.todo[j].op = "open_round" <=> w.todo[j].op = "open_round"
  <2>1. CASE j = 1
    BY <1>1, <2>1
  <2>2. CASE j # 1
    BY <1>1, <2>2
  <2> QED
    BY <2>1, <2>2
<1>5. ASSUME NEW j \in 1..(k - 1), NEW K, Concerns(w, j, K, rs)
      PROVE  Concerns(w2, j, K, rs)
  <2>1. CASE \E i \in 1..(j - 1) :
                 /\ w.todo[i].op = "open_round" /\ Kind(w.todo[i]) \in K
                 /\ \A m \in (i + 1)..(j - 1) : w.todo[m].op # "open_round"
    <3>1. PICK i \in 1..(j - 1) :
                 /\ w.todo[i].op = "open_round" /\ Kind(w.todo[i]) \in K
                 /\ \A m \in (i + 1)..(j - 1) : w.todo[m].op # "open_round"
      BY <2>1
    <3>2. i # 1 /\ i \in 2..Len(w.todo)
      BY <1>3, <3>1
    <3>3. w2.todo[i] = w.todo[i]
      BY <1>1, <3>2
    <3>4. \A m \in (i + 1)..(j - 1) : w2.todo[m].op # "open_round"
      BY <1>3, <1>4, <3>1
    <3> QED
      BY <3>1, <3>3, <3>4 DEF Concerns
  <2>2. CASE /\ \A m \in 1..(j - 1) : w.todo[m].op # "open_round"
             /\ w.made \in DOMAIN rs /\ Kind(rs[w.made]) \in K
    <3>1. \A m \in 1..(j - 1) : w2.todo[m].op # "open_round"
      BY <1>3, <1>4, <2>2
    <3> QED
      BY <2>2, <3>1 DEF Concerns
  <2> QED
    BY <1>5, <2>1, <2>2 DEF Concerns
<1>6. CASE Holds(c, rs, t, fin)
  BY <1>6
<1>7. CASE \E j \in 1..(k - 1) : Makes(c, w, j, rs)
  <2>1. PICK j \in 1..(k - 1) : Makes(c, w, j, rs)
    BY <1>7
  <2>2. c.what = "asked" => Concerns(w2, j, c.kinds, rs)
    BY <1>5, <2>1 DEF Makes
  <2>3. CASE j = 1
    <3>1. \/ Holds(c, rs, t, fin)
          \/ s.op \in {"number", "insert"} /\ s.round = New /\ c.what = "asked"
      BY <2>1, <2>3
    <3>2. CASE s.op \in {"number", "insert"} /\ s.round = New /\ c.what = "asked"
      BY <1>1, <2>2, <2>3, <3>2 DEF Makes
    <3> QED
      BY <1>6, <3>1, <3>2
  <2>4. CASE j # 1
    <3>1. w2.todo[j] = w.todo[j]
      BY <1>1, <1>3, <2>4
    <3>2. Makes(c, w2, j, rs)
      BY <2>1, <2>2, <3>1 DEF Makes
    <3> QED
      BY <3>2
  <2> QED
    BY <2>3, <2>4
<1> QED
  BY <1>3, <1>6, <1>7 DEF KeepsPromises

-----------------------------------------------------------------------------
\* Statements that rely on nothing, or on what is there.
Carefree ==
    {"set_round", "number", "insert", "check", "release", "record", "finalize", "write_skips",
     "close"}

LEMMA SoundStatements ==
    ASSUME NEW s, NEW rs, NEW t, NEW fin, NEW b
    PROVE  /\ s.op \in Carefree => Founded(s, rs, t, fin, b)
           /\ s.op = "open_round" /\ (s.type = "same_host_pair" \/ t # <<>>) =>
                  Founded(s, rs, t, fin, b)
           /\ s.op \in AfterRequests /\ t # <<>> => Founded(s, rs, t, fin, b)
<1>1. ASSUME s.op \in Carefree
      PROVE  Founded(s, rs, t, fin, b)
  <2>1. s.op \notin AfterRequests \cup {"open_round", "set_session"}
    BY <1>1 DEF Carefree, AfterRequests
  <2> QED
    BY <2>1 DEF Founded, ReliesOn
<1>2. ASSUME s.op \in AfterRequests \cup {"open_round"}
      PROVE  s.op # "set_session"
  BY <1>2 DEF AfterRequests
<1>3. ASSUME s.op = "open_round", s.type = "same_host_pair" \/ t # <<>>
      PROVE  Founded(s, rs, t, fin, b)
  <2>1. s.op \notin AfterRequests
    BY <1>3 DEF AfterRequests
  <2>2. \A c \in Claims : ReliesOn(s, c, b) => c = Begun /\ t # <<>>
    BY <1>3, <2>1 DEF ReliesOn
  <2> QED
    BY <2>2, ClaimsSay DEF Founded
<1>4. ASSUME s.op \in AfterRequests, t # <<>>
      PROVE  Founded(s, rs, t, fin, b)
  <2>1. \A c \in Claims : ReliesOn(s, c, b) => c = Begun
    BY <1>2, <1>4 DEF ReliesOn
  <2> QED
    BY <1>4, <2>1, ClaimsSay DEF Founded
<1> QED
  BY <1>1, <1>3, <1>4

\* The statuses that are not announcements, and round 1 of a session that was
\* resumed.
LEMMA SoundStatuses ==
    ASSUME NEW s, s.op = "set_session", NEW rs, NEW t, NEW fin, NEW b
    PROVE  /\ s.status \in {"none", "drafting", "aborted"} => Founded(s, rs, t, fin, b)
           /\ s.status = "escalated" /\ t # <<>> => Founded(s, rs, t, fin, b)
           /\ s.status = "complete" /\ fin # None => Founded(s, rs, t, fin, b)
           /\ s.status = "round_1" /\ b /\ Asks(PairKinds, rs, t) => Founded(s, rs, t, fin, b)
<1>1. s.op \notin AfterRequests \cup {"open_round"}
  BY DEF AfterRequests
<1>2. DOMAIN Announced = {"round_1", "round_2", "round_3", "executing"}
  BY DEF Announced
<1>3. ASSUME s.status \in {"none", "drafting", "aborted"}
      PROVE  Founded(s, rs, t, fin, b)
  <2>1. \A c \in Claims : ~ReliesOn(s, c, b)
    BY <1>1, <1>2, <1>3 DEF ReliesOn
  <2> QED
    BY <2>1 DEF Founded
<1>4. ASSUME s.status = "escalated", t # <<>>
      PROVE  Founded(s, rs, t, fin, b)
  <2>1. \A c \in Claims : ReliesOn(s, c, b) => c = Begun
    BY <1>1, <1>2, <1>4 DEF ReliesOn
  <2> QED
    BY <1>4, <2>1, ClaimsSay DEF Founded
<1>5. ASSUME s.status = "complete", fin # None
      PROVE  Founded(s, rs, t, fin, b)
  <2>1. \A c \in Claims : ReliesOn(s, c, b) => c = Concluded
    BY <1>1, <1>2, <1>5 DEF ReliesOn
  <2> QED
    BY <1>5, <2>1, ClaimsSay DEF Founded
<1>6. ASSUME s.status = "round_1", b, Asks(PairKinds, rs, t)
      PROVE  Founded(s, rs, t, fin, b)
  <2>1. \A c \in Claims : ReliesOn(s, c, b) => c = Stage(Announced["round_1"])
    BY <1>1, <1>2, <1>6 DEF ReliesOn
  <2>2. Stage(Announced["round_1"]) = Asked(PairKinds)
    BY DEF Stage, Announced, PairKinds
  <2> QED
    BY <1>6, <2>1, <2>2, ClaimsSay DEF Founded
<1> QED
  BY <1>3, <1>4, <1>5, <1>6

LEMMA SoundStays ==
    ASSUME NEW rs, NEW t, NEW fin, NEW rs2, NEW t2, NEW fin2, NEW b, NEW b2,
           Remembers(rs, t, fin, rs2, t2, fin2), b => b2,
           NEW s, Founded(s, rs, t, fin, b)
    PROVE  Founded(s, rs2, t2, fin2, b2)
BY ReliesOnLess, HoldsStays DEF Founded

\* Lists of such statements.
Free(p, rs, t, fin, interfered) ==
    \A k \in 1..Len(p) : Founded(p[k], rs, t, fin, interfered)

LEMMA FreeKeepsPromises ==
    ASSUME NEW w, NEW rs, NEW t, NEW fin, NEW b, Free(w.todo, rs, t, fin, b)
    PROVE  KeepsPromises(w, rs, t, fin, b)
BY DEF Free, Founded, KeepsPromises

LEMMA FreeLists ==
    ASSUME NEW rs, NEW t, NEW fin, NEW b
    PROVE  /\ Free(<<>>, rs, t, fin, b)
           /\ \A s : Founded(s, rs, t, fin, b) => Free(<<s>>, rs, t, fin, b)
           /\ \A s, u :
                  Founded(s, rs, t, fin, b) /\ Founded(u, rs, t, fin, b) =>
                      Free(<<s, u>>, rs, t, fin, b)
BY DEF Free

LEMMA FreeJoined ==
    ASSUME NEW rs, NEW t, NEW fin, NEW b, NEW S, NEW p \in Seq(S), NEW q \in Seq(S),
           Free(p, rs, t, fin, b), Free(q, rs, t, fin, b)
    PROVE  Free(p \o q, rs, t, fin, b)
<1> DEFINE c == p \o q
<1>1. Len(p) \in Nat /\ Len(q) \in Nat
  OBVIOUS
<1>2. /\ c \in Seq(S)
      /\ Len(c) = Len(p) + Len(q)
      /\ \A k \in 1..(Len(p) + Len(q)) : c[k] = IF k <= Len(p) THEN p[k] ELSE q[k - Len(p)]
  BY <1>1, ConcatProperties
<1> HIDE DEF c
<1>3. ASSUME NEW k \in 1..Len(c)
      PROVE  Founded(c[k], rs, t, fin, b)
  <2>1. CASE k <= Len(p)
    BY <1>1, <1>2, <2>1 DEF Free
  <2>2. CASE k > Len(p)
    <3>1. k - Len(p) \in 1..Len(q) /\ c[k] = q[k - Len(p)]
      BY <1>1, <1>2, <2>2
    <3> QED
      BY <3>1 DEF Free
  <2> QED
    BY <1>1, <1>2, <2>1, <2>2
<1> QED
  BY <1>2, <1>3 DEF Free, c

-----------------------------------------------------------------------------
(***************************************************************************)
(* What a step of a thread does for the promises: no claim is lost, the    *)
(* status is as good as before, and what is left of the handler keeps its  *)
(* own.                                                                    *)
(***************************************************************************)
Promising(h) ==
    /\ work' = [work EXCEPT ![h] = work'[h]]
    /\ Remembers(rounds, iters, finalized, rounds', iters', finalized')
    /\ Founded(SetSessionStmt(session'), rounds', iters', finalized', overrides' # 0)
    /\ PairsFirst(rounds', iters')
    /\ KeepsPromises(work'[h], rounds', iters', finalized', overrides' # 0)

LEMMA RestingKeepsPromises ==
    ASSUME NEW w, NEW rs, NEW t, NEW fin, NEW b, KeepsPromises(w, rs, t, fin, b)
    PROVE  KeepsPromises(Resting(w), rs, t, fin, b)
<1>1. Len(Idle.todo) = 0
  BY DEF Idle
<1>2. KeepsPromises(Idle, rs, t, fin, b)
  BY <1>1 DEF KeepsPromises
<1> QED
  BY <1>2 DEF Resting

LEMMA PairsFirstStays ==
    ASSUME NEW rs, NEW t, NEW fin, NEW rs2, NEW t2, NEW fin2,
           Remembers(rs, t, fin, rs2, t2, fin2), PairsFirst(rs, t),
           t2 # <<>> => t # <<>>,
           \A r \in DOMAIN rs2 :
               r \in DOMAIN rs \/ rs2[r].type = "same_host_pair" \/ t # <<>>
    PROVE  PairsFirst(rs2, t2)
<1>1. t2 # <<>> => Asks(PairKinds, rs2, t2)
  BY AsksStays DEF PairsFirst
<1>2. ASSUME NEW r \in DOMAIN rs2, rs2[r].type # "same_host_pair"
      PROVE  t2 # <<>>
  <2>1. CASE r \in DOMAIN rs
    <3>1. Kind(rs2[r]) = Kind(rs[r])
      BY <2>1 DEF Remembers
    <3>2. rs[r].type # "same_host_pair"
      BY <1>2, <3>1 DEF Kind
    <3> QED
      BY <2>1, <3>2 DEF PairsFirst, Remembers
  <2>2. CASE r \notin DOMAIN rs
    BY <1>2, <2>2 DEF Remembers
  <2> QED
    BY <2>1, <2>2
<1> QED
  BY <1>1, <1>2 DEF PairsFirst

LEMMA MakesNothing ==
    ASSUME NEW w, NEW rs, w.todo[1].op \notin {"close", "finalize", "number", "insert"},
           NEW c \in Claims
    PROVE  ~ Makes(c, w, 1, rs)
<1>1. CASE c = Begun
  BY <1>1, ClaimsAreMade
<1>2. CASE c = Concluded
  BY <1>2, ClaimsAreMade
<1>3. CASE \E K : c = Asked(K)
  <2>1. c.what = "asked"
    BY <1>3 DEF Asked
  <2> QED
    BY <2>1 DEF Makes
<1> QED
  BY <1>1, <1>2, <1>3, ClaimIsOneOf

LEMMA UnchangedRemembers ==
    ASSUME StepsInv, UNCHANGED <<rounds, iters, finalized>>
    PROVE  Remembers(rounds, iters, finalized, rounds', iters', finalized')
<1>1. \A i \in DOMAIN iters : iters[i].round \in DOMAIN rounds
  BY InvTables DEF Tables
<1> QED
  BY <1>1 DEF Remembers

\* A handler begins, or goes on with what a read led to.
LEMMA ListIsPromising ==
    ASSUME StepsInv, StatusInv, NEW h \in Threads, UNCHANGED <<rounds, iters, finalized>>,
           session' \in {session, "drafting"}, overrides # 0 => overrides' # 0,
           NEW w, work' = [work EXCEPT ![h] = Resting(w)],
           KeepsPromises(w, rounds, iters, finalized, overrides' # 0)
    PROVE  Promising(h)
<1>1. work'[h] = Resting(w) /\ work' = [work EXCEPT ![h] = work'[h]]
  BY InvTables
<1>2. Remembers(rounds, iters, finalized, rounds', iters', finalized')
  BY UnchangedRemembers
<1>3. Founded(SetSessionStmt(session'), rounds', iters', finalized', overrides' # 0)
  <2>1. CASE session' = session
    <3>1. Founded(SetSessionStmt(session), rounds, iters, finalized, overrides # 0)
      BY DEF StatusInv
    <3>2. Founded(SetSessionStmt(session), rounds, iters, finalized, overrides' # 0)
      BY <3>1, ReliesOnLess DEF Founded
    <3> QED
      BY <2>1, <3>2
  <2>2. CASE session' = "drafting"
    <3> DEFINE s == SetSessionStmt(session')
    <3>1. s.op = "set_session" /\ s.status = "drafting"
      BY <2>2 DEF SetSessionStmt
    <3> HIDE DEF s
    <3>2. Founded(s, rounds', iters', finalized', overrides' # 0)
      BY <3>1, SoundStatuses
    <3> QED
      BY <3>2 DEF s
  <2> QED
    BY <2>1, <2>2
<1>4. PairsFirst(rounds', iters')
  BY DEF StatusInv
<1>5. KeepsPromises(work'[h], rounds', iters', finalized', overrides' # 0)
  BY <1>1, RestingKeepsPromises
<1> QED
  BY <1>1, <1>2, <1>3, <1>4, <1>5 DEF Promising

\* A statement is done.
LEMMA DoneIsPromising ==
    ASSUME StepsInv, StatusInv, NEW h \in Busy, overrides' = overrides,
           Remembers(rounds, iters, finalized, rounds', iters', finalized'),
           PairsFirst(rounds', iters'),
           \/ session' = session
           \/ Founded(SetSessionStmt(session'), rounds', iters', finalized', overrides' # 0),
           NEW w, work' = [work EXCEPT ![h] = Resting(w)], w.todo = Rest(h),
           Current(h).op # "open_round" => w.made = work[h].made,
           Current(h).op = "open_round" =>
               w.made \in DOMAIN rounds' /\ Kind(rounds'[w.made]) = Kind(Current(h)),
           \A c \in Claims : Makes(c, work[h], 1, rounds) => Holds(c, rounds', iters', finalized')
    PROVE  Promising(h)
<1>1. /\ h \in Threads /\ work[h].todo # <<>> /\ work[h].todo \in Seq(Statement)
      /\ Current(h) = work[h].todo[1]
  BY BusyFits DEF Handlers
<1>2. work'[h] = Resting(w) /\ work' = [work EXCEPT ![h] = work'[h]]
  BY <1>1, InvTables
<1>3. KeepsPromises(work[h], rounds, iters, finalized, overrides # 0)
  BY <1>1 DEF StatusInv
<1>4. KeepsPromises(w, rounds', iters', finalized', overrides # 0)
  BY <1>1, <1>3, HeadDone DEF Rest
<1>5. KeepsPromises(work'[h], rounds', iters', finalized', overrides' # 0)
  BY <1>2, <1>4, RestingKeepsPromises
<1>6. Founded(SetSessionStmt(session'), rounds', iters', finalized', overrides' # 0)
  <2>1. Founded(SetSessionStmt(session), rounds, iters, finalized, overrides # 0)
    BY DEF StatusInv
  <2>2. Founded(SetSessionStmt(session), rounds', iters', finalized', overrides # 0)
    BY <2>1, SoundStays
  <2> QED
    BY <2>2
<1> QED
  BY <1>2, <1>5, <1>6 DEF Promising

\* The statement a thread is at relies on what is there.
LEMMA CurrentIsSound ==
    ASSUME StepsInv, StatusInv, NEW h \in Busy
    PROVE  Founded(Current(h), rounds, iters, finalized, overrides # 0)
<1>1. /\ KeepsPromises(work[h], rounds, iters, finalized, overrides # 0)
      /\ Current(h) = work[h].todo[1] /\ 1 \in 1..Len(work[h].todo)
  <2>1. h \in Threads /\ work[h].todo # <<>> /\ work[h].todo \in Seq(Statement)
        /\ Current(h) = work[h].todo[1]
    BY BusyFits DEF Handlers
  <2>2. 1 \in 1..Len(work[h].todo)
    BY <2>1
  <2> QED
    BY <2>1, <2>2 DEF StatusInv
<1>2. \A c \in Claims : ReliesOn(work[h].todo[1], c, overrides # 0) =>
          \/ Holds(c, rounds, iters, finalized)
          \/ \E j \in 1..(1 - 1) : Makes(c, work[h], j, rounds)
  BY <1>1 DEF KeepsPromises
<1>3. 1..(1 - 1) = {}
  OBVIOUS
<1> QED
  BY <1>1, <1>2, <1>3 DEF Founded

LEMMA BegunBefore ==
    ASSUME StepsInv, StatusInv, NEW h \in Busy,
           Current(h).op \in AfterRequests
               \/ (Current(h).op = "open_round" /\ Current(h).type # "same_host_pair")
    PROVE  iters # <<>>
<1>1. Begun \in Claims /\ ReliesOn(Current(h), Begun, overrides # 0)
  BY DEF Claims, ReliesOn
<1> QED
  BY <1>1, CurrentIsSound, ClaimsSay DEF Founded

LEMMA OpenRoundIsPromising ==
    ASSUME StepsInv, StatusInv, NEW h \in Busy, OpenRound(h), overrides' = overrides
    PROVE  Promising(h)
<1> DEFINE s == Current(h)
           rd == [NewRound(s.type, s.host) EXCEPT !.status = "pending"]
           w == [work[h] EXCEPT !.todo = Rest(h), !.made = Len(rounds) + 1]
<1>1. /\ s.op = "open_round"
      /\ rounds' = Append(rounds, rd)
      /\ work' = [work EXCEPT ![h] = Resting(w)]
      /\ UNCHANGED <<session, iters, reviews, skipped, finalized>>
  BY DEF OpenRound, At
<1>2. work[h] \in Handlers /\ s = work[h].todo[1] /\ s \in Statement
  BY BusyFits
<1>3. s.type \in RoundTypes /\ s.host \in Hosts \cup {None}
  BY <1>1, <1>2, OpenRoundFields
<1>4. /\ rd \in Round /\ Kind(rd) = Kind(s) /\ rd.type = s.type
  BY <1>3 DEF NewRound, Round, RoundStatuses, Kind
<1>5. /\ w.todo = Rest(h) /\ w.made = Len(rounds) + 1
  BY <1>2 DEF Handlers
<1>6. rounds \in Seq(Round) /\ Tables(rounds, iters)
  BY InvTables
<1>7. s.type # "same_host_pair" => iters # <<>>
  BY <1>1, BegunBefore
<1> HIDE DEF rd, w, s
<1>8. /\ Len(rounds) + 1 \in DOMAIN rounds' /\ rounds'[Len(rounds) + 1] = rd
      /\ \A r \in DOMAIN rounds : rounds'[r] = rounds[r] /\ r \in DOMAIN rounds'
      /\ \A r \in DOMAIN rounds' : r \in DOMAIN rounds \/ r = Len(rounds) + 1
  BY <1>1, <1>4, <1>6
<1>9. Remembers(rounds, iters, finalized, rounds', iters', finalized')
  BY <1>1, <1>6, <1>8 DEF Remembers, Tables
<1>10. PairsFirst(rounds', iters')
  <2>1. iters' # <<>> => iters # <<>>
    BY <1>1
  <2>2. \A r \in DOMAIN rounds' :
            r \in DOMAIN rounds \/ rounds'[r].type = "same_host_pair" \/ iters # <<>>
    BY <1>4, <1>7, <1>8
  <2>3. PairsFirst(rounds, iters)
    BY DEF StatusInv
  <2> QED
    BY <1>9, <2>1, <2>2, <2>3, PairsFirstStays
<1>11. \A c \in Claims : ~ Makes(c, work[h], 1, rounds)
  BY <1>1, <1>2, MakesNothing
<1>12. w.made \in DOMAIN rounds' /\ Kind(rounds'[w.made]) = Kind(s)
  BY <1>4, <1>5, <1>8
<1>13. session' = session
  BY <1>1
<1> QED
  BY <1>1, <1>5, <1>9, <1>10, <1>11, <1>12, <1>13, DoneIsPromising DEF s

\* A statement that adds no row.
LEMMA RewriteIsPromising ==
    ASSUME StepsInv, StatusInv, NEW h \in Busy, Proceed(h, <<>>), overrides' = overrides,
           Current(h).op \notin {"open_round", "close", "number", "insert"},
           DOMAIN rounds' = DOMAIN rounds, DOMAIN iters' = DOMAIN iters,
           \A r \in DOMAIN rounds :
               rounds'[r].type = rounds[r].type /\ rounds'[r].host = rounds[r].host,
           \A i \in DOMAIN iters : iters'[i].round = iters[i].round,
           iters' = <<>> <=> iters = <<>>,
           finalized # None \/ Current(h).op = "finalize" => finalized' # None,
           \/ session' = session
           \/ session' = Current(h).status /\ Current(h).op = "set_session"
    PROVE  Promising(h)
<1> DEFINE w == [work[h] EXCEPT !.todo = Rest(h)]
           s == Current(h)
<1>1. work[h] \in Handlers /\ s = work[h].todo[1] /\ work[h].todo # <<>>
  BY BusyFits
<1>2. Rest(h) \in Seq(Statement) /\ <<>> \o Rest(h) = Rest(h)
  <2>1. Rest(h) \in Seq(Statement)
    BY <1>1 DEF Handlers, Rest
  <2> QED
    BY <2>1
<1>3. /\ w.todo = Rest(h) /\ w.made = work[h].made
      /\ work' = [work EXCEPT ![h] = Resting(w)]
  BY <1>1, <1>2 DEF Handlers, Proceed
<1> HIDE DEF w
<1>4. Remembers(rounds, iters, finalized, rounds', iters', finalized')
  BY InvTables DEF Remembers, Tables, Kind
<1>5. PairsFirst(rounds', iters')
  BY <1>4, PairsFirstStays DEF StatusInv
<1>6. ASSUME NEW c \in Claims, Makes(c, work[h], 1, rounds)
      PROVE  Holds(c, rounds', iters', finalized')
  <2>1. CASE c = Begun
    BY <1>1, <1>6, <2>1, ClaimsAreMade
  <2>2. CASE c = Concluded
    BY <1>1, <1>6, <2>2, ClaimsAreMade, ClaimsSay
  <2>3. CASE \E K : c = Asked(K)
    <3>1. c.what = "asked"
      BY <2>3 DEF Asked
    <3> QED
      BY <1>1, <1>6, <3>1 DEF Makes
  <2> QED
    BY <2>1, <2>2, <2>3, ClaimIsOneOf
<1>7. session' = s.status /\ s.op = "set_session" =>
          Founded(SetSessionStmt(session'), rounds', iters', finalized', overrides' # 0)
  <2> SUFFICES ASSUME session' = s.status, s.op = "set_session"
               PROVE  Founded(SetSessionStmt(session'), rounds', iters', finalized', overrides' # 0)
    OBVIOUS
  <2> DEFINE u == SetSessionStmt(session')
  <2>1. u.op = "set_session" /\ u.status = s.status
    BY DEF SetSessionStmt
  <2>2. Founded(s, rounds', iters', finalized', overrides' # 0)
    BY <1>4, CurrentIsSound, SoundStays
  <2> HIDE DEF u, s
  <2>3. \A c, b : ReliesOn(u, c, b) => ReliesOn(s, c, b)
    <3>1. s.op \notin AfterRequests \cup {"open_round"}
      BY DEF AfterRequests
    <3> QED
      BY <2>1, <3>1 DEF ReliesOn, AfterRequests
  <2> QED
    BY <2>2, <2>3 DEF Founded, u
<1> QED
  BY <1>3, <1>4, <1>5, <1>6, <1>7, DoneIsPromising

LEMMA EmptyTable ==
    ASSUME NEW s, NEW t, s \in Seq(Iteration), t \in Seq(Iteration), DOMAIN t = DOMAIN s
    PROVE  t = <<>> <=> s = <<>>
<1>1. /\ DOMAIN s = 1..Len(s) /\ DOMAIN t = 1..Len(t)
      /\ Len(s) \in Nat /\ Len(t) \in Nat
  OBVIOUS
<1>2. Len(s) = Len(t)
  BY <1>1
<1> QED
  BY <1>2

LEMMA UpdatesArePromising ==
    ASSUME StepsInv, StatusInv, NEW h \in Busy, overrides' = overrides,
           SetRound(h) \/ SetSession(h) \/ Finalize(h) \/ WriteSkips(h)
    PROVE  Promising(h)
<1> DEFINE s == Current(h)
<1>1. /\ s.op \in {"set_round", "set_session", "finalize", "write_skips"}
      /\ Proceed(h, <<>>) /\ iters' = iters
  BY DEF SetRound, SetSession, Finalize, WriteSkips, At
<1>2. /\ session' = session \/ (session' = s.status /\ s.op = "set_session")
      /\ rounds' = rounds \/
            (s.op = "set_round" /\ rounds' = UpdateRound(rounds, RoundOf(h), s.status, s.outcome))
      /\ \/ finalized' = finalized /\ s.op # "finalize"
         \/ finalized' = Round2Outcome(rounds) /\ Round2Outcome(rounds) # None
         \/ s.op = "finalize" /\ finalized' = s.output
  BY DEF SetRound, SetSession, Finalize, WriteSkips, At
<1>3. s \in Statement
  BY BusyFits
<1>4. finalized # None \/ s.op = "finalize" => finalized' # None
  <2>1. s.op = "finalize" => s.output # None
    BY <1>3, WriteFields, RegistryAssumption
  <2> QED
    BY <1>2, <2>1
<1>5. DOMAIN rounds' = DOMAIN rounds /\ \A r \in DOMAIN rounds :
          rounds'[r].type = rounds[r].type /\ rounds'[r].host = rounds[r].host
  <2>1. \A r \in DOMAIN rounds : rounds[r] \in Round
    BY InvTables
  <2>2. CASE rounds' = UpdateRound(rounds, RoundOf(h), s.status, s.outcome)
    <3> DEFINE q == RoundOf(h)
               status == s.status
               outcome == s.outcome
    <3>1. rounds' = UpdateRound(rounds, q, status, outcome)
      BY <2>2
    <3> HIDE DEF q, status, outcome
    <3> QED
      BY <2>1, <3>1 DEF UpdateRound, Round
  <2> QED
    BY <1>2, <2>2
<1>6. s.op \notin {"open_round", "close", "number", "insert"}
  BY <1>1
<1> QED
  BY <1>1, <1>2, <1>4, <1>5, <1>6, RewriteIsPromising

LEMMA AnswersArePromising ==
    ASSUME StepsInv, StatusInv, NEW h \in Busy, overrides' = overrides, Release(h) \/ Record(h)
    PROVE  Promising(h)
<1> DEFINE s == Current(h)
           i == RequestOf(h)
<1>1. /\ s.op \in {"release", "record"} /\ Proceed(h, <<>>)
      /\ UNCHANGED <<session, rounds, finalized>>
  BY DEF Release, Record, At
<1>2. \/ iters' = [iters EXCEPT ![i].status = "awaiting_destination", ![i].nudged = s.nudged]
      \/ iters' = [iters EXCEPT ![i].output = s.output, ![i].assess = s.assess,
                                ![i].status = "complete"]
  BY DEF Release, Record, Respond
<1>3. iters \in Seq(Iteration) /\ DOMAIN iters = 1..Len(iters) /\ Len(iters) \in Nat
  BY InvTables
<1>4. \A j \in DOMAIN iters : iters[j] \in Iteration
  BY <1>3
<1>5. DOMAIN iters' = DOMAIN iters
  BY <1>2
<1>6. \A j \in DOMAIN iters : iters'[j].round = iters[j].round
  <2> HIDE DEF i, s
  <2> QED
    BY <1>2, <1>4 DEF Iteration
<1>7. iters' = <<>> <=> iters = <<>>
  <2>1. Tables(rounds', iters')
    BY ReleaseIsSteady, RecordIsSteady DEF Steady, KeepsToItsRows, Grown
  <2>2. iters' \in Seq(Iteration)
    BY <2>1 DEF Tables
  <2> QED
    BY <1>3, <1>5, <2>2, EmptyTable
<1>8. s.op \notin {"open_round", "close", "number", "insert", "finalize"}
  BY <1>1
<1>9. DOMAIN rounds' = DOMAIN rounds /\ session' = session /\ finalized' = finalized
      /\ \A r \in DOMAIN rounds :
             rounds'[r].type = rounds[r].type /\ rounds'[r].host = rounds[r].host
  BY <1>1
<1> QED
  BY <1>1, <1>5, <1>6, <1>7, <1>8, <1>9, RewriteIsPromising

LEMMA InsertIsPromising ==
    ASSUME StepsInv, StatusInv, NEW h \in Busy, overrides' = overrides, Insert(h)
    PROVE  Promising(h)
<1> DEFINE s == Current(h)
           r == RoundOf(h)
           n == Len(iters) + 1
           row == NewIteration(r, s.num, s.src, s.dst, s.input)
           w == [work[h] EXCEPT !.todo = Rest(h), !.asked = n]
<1>1. /\ s.op = "insert" /\ iters' = Append(iters, row)
      /\ work' = [work EXCEPT ![h] = Resting(w)]
      /\ UNCHANGED <<session, rounds, finalized>>
  BY DEF Insert, At
<1>2. work[h] \in Handlers /\ s = work[h].todo[1] /\ s \in Statement
  BY BusyFits
<1>3. r \in DOMAIN rounds /\ row.round = r
  BY <1>1, AtReady DEF RoundStmts, NewIteration
<1>4. w.todo = Rest(h) /\ w.made = work[h].made
  BY <1>2 DEF Handlers
<1>5. s.round = New => r = work[h].made
  BY DEF RoundOf
<1>6. iters \in Seq(Iteration) /\ Tables(rounds, iters) /\ rounds \in Seq(Round)
      /\ DOMAIN iters = 1..Len(iters) /\ Len(iters) \in Nat
  BY InvTables
<1> HIDE DEF w, s, r, row
<1>7. /\ n \in DOMAIN iters' /\ iters'[n] = row /\ iters' # <<>>
      /\ \A i \in DOMAIN iters : i \in DOMAIN iters' /\ iters'[i] = iters[i]
  <2>1. row \in Iteration
    <3>1. Tables(rounds', iters')
      BY InsertIsSteady DEF Steady, KeepsToItsRows, Grown
    <3>2. iters' \in Seq(Iteration) /\ n \in DOMAIN iters'
      BY <1>1, <1>6, <3>1 DEF Tables
    <3>3. iters'[n] = row
      BY <1>1, <1>6
    <3> QED
      BY <3>2, <3>3
  <2> QED
    BY <1>1, <1>6, <2>1
<1> HIDE DEF n
<1>8. Remembers(rounds, iters, finalized, rounds', iters', finalized')
  BY <1>1, <1>6, <1>7 DEF Remembers, Tables
<1>9. \A K : Kind(rounds[r]) \in K => Asks(K, rounds', iters')
  <2>1. rounds'[iters'[n].round] = rounds[r]
    BY <1>1, <1>3, <1>7
  <2> QED
    BY <1>7, <2>1 DEF Asks
<1>10. PairsFirst(rounds', iters')
  <2>1. CASE iters = <<>>
    <3>1. rounds[r].type = "same_host_pair" /\ rounds[r].host \in Places
      <4>1. PairsFirst(rounds, iters)
        BY DEF StatusInv
      <4>2. rounds[r].type = "same_host_pair"
        BY <1>3, <2>1, <4>1 DEF PairsFirst
      <4>3. rounds[r] \in Round
        BY <1>3, <1>6
      <4> QED
        BY <4>2, <4>3 DEF Round, Places
    <3>2. Kind(rounds[r]) \in PairKinds
      BY <3>1 DEF Kind, PairKinds
    <3> QED
      BY <1>7, <1>9, <3>2 DEF PairsFirst
  <2>2. CASE iters # <<>>
    <3>1. Asks(PairKinds, rounds, iters)
      BY <2>2 DEF StatusInv, PairsFirst
    <3>2. Asks(PairKinds, rounds', iters')
      BY <1>8, <3>1, AsksStays
    <3> QED
      BY <1>7, <3>2 DEF PairsFirst
  <2> QED
    BY <2>1, <2>2
<1>11. ASSUME NEW c \in Claims, Makes(c, work[h], 1, rounds)
       PROVE  Holds(c, rounds', iters', finalized')
  <2>1. c # Begun /\ c # Concluded
    BY <1>1, <1>2, <1>11, ClaimsAreMade
  <2>2. PICK K : c = Asked(K)
    BY <2>1, ClaimIsOneOf
  <2>3. s.round = New /\ Concerns(work[h], 1, K, rounds)
    BY <1>2, <1>11, <2>2, ClaimsAreMade
  <2>4. 1..(1 - 1) = {}
    OBVIOUS
  <2>5. Kind(rounds[work[h].made]) \in K
    BY <2>3, <2>4 DEF Concerns
  <2>6. Asks(K, rounds', iters')
    BY <1>5, <1>9, <2>3, <2>5
  <2> QED
    BY <2>2, <2>6, ClaimsSay
<1>12. session' = session
  BY <1>1
<1> QED
  BY <1>1, <1>4, <1>8, <1>10, <1>11, <1>12, DoneIsPromising DEF s

LEMMA WriteIsPromising ==
    ASSUME StepsInv, StatusInv, Write, overrides' = overrides
    PROVE  \E h \in Threads : Promising(h)
<1>1. PICK h \in Busy :
          \/ OpenRound(h) \/ SetRound(h) \/ Insert(h) \/ Release(h) \/ Record(h)
          \/ SetSession(h) \/ Finalize(h) \/ WriteSkips(h)
  BY DEF Write
<1>2. Promising(h)
  BY <1>1, OpenRoundIsPromising, UpdatesArePromising, InsertIsPromising, AnswersArePromising
<1> QED
  BY <1>2 DEF Busy

-----------------------------------------------------------------------------
(***************************************************************************)
(* The reads.                                                              *)
(***************************************************************************)
Keeping(p, interfered) ==
    \A w : w.todo = p => KeepsPromises(w, rounds, iters, finalized, interfered)

LEMMA FreeIsKeeping ==
    ASSUME NEW p, NEW b, Free(p, rounds, iters, finalized, b)
    PROVE  Keeping(p, b)
BY FreeKeepsPromises DEF Keeping

\* What a last read leads to.
LEMMA LastReadIsPromising ==
    ASSUME StepsInv, StatusInv, NEW h \in Busy, Current(h).op \in LastReads,
           UNCHANGED tables, overrides' = overrides,
           NEW S, NEW p \in Seq(S), Proceed(h, p), Keeping(p, overrides # 0)
    PROVE  Promising(h)
<1> DEFINE w == [work[h] EXCEPT !.todo = p \o Rest(h)]
<1>1. h \in Threads /\ work[h] \in Handlers /\ Rest(h) = <<>>
  BY BusyFits, RestContinues
<1>2. p \o Rest(h) = p
  BY <1>1
<1>3. w.todo = p /\ work' = [work EXCEPT ![h] = Resting(w)]
  BY <1>1, <1>2 DEF Handlers, Proceed
<1> HIDE DEF w
<1>4. KeepsPromises(w, rounds, iters, finalized, overrides # 0)
  BY <1>3 DEF Keeping
<1>5. UNCHANGED <<rounds, iters, finalized>> /\ session' = session
  BY DEF tables
<1> QED
  BY <1>1, <1>3, <1>4, <1>5, ListIsPromising

LEMMA TupleSets ==
    /\ \A S : <<>> \in Seq(S)
    /\ \A a : <<a>> \in Seq({a})
    /\ \A a, b : <<a, b>> \in Seq({a, b})
OBVIOUS

\* One or two statements that rely on nothing, or on what is there.
LEMMA FewArePromising ==
    ASSUME StepsInv, StatusInv, NEW h \in Busy, Current(h).op \in LastReads,
           UNCHANGED tables, overrides' = overrides, NEW a, NEW b,
           \/ Proceed(h, <<>>)
           \/ Proceed(h, <<a>>) /\ Founded(a, rounds, iters, finalized, overrides # 0)
           \/ /\ Proceed(h, <<a, b>>)
              /\ Founded(a, rounds, iters, finalized, overrides # 0)
              /\ Founded(b, rounds, iters, finalized, overrides # 0)
    PROVE  Promising(h)
<1>1. CASE Proceed(h, <<>>)
  BY <1>1, FreeLists, FreeIsKeeping, TupleSets, LastReadIsPromising
<1>2. CASE Proceed(h, <<a>>) /\ Founded(a, rounds, iters, finalized, overrides # 0)
  BY <1>2, FreeLists, FreeIsKeeping, TupleSets, LastReadIsPromising
<1>3. CASE /\ Proceed(h, <<a, b>>)
           /\ Founded(a, rounds, iters, finalized, overrides # 0)
           /\ Founded(b, rounds, iters, finalized, overrides # 0)
  BY <1>3, FreeLists, FreeIsKeeping, TupleSets, LastReadIsPromising
<1> QED
  BY <1>1, <1>2, <1>3

LEMMA AbandonedIsPromising ==
    ASSUME StepsInv, StatusInv, NEW h \in Busy, Abandon(h), UNCHANGED tables,
           overrides' = overrides
    PROVE  Promising(h)
<1>1. h \in Threads /\ Resting(Idle) = Idle /\ Len(Idle.todo) = 0
  BY DEF Busy, Resting, Idle
<1>2. KeepsPromises(Idle, rounds, iters, finalized, overrides' # 0)
  BY <1>1 DEF KeepsPromises
<1>3. UNCHANGED <<rounds, iters, finalized>> /\ session' = session
  BY DEF tables
<1>4. work' = [work EXCEPT ![h] = Resting(Idle)]
  BY <1>1 DEF Abandon
<1> QED
  BY <1>1, <1>2, <1>3, <1>4, ListIsPromising

\* A read that leads to one statement and goes on behind it.
LEMMA ReplacedIsPromising ==
    ASSUME StepsInv, StatusInv, NEW h \in Busy, UNCHANGED tables, overrides' = overrides,
           NEW s, Proceed(h, <<s>>), s.op \in {"insert", "set_round"},
           Current(h).op # "open_round",
           \A c \in Claims : Makes(c, work[h], 1, rounds) =>
               \/ Holds(c, rounds, iters, finalized)
               \/ s.op \in {"number", "insert"} /\ s.round = New /\ c.what = "asked"
    PROVE  Promising(h)
<1> DEFINE w == [work[h] EXCEPT !.todo = <<s>> \o Rest(h)]
<1>1. /\ h \in Threads /\ work[h] \in Handlers /\ work[h].todo # <<>>
      /\ work[h].todo \in Seq(Statement) /\ Current(h) = work[h].todo[1]
  BY BusyFits DEF Handlers
<1>2. /\ w.todo = <<s>> \o Tail(work[h].todo) /\ w.made = work[h].made
      /\ work' = [work EXCEPT ![h] = Resting(w)]
  BY <1>1 DEF Handlers, Proceed, Rest
<1> HIDE DEF w
<1>3. KeepsPromises(work[h], rounds, iters, finalized, overrides # 0)
  BY <1>1 DEF StatusInv
<1>4. KeepsPromises(w, rounds, iters, finalized, overrides # 0)
  BY <1>1, <1>2, <1>3, HeadReplaced
<1>5. UNCHANGED <<rounds, iters, finalized>> /\ session' = session
  BY DEF tables
<1> QED
  BY <1>1, <1>2, <1>4, <1>5, ListIsPromising

LEMMA CheckIsPromising ==
    ASSUME StepsInv, StatusInv, NEW h \in Busy, Check(h), UNCHANGED tables, overrides' = overrides
    PROVE  Promising(h)
<1>1. CASE Abandon(h)
  BY <1>1, AbandonedIsPromising
<1>2. CASE Proceed(h, <<>>)
  <2>1. Current(h).op = "check"
    BY DEF Check, At
  <2>2. UNCHANGED <<session, rounds, iters, reviews, skipped, finalized>>
    BY DEF tables
  <2> QED
    BY <1>2, <2>1, <2>2, RewriteIsPromising
<1> QED
  BY <1>1, <1>2 DEF Check

LEMMA NumberIsPromising ==
    ASSUME StepsInv, StatusInv, NEW h \in Busy, Number(h), UNCHANGED tables,
           overrides' = overrides
    PROVE  Promising(h)
<1> DEFINE s == Current(h)
<1>1. s.op = "number" /\ \E n : Proceed(h, <<InsertStmt(s.round, n, s.src, s.dst, s.input)>>)
  BY DEF Number, At
<1>2. PICK n : Proceed(h, <<InsertStmt(s.round, n, s.src, s.dst, s.input)>>)
  BY <1>1
<1> DEFINE u == InsertStmt(s.round, n, s.src, s.dst, s.input)
<1>3. u.op = "insert" /\ u.round = s.round /\ Proceed(h, <<u>>)
  BY <1>2 DEF InsertStmt
<1>4. s = work[h].todo[1]
  BY BusyFits
<1> HIDE DEF u
<1>5. ASSUME NEW c \in Claims, Makes(c, work[h], 1, rounds)
      PROVE  u.op \in {"number", "insert"} /\ u.round = New /\ c.what = "asked"
  <2>1. c # Begun /\ c # Concluded
    BY <1>1, <1>4, <1>5, ClaimsAreMade
  <2>2. c.what = "asked"
    BY <2>1, ClaimIsOneOf DEF Asked
  <2>3. s.round = New
    BY <1>4, <1>5, <2>2 DEF Makes
  <2> QED
    BY <1>3, <2>2, <2>3
<1> QED
  BY <1>1, <1>3, <1>5, ReplacedIsPromising

LEMMA CloseIsPromising ==
    ASSUME StepsInv, StatusInv, NEW h \in Busy, Close(h), UNCHANGED tables,
           overrides' = overrides
    PROVE  Promising(h)
<1> DEFINE r == Current(h).about
<1>1. Current(h).op = "close"
  BY DEF Close, At
<1>2. PICK t \in Ordered(r) :
          IF Answered(t, r) = {} THEN Abandon(h)
          ELSE Proceed(h, <<SetRoundStmt(r, "converged", t[LatestAnswered(t, r)].output)>>)
  BY DEF Close
<1>3. CASE Answered(t, r) = {}
  BY <1>2, <1>3, AbandonedIsPromising
<1>4. CASE Answered(t, r) # {}
  <2> DEFINE s == SetRoundStmt(r, "converged", t[LatestAnswered(t, r)].output)
  <2>1. s.op = "set_round" /\ Proceed(h, <<s>>)
    BY <1>2, <1>4 DEF SetRoundStmt
  <2>2. iters # <<>>
    <3>1. DOMAIN t # {}
      BY <1>4 DEF Answered, IterationsOf
    <3>2. PICK q \in [1..Cardinality(IterationsOf(iters, r)) -> IterationsOf(iters, r)] :
              t = [k \in DOMAIN q |-> iters[q[k]]]
      BY <1>2 DEF Ordered
    <3>3. PICK k : k \in DOMAIN q
      BY <3>1, <3>2
    <3>4. q[k] \in DOMAIN iters
      BY <3>2, <3>3 DEF IterationsOf
    <3> QED
      BY <3>4
  <2> HIDE DEF s
  <2>3. ASSUME NEW c \in Claims, Makes(c, work[h], 1, rounds)
        PROVE  Holds(c, rounds, iters, finalized)
    <3>1. work[h].todo[1].op = "close"
      BY <1>1, BusyFits
    <3>2. c = Begun
      <4>1. CASE c = Concluded
        BY <2>3, <3>1, <4>1, ClaimsAreMade
      <4>2. CASE \E K : c = Asked(K)
        <5>1. c.what = "asked"
          BY <4>2 DEF Asked
        <5> QED
          BY <2>3, <3>1, <5>1 DEF Makes
      <4> QED
        BY <4>1, <4>2, ClaimIsOneOf
    <3> QED
      BY <2>2, <3>2, ClaimsSay
  <2> QED
    BY <1>1, <2>1, <2>3, ReplacedIsPromising
<1> QED
  BY <1>3, <1>4

\* A new round and its requests, announced last.
LEMMA SpawnIsKeeping ==
    ASSUME NEW b, iters # <<>>, NEW type \in RoundTypes, type # "same_host_pair",
           NEW requests, Requests(requests),
           NEW last, \/ last = <<>>
                     \/ /\ requests # <<>>
                        /\ \E status \in SessionStatuses \cap DOMAIN Announced :
                               last = <<SetSessionStmt(status)>> /\ Announced[status] = type
    PROVE  Keeping(Spawn(type, None, requests, last), b)
<1> DEFINE p == Spawn(type, None, requests, last)
           a == OpenRoundStmt(type, None)
           d == SetRoundStmt(New, "in_progress", None)
           n == Len(requests)
<1>1. /\ a \in Statement /\ a.op = "open_round" /\ Kind(a) \in {type} \X Places
      /\ d \in Statement /\ d.op = "set_round"
  BY OpenRoundIsStatement, SetRoundIsStatement
     DEF OpenRoundStmt, SetRoundStmt, RoundStatuses, New, Kind, Places
<1>2. /\ requests \in Seq(Statement) /\ n \in Nat
      /\ \A k \in 1..n : requests[k].op = "number" /\ requests[k].round = New
  BY DEF Requests
<1>3. last \in Seq(Statement)
  <2>1. CASE last = <<>>
    BY <2>1
  <2>2. CASE last # <<>>
    <3>1. PICK status \in SessionStatuses : last = <<SetSessionStmt(status)>>
      BY <2>2
    <3>2. SetSessionStmt(status) \in Statement
      BY SessionStatements
    <3> QED
      BY <3>1, <3>2
  <2> QED
    BY <2>1, <2>2
<1>4. p = (<<a, d>> \o requests) \o last
  BY DEF Spawn
<1> HIDE DEF a, d, p
<1> DEFINE q == <<a, d>> \o requests
<1>5. <<a, d>> \in Seq(Statement) /\ Len(<<a, d>>) = 2 /\ <<a, d>>[1] = a /\ <<a, d>>[2] = d
  BY <1>1
<1>6. /\ q \in Seq(Statement) /\ Len(q) = 2 + n
      /\ \A k \in 1..(2 + n) : q[k] = IF k <= 2 THEN <<a, d>>[k] ELSE requests[k - 2]
  BY <1>2, <1>5, ConcatProperties
<1>7. q[1] = a /\ q[2] = d /\ \A k \in 3..(2 + n) : q[k] = requests[k - 2]
  BY <1>2, <1>5, <1>6
<1> HIDE DEF q
<1>8. /\ Len(p) = (2 + n) + Len(last)
      /\ \A k \in 1..(2 + n) : p[k] = q[k]
      /\ last # <<>> => Len(last) = 1 /\ p[3 + n] = last[1]
  <2>1. p = q \o last /\ Len(last) \in Nat
    BY <1>3, <1>4 DEF q
  <2>2. /\ Len(p) = Len(q) + Len(last)
        /\ \A k \in 1..(Len(q) + Len(last)) :
               p[k] = IF k <= Len(q) THEN q[k] ELSE last[k - Len(q)]
    BY <1>3, <1>6, <2>1, ConcatProperties
  <2>3. last # <<>> => Len(last) = 1
    OBVIOUS
  <2>4. last # <<>> => p[3 + n] = last[1]
    <3> SUFFICES ASSUME last # <<>>
                 PROVE  p[3 + n] = last[1]
      OBVIOUS
    <3>1. /\ 3 + n \in 1..(Len(q) + Len(last)) /\ ~(3 + n <= Len(q))
          /\ (3 + n) - Len(q) = 1
      BY <1>2, <1>6, <2>3
    <3> QED
      BY <2>2, <3>1
  <2> QED
    BY <1>2, <1>6, <2>1, <2>2, <2>3, <2>4
<1>9. ASSUME NEW k \in 1..(2 + n)
      PROVE  Founded(p[k], rounds, iters, finalized, b)
  <2>1. CASE k = 1
    BY <1>1, <1>7, <1>8, <2>1, SoundStatements
  <2>2. CASE k = 2
    BY <1>1, <1>7, <1>8, <2>2, SoundStatements DEF Carefree
  <2>3. CASE k > 2
    <3>1. k \in 3..(2 + n) /\ k - 2 \in 1..n
      BY <1>2, <2>3
    <3>2. p[k].op = "number"
      BY <1>2, <1>7, <1>8, <3>1
    <3> QED
      BY <3>2, SoundStatements DEF Carefree
  <2> QED
    BY <1>2, <2>1, <2>2, <2>3
<1>10. ASSUME NEW w, w.todo = p
       PROVE  KeepsPromises(w, rounds, iters, finalized, b)
  <2> SUFFICES ASSUME NEW k \in 1..Len(w.todo), NEW c \in Claims, ReliesOn(w.todo[k], c, b)
               PROVE  \/ Holds(c, rounds, iters, finalized)
                      \/ \E j \in 1..(k - 1) : Makes(c, w, j, rounds)
    BY DEF KeepsPromises
  <2>1. CASE k <= 2 + n
    <3>1. k \in 1..(2 + n)
      BY <1>2, <2>1
    <3> QED
      BY <1>9, <1>10, <3>1 DEF Founded
  <2>2. CASE k > 2 + n
    <3>1. last # <<>> /\ k = 3 + n /\ w.todo[k] = last[1]
      <4>1. k \in Nat /\ k <= (2 + n) + Len(last) /\ w.todo = p
        BY <1>8, <1>10
      <4>2. last # <<>>
        BY <1>2, <2>2, <4>1
      <4>3. k = 3 + n
        <5>1. Len(last) = 1
          BY <1>8, <4>2
        <5> HIDE DEF n
        <5> QED
          BY <1>2, <2>2, <4>1, <5>1
      <4> QED
        BY <1>8, <4>1, <4>2, <4>3
    <3>2. PICK status \in DOMAIN Announced :
              last = <<SetSessionStmt(status)>> /\ Announced[status] = type
      BY <3>1
    <3>3. w.todo[k].op = "set_session" /\ w.todo[k].status = status /\ status # "round_1"
      BY <3>1, <3>2 DEF SetSessionStmt, Announced
    <3>4. DOMAIN Announced = {"round_1", "round_2", "round_3", "executing"}
      BY DEF Announced
    <3>5. c = Stage(type)
      BY <3>2, <3>3, <3>4 DEF ReliesOn, AfterRequests
    <3>6. n >= 1 /\ 3 \in 1..(k - 1)
      BY <1>2, <3>1
    <3>7. w.todo[3] = requests[1] /\ w.todo[2] = d /\ w.todo[1] = a
      <4>1. 3 \in 3..(2 + n) /\ 3 - 2 = 1
        BY <1>2, <3>6
      <4>2. q[3] = requests[1]
        BY <1>7, <4>1
      <4> QED
        BY <1>2, <1>7, <1>8, <1>10, <3>6, <4>2
    <3>8. Concerns(w, 3, {type} \X Places, rounds)
      <4>1. 1 \in 1..(3 - 1) /\ (1 + 1)..(3 - 1) = {2}
        OBVIOUS
      <4> QED
        BY <1>1, <3>7, <4>1 DEF Concerns
    <3>9. Makes(c, w, 3, rounds)
      <4>1. w.todo[3].op = "number" /\ w.todo[3].round = New
        BY <1>2, <3>6, <3>7
      <4> QED
        BY <3>5, <3>8, <4>1, ClaimsAreMade DEF Stage
    <3> QED
      BY <3>6, <3>9
  <2> QED
    BY <1>2, <1>8, <1>10, <2>1, <2>2
<1> QED
  BY <1>10 DEF Keeping, p

\* The list that opens the pairs: three statements for each host, and the
\* announcement if no host was left out.
LEMMA SpawnPairsList ==
    ASSUME NEW input
    PROVE  LET n == Cardinality(ReadyHosts)
               p == SpawnPairs(input)
           IN  /\ n \in Nat /\ n <= Len(HostOrder)
               /\ \E S : p \in Seq(S)
               /\ Len(p) = IF n = Len(HostOrder) THEN 3 * n + 1 ELSE 3 * n
               /\ \A q \in 1..n :
                      /\ p[3 * q - 2] = OpenRoundStmt("same_host_pair", HostOrder[q])
                      /\ p[3 * q - 1].op = "set_round" /\ p[3 * q - 1].round = New
                      /\ p[3 * q - 1].status = "in_progress" /\ p[3 * q - 1].outcome = None
                      /\ p[3 * q].op = "number" /\ p[3 * q].round = New
               /\ n = Len(HostOrder) => p[3 * n + 1] = SetSessionStmt("round_1")
<1> DEFINE n == Cardinality(ReadyHosts)
           host(k) == HostOrder[(k + 2) \div 3]
           stmt(k) ==
               CASE k % 3 = 1 -> OpenRoundStmt("same_host_pair", host(k))
                 [] k % 3 = 2 -> SetRoundStmt(New, "in_progress", None)
                 [] OTHER -> NumberStmt(New, None, Workers[host(k)][1], input)
           f == [k \in 1..(3 * n) |-> stmt(k)]
           announced == SetSessionStmt("round_1")
           last == IF n = Len(HostOrder) THEN <<announced>> ELSE <<>>
           S == {f[k] : k \in 1..(3 * n)} \cup {announced}
           p == SpawnPairs(input)
<1>1. p = f \o last
  BY Zenon DEF SpawnPairs
<1>2. n \in Nat /\ n <= Len(HostOrder) /\ Len(HostOrder) \in Nat
  BY ReadyHostsArePrefix, RegistryAssumption
<1>3. ASSUME NEW q \in 1..n
      PROVE  /\ 3 * q - 2 \in 1..(3 * n) /\ f[3 * q - 2] = OpenRoundStmt("same_host_pair", HostOrder[q])
             /\ 3 * q - 1 \in 1..(3 * n) /\ f[3 * q - 1] = SetRoundStmt(New, "in_progress", None)
             /\ 3 * q \in 1..(3 * n) /\ f[3 * q] = NumberStmt(New, None, Workers[host(3 * q)][1], input)
  <2>1. /\ 3 * q - 2 \in 1..(3 * n) /\ 3 * q - 1 \in 1..(3 * n) /\ 3 * q \in 1..(3 * n)
        /\ (3 * q - 2) % 3 = 1 /\ (3 * q - 1) % 3 = 2 /\ (3 * q) % 3 = 0
        /\ ((3 * q - 2) + 2) \div 3 = q
    BY <1>2
  <2>2. host(3 * q - 2) = HostOrder[q]
    BY <2>1
  <2> HIDE DEF host
  <2>3. f[3 * q - 2] = OpenRoundStmt("same_host_pair", HostOrder[q])
    <3>1. f[3 * q - 2] = stmt(3 * q - 2)
      BY <2>1
    <3> QED
      BY <2>1, <2>2, <3>1
  <2>4. f[3 * q - 1] = SetRoundStmt(New, "in_progress", None)
    <3>1. f[3 * q - 1] = stmt(3 * q - 1)
      BY <2>1
    <3> QED
      BY <2>1, <3>1
  <2>5. f[3 * q] = NumberStmt(New, None, Workers[host(3 * q)][1], input)
    <3>1. f[3 * q] = stmt(3 * q)
      BY <2>1
    <3>2. (3 * q) % 3 # 1 /\ (3 * q) % 3 # 2
      BY <2>1
    <3>3. stmt(3 * q) = NumberStmt(New, None, Workers[host(3 * q)][1], input)
      BY <3>2, Zenon
    <3> HIDE DEF f, stmt
    <3> QED
      BY <3>1, <3>3
  <2> QED
    BY <2>1, <2>3, <2>4, <2>5
<1>4. f \in Seq(S) /\ last \in Seq(S) /\ Len(f) = 3 * n
  <2> HIDE DEF stmt, announced
  <2>1. \A k \in 1..(3 * n) : f[k] \in S
    OBVIOUS
  <2>2. f \in [1..(3 * n) -> S] /\ 3 * n \in Nat
    <3>1. DOMAIN f = 1..(3 * n)
      OBVIOUS
    <3>2. f = [k \in 1..(3 * n) |-> f[k]]
      OBVIOUS
    <3> HIDE DEF f, S
    <3> QED
      BY <1>2, <2>1, <3>1, <3>2
  <2>3. announced \in S
    OBVIOUS
  <2> HIDE DEF f, S
  <2> QED
    BY <2>2, <2>3
<1> HIDE DEF f, S
<1>5. Len(last) = IF n = Len(HostOrder) THEN 1 ELSE 0
  OBVIOUS
<1>6. n = Len(HostOrder) => last[1] = announced
  OBVIOUS
<1> HIDE DEF last, announced, p, n
<1>7. /\ p \in Seq(S) /\ Len(p) = 3 * n + Len(last)
      /\ \A k \in 1..(3 * n + Len(last)) : p[k] = IF k <= 3 * n THEN f[k] ELSE last[k - 3 * n]
  BY <1>1, <1>4, ConcatProperties
<1>8. \A k \in 1..(3 * n) : p[k] = f[k]
  <2>1. Len(last) \in Nat
    BY <1>5
  <2> QED
    BY <1>2, <1>7, <2>1
<1>9. ASSUME NEW q \in 1..n
      PROVE  /\ p[3 * q - 2] = OpenRoundStmt("same_host_pair", HostOrder[q])
             /\ p[3 * q - 1].op = "set_round" /\ p[3 * q - 1].round = New
             /\ p[3 * q - 1].status = "in_progress" /\ p[3 * q - 1].outcome = None
             /\ p[3 * q].op = "number" /\ p[3 * q].round = New
  <2>1. /\ p[3 * q - 2] = f[3 * q - 2] /\ p[3 * q - 1] = f[3 * q - 1] /\ p[3 * q] = f[3 * q]
    BY <1>3, <1>8
  <2> HIDE DEF host
  <2>2. p[3 * q - 2] = OpenRoundStmt("same_host_pair", HostOrder[q])
    BY <1>3, <2>1
  <2>3. /\ p[3 * q - 1].op = "set_round" /\ p[3 * q - 1].round = New
        /\ p[3 * q - 1].status = "in_progress" /\ p[3 * q - 1].outcome = None
    <3>1. p[3 * q - 1] = SetRoundStmt(New, "in_progress", None)
      BY <1>3, <2>1
    <3> QED
      BY <3>1 DEF SetRoundStmt
  <2>4. p[3 * q].op = "number" /\ p[3 * q].round = New
    <3>1. PICK a : p[3 * q] = NumberStmt(New, None, a, input)
      BY <1>3, <2>1
    <3> QED
      BY <3>1 DEF NumberStmt
  <2> QED
    BY <2>2, <2>3, <2>4
<1>10. n = Len(HostOrder) => p[3 * n + 1] = announced
  <2> SUFFICES ASSUME n = Len(HostOrder)
               PROVE  p[3 * n + 1] = announced
    OBVIOUS
  <2>1. Len(last) = 1 /\ last[1] = announced
    BY <1>5, <1>6
  <2>2. 3 * n + 1 \in 1..(3 * n + Len(last)) /\ ~(3 * n + 1 <= 3 * n) /\ (3 * n + 1) - 3 * n = 1
    BY <1>2, <2>1
  <2> QED
    BY <1>7, <2>1, <2>2
<1>11. Len(p) = IF n = Len(HostOrder) THEN 3 * n + 1 ELSE 3 * n
  BY <1>2, <1>5, <1>7
<1> QED
  BY <1>2, <1>7, <1>9, <1>10, <1>11 DEF n, p, announced

LEMMA SpawnPairsIsKeeping ==
    ASSUME NEW input, NEW b, HostOrder # <<>> \/ Asks(PairKinds, rounds, iters)
    PROVE  /\ Keeping(SpawnPairs(input), b)
           /\ \E S : SpawnPairs(input) \in Seq(S)
<1> DEFINE n == Cardinality(ReadyHosts)
           p == SpawnPairs(input)
<1>1. /\ n \in Nat /\ n <= Len(HostOrder) /\ Len(HostOrder) \in Nat
      /\ \E S : p \in Seq(S)
      /\ Len(p) = IF n = Len(HostOrder) THEN 3 * n + 1 ELSE 3 * n
  <2>1. Len(HostOrder) \in Nat
    BY RegistryAssumption
  <2>2. n \in Nat /\ n <= Len(HostOrder)
    BY SpawnPairsList
  <2>3. \E S : p \in Seq(S)
    BY SpawnPairsList, Zenon
  <2>4. Len(p) = IF n = Len(HostOrder) THEN 3 * n + 1 ELSE 3 * n
    BY SpawnPairsList, Zenon
  <2> QED
    BY <2>1, <2>2, <2>3, <2>4
<1>2. ASSUME NEW q \in 1..n
      PROVE  /\ p[3 * q - 2] = OpenRoundStmt("same_host_pair", HostOrder[q])
             /\ p[3 * q - 1].op = "set_round"
             /\ p[3 * q].op = "number" /\ p[3 * q].round = New
  BY SpawnPairsList
<1>3. n = Len(HostOrder) => p[3 * n + 1] = SetSessionStmt("round_1")
  BY SpawnPairsList
<1> HIDE DEF n, p
<1>4. ASSUME NEW k \in 1..(3 * n)
      PROVE  Founded(p[k], rounds, iters, finalized, b)
  <2>1. PICK q \in 1..n : k = 3 * q - 2 \/ k = 3 * q - 1 \/ k = 3 * q
    <3>1. /\ (k + 2) \div 3 \in 1..n
          /\ \/ k = 3 * ((k + 2) \div 3) - 2
             \/ k = 3 * ((k + 2) \div 3) - 1
             \/ k = 3 * ((k + 2) \div 3)
      BY <1>1
    <3> QED
      BY <3>1
  <2>2. CASE k = 3 * q - 2
    <3>1. p[k] = OpenRoundStmt("same_host_pair", HostOrder[q])
      BY <1>2, <2>2
    <3>2. p[k].op = "open_round" /\ p[k].type = "same_host_pair"
      BY <3>1 DEF OpenRoundStmt
    <3> QED
      BY <3>2, SoundStatements
  <2>3. CASE k = 3 * q - 1 \/ k = 3 * q
    <3>1. p[k].op \in Carefree
      BY <1>2, <2>3 DEF Carefree
    <3> QED
      BY <3>1, SoundStatements
  <2> QED
    BY <2>1, <2>2, <2>3
<1>5. ASSUME NEW w, w.todo = p, n = Len(HostOrder), NEW q \in 1..n,
             NEW K, <<"same_host_pair", HostOrder[q]>> \in K
      PROVE  \E j \in 1..(3 * n) : Makes(Asked(K), w, j, rounds)
  <2>1. /\ 3 * q - 2 \in 1..(3 * q - 1) /\ (3 * q - 2) + 1 = 3 * q - 1 /\ 3 * q \in 1..(3 * n)
        /\ ((3 * q - 2) + 1)..(3 * q - 1) = {3 * q - 1}
    BY <1>1
  <2>2. w.todo[3 * q - 2].op = "open_round" /\ Kind(w.todo[3 * q - 2]) \in K
    <3>1. w.todo[3 * q - 2] = OpenRoundStmt("same_host_pair", HostOrder[q])
      BY <1>2, <1>5
    <3> QED
      BY <1>5, <3>1 DEF OpenRoundStmt, Kind
  <2>3. w.todo[3 * q - 1].op # "open_round" /\ w.todo[3 * q].op = "number"
        /\ w.todo[3 * q].round = New
    BY <1>2, <1>5
  <2>4. \A m \in ((3 * q - 2) + 1)..(3 * q - 1) : w.todo[m].op # "open_round"
    BY <2>1, <2>3
  <2>5. Concerns(w, 3 * q, K, rounds)
    BY <2>1, <2>2, <2>4 DEF Concerns
  <2> QED
    BY <2>1, <2>3, <2>5, ClaimsAreMade
<1>6. ASSUME NEW w, w.todo = p
      PROVE  KeepsPromises(w, rounds, iters, finalized, b)
  <2> SUFFICES ASSUME NEW k \in 1..Len(w.todo), NEW c \in Claims, ReliesOn(w.todo[k], c, b)
               PROVE  \/ Holds(c, rounds, iters, finalized)
                      \/ \E j \in 1..(k - 1) : Makes(c, w, j, rounds)
    BY DEF KeepsPromises
  <2>1. CASE k \in 1..(3 * n)
    BY <1>4, <1>6, <2>1 DEF Founded
  <2>2. CASE k \notin 1..(3 * n)
    <3>1. n = Len(HostOrder) /\ k = 3 * n + 1 /\ 1..(k - 1) = 1..(3 * n)
      <4>1. k \in 1..Len(p)
        BY <1>6
      <4>2. k > 3 * n /\ k <= Len(p) /\ k \in Nat
        BY <1>1, <2>2, <4>1
      <4>3. n = Len(HostOrder)
        BY <1>1, <4>2
      <4> QED
        BY <1>1, <4>2, <4>3
    <3>2. w.todo[k].op = "set_session" /\ w.todo[k].status = "round_1"
      BY <1>3, <1>6, <3>1 DEF SetSessionStmt
    <3>3. c = Stage("same_host_pair") \/ \E host \in Hosts : c = PairOn(host)
      BY <3>2 DEF ReliesOn, AfterRequests, Announced
    <3>4. CASE c = Stage("same_host_pair")
      <4>1. c = Asked(PairKinds)
        BY <3>4 DEF Stage, PairKinds
      <4>2. CASE Asks(PairKinds, rounds, iters)
        BY <4>1, <4>2, ClaimsSay
      <4>3. CASE HostOrder # <<>>
        <5>1. 1 \in 1..n /\ HostOrder[1] \in Hosts
          BY <1>1, <3>1, <4>3, RegistryAssumption
        <5>2. <<"same_host_pair", HostOrder[1]>> \in PairKinds
          BY <5>1 DEF PairKinds, Places
        <5>3. \E j \in 1..(3 * n) : Makes(Asked(PairKinds), w, j, rounds)
          BY <1>5, <1>6, <3>1, <5>1, <5>2
        <5> QED
          BY <3>1, <4>1, <5>3
      <4> QED
        BY <4>2, <4>3
    <3>5. CASE \E host \in Hosts : c = PairOn(host)
      <4>1. PICK host \in Hosts : c = PairOn(host)
        BY <3>5
      <4>2. PICK q \in 1..n : HostOrder[q] = host
        BY <1>1, <3>1, <4>1, RegistryAssumption DEF Hosts, Elements
      <4>3. \E j \in 1..(3 * n) : Makes(c, w, j, rounds)
        BY <1>5, <1>6, <3>1, <4>1, <4>2 DEF PairOn
      <4> QED
        BY <3>1, <4>3
    <3> QED
      BY <3>3, <3>4, <3>5
  <2> QED
    BY <2>1, <2>2
<1> QED
  BY <1>1, <1>6 DEF Keeping, p

LEMMA SpawnIsPromising ==
    ASSUME StepsInv, StatusInv, NEW h \in Busy, Current(h).op \in LastReads \cap AfterRequests,
           UNCHANGED tables, overrides' = overrides,
           NEW type \in RoundTypes, type # "same_host_pair",
           NEW requests, Requests(requests),
           NEW last, \/ last = <<>>
                     \/ /\ requests # <<>>
                        /\ \E status \in SessionStatuses \cap DOMAIN Announced :
                               last = <<SetSessionStmt(status)>> /\ Announced[status] = type,
           Proceed(h, Spawn(type, None, requests, last))
    PROVE  Promising(h)
<1> DEFINE p == Spawn(type, None, requests, last)
<1>1. iters # <<>>
  BY BegunBefore
<1>2. Keeping(p, overrides # 0)
  BY <1>1, SpawnIsKeeping
<1>3. p \in Seq(Statement)
  <2>1. last = <<>> \/ \E status \in SessionStatuses : last = <<SetSessionStmt(status)>>
    OBVIOUS
  <2>2. Plan(p, rounds, iters, overtaken)
    BY <2>1, SpawnPlan
  <2> QED
    BY <2>2 DEF Plan
<1>4. Proceed(h, p)
  OBVIOUS
<1> HIDE DEF p
<1> QED
  BY <1>2, <1>3, <1>4, LastReadIsPromising

LEMMA ArbitrationIsPromising ==
    ASSUME StepsInv, StatusInv, NEW h \in Busy, Current(h).op \in LastReads \cap AfterRequests,
           UNCHANGED tables, overrides' = overrides,
           NEW input \in Inputs, Proceed(h, SpawnArbitration(input))
    PROVE  Promising(h)
<1> DEFINE s == NumberStmt(New, None, Arbitrator, input)
<1>1. s \in Statement /\ s.op = "number" /\ s.round = New
  BY NumberIsStatement DEF NumberStmt, Agents, New
<1>2. Proceed(h, Spawn("cross_host_arbitration", None, <<s>>, <<SetSessionStmt("round_2")>>))
  BY DEF SpawnArbitration, Ask
<1> HIDE DEF s
<1>3. Requests(<<s>>) /\ <<s>> # <<>>
  BY <1>1 DEF Requests
<1>4. /\ "cross_host_arbitration" \in RoundTypes
      /\ "cross_host_arbitration" # "same_host_pair"
      /\ "round_2" \in SessionStatuses \cap DOMAIN Announced
      /\ Announced["round_2"] = "cross_host_arbitration"
  BY DEF RoundTypes, SessionStatuses, Announced
<1> QED
  BY <1>2, <1>3, <1>4, SpawnIsPromising

LEMMA ToArbitrationIsPromising ==
    ASSUME StepsInv, StatusInv, NEW h \in Busy, Reconcile(h) \/ Arbitrate(h) \/ Mediate(h),
           UNCHANGED tables, overrides' = overrides
    PROVE  Promising(h)
<1>1. Current(h).op \in LastReads \cap AfterRequests
  BY DEF Reconcile, Arbitrate, Mediate, At, LastReads, AfterRequests
<1>2. ArbitratorInput(RoundOutcomesPerHost(rounds)) \in Inputs
  BY InvTables, OutcomesAreInput DEF StepsInv
<1>3. Founded(SetSessionStmt("escalated"), rounds, iters, finalized, overrides # 0)
  <2> DEFINE s == SetSessionStmt("escalated")
  <2>1. s.op = "set_session" /\ s.status = "escalated"
    BY DEF SetSessionStmt
  <2>2. iters # <<>>
    BY <1>1, BegunBefore
  <2> HIDE DEF s
  <2>3. Founded(s, rounds, iters, finalized, overrides # 0)
    BY <2>1, <2>2, SoundStatuses
  <2> QED
    BY <2>3 DEF s
<1>4. CASE Reconcile(h) \/ Arbitrate(h)
  <2>1. \/ Proceed(h, <<SetSessionStmt("escalated")>>)
        \/ Proceed(h, SpawnArbitration(ArbitratorInput(RoundOutcomesPerHost(rounds))))
    BY <1>4 DEF Reconcile, Arbitrate
  <2> QED
    BY <1>1, <1>2, <1>3, <2>1, FewArePromising, ArbitrationIsPromising
<1>5. CASE Mediate(h)
  <2> DEFINE input == MediationInput(Round2Outcome(rounds), Current(h).about)
  <2>1. Current(h) \in Statement /\ Current(h).op = "mediate" /\ Proceed(h, SpawnArbitration(input))
    BY <1>5, BusyFits DEF Mediate, At
  <2>2. Current(h).about \in SUBSET Agents
    BY <2>1, ReadFields
  <2>3. Round2Outcome(rounds) \in Texts \cup {None}
    BY InvTables, Round2OutcomeIsText
  <2>4. input \in Inputs
    BY <2>2, <2>3 DEF Inputs
  <2> HIDE DEF input
  <2> QED
    BY <1>1, <2>1, <2>4, ArbitrationIsPromising
<1> QED
  BY <1>4, <1>5

LEMMA AdvanceIsPromising ==
    ASSUME StepsInv, StatusInv, NEW h \in Busy, Advance(h), UNCHANGED tables,
           overrides' = overrides
    PROVE  Promising(h)
<1>1. Current(h).op \in LastReads \cap AfterRequests
  BY DEF Advance, At, LastReads, AfterRequests
<1>2. iters # <<>>
  BY <1>1, BegunBefore
<1> DEFINE r == Current(h).about
           good(s) == Founded(s, rounds, iters, finalized, overrides # 0)
           escalated == SetSessionStmt("escalated")
           next == ReadStmt("maybe_advance", None)
<1>3. /\ good(escalated) /\ good(next)
      /\ \A status, outcome : good(SetRoundStmt(r, status, outcome))
      /\ \A src, dst, input : good(NumberStmt(r, src, dst, input))
  <2>1. \A s : s.op \in Carefree \/ s.op \in AfterRequests => good(s)
    BY <1>2, SoundStatements
  <2>2. \A s : s.op = "set_session" /\ s.status = "escalated" => good(s)
    BY <1>2, SoundStatuses
  <2> HIDE DEF good
  <2> QED
    BY <2>1, <2>2
       DEF SetSessionStmt, ReadStmt, SetRoundStmt, NumberStmt, Carefree, AfterRequests
<1>4. PICK t \in Ordered(r) :
          LET last == t[LatestAnswered(t, r)]
          IN  \/ Proceed(h, <<SetRoundStmt(r, "escalated", None), escalated>>)
              \/ Proceed(h, <<SetRoundStmt(r, "converged", last.output), next>>)
              \/ Proceed(h, Ask(r, last.dst, OtherAgentOnHost(rounds[r].host, last.dst),
                                Draft(last.output)))
  BY DEF Advance
<1>5. \E a, b :
          \/ Proceed(h, <<a>>) /\ good(a)
          \/ Proceed(h, <<a, b>>) /\ good(a) /\ good(b)
  <2> HIDE DEF good, escalated, next, r
  <2> QED
    BY <1>3, <1>4 DEF Ask
<1> QED
  BY <1>1, <1>5, FewArePromising

LEMMA MaybeAdvanceIsPromising ==
    ASSUME StepsInv, StatusInv, NEW h \in Busy, MaybeAdvance(h), UNCHANGED tables,
           overrides' = overrides
    PROVE  Promising(h)
<1> DEFINE s == ReadStmt("reconcile", None)
<1>1. Current(h).op \in LastReads \cap AfterRequests
  BY DEF MaybeAdvance, At, LastReads, AfterRequests
<1>2. iters # <<>> /\ s.op \in AfterRequests
  BY <1>1, BegunBefore DEF ReadStmt, AfterRequests
<1>3. Proceed(h, <<s>>) \/ Proceed(h, <<>>)
  BY DEF MaybeAdvance
<1> HIDE DEF s
<1>4. Founded(s, rounds, iters, finalized, overrides # 0)
  BY <1>2, SoundStatements
<1> QED
  BY <1>1, <1>3, <1>4, FewArePromising

LEMMA TallyIsPromising ==
    ASSUME StepsInv, StatusInv, NEW h \in Busy, Tally(h), UNCHANGED tables,
           overrides' = overrides
    PROVE  Promising(h)
<1> DEFINE r == Current(h).about
           good(s) == Founded(s, rounds, iters, finalized, overrides # 0)
           done == SetRoundStmt(r, "complete", None)
<1>1. Current(h).op \in LastReads \cap AfterRequests
  BY DEF Tally, At, LastReads, AfterRequests
<1>2. iters # <<>>
  BY <1>1, BegunBefore
<1>3. done.op \in Carefree
  BY DEF SetRoundStmt, Carefree
<1>4. PICK s : /\ s.op \in AfterRequests
               /\ Proceed(h, <<>>) \/ Proceed(h, <<done, s>>)
  BY DEF Tally, ReadStmt, AfterRequests
<1> HIDE DEF done
<1>5. good(done) /\ good(s)
  BY <1>2, <1>3, <1>4, SoundStatements
<1> QED
  BY <1>1, <1>4, <1>5, FewArePromising

LEMMA WeighIsPromising ==
    ASSUME StepsInv, StatusInv, NEW h \in Busy, Weigh(h), UNCHANGED tables,
           overrides' = overrides
    PROVE  Promising(h)
<1> DEFINE s == ReadStmt("mediate", Current(h).about)
           p == SpawnPairs(ProblemWith(Current(h).about))
<1>1. Current(h).op \in LastReads \cap AfterRequests
  BY DEF Weigh, At, LastReads, AfterRequests
<1>2. iters # <<>> /\ s.op \in AfterRequests
  BY <1>1, BegunBefore DEF ReadStmt, AfterRequests
<1>3. Proceed(h, <<s>>) \/ Proceed(h, p)
  BY DEF Weigh
<1>4. Asks(PairKinds, rounds, iters)
  BY <1>2 DEF StatusInv, PairsFirst
<1>5. Keeping(p, overrides # 0) /\ \E S : p \in Seq(S)
  BY <1>4, SpawnPairsIsKeeping
<1> HIDE DEF s, p
<1>6. CASE Proceed(h, <<s>>)
  <2>1. Founded(s, rounds, iters, finalized, overrides # 0)
    BY <1>2, SoundStatements
  <2> QED
    BY <1>1, <1>6, <2>1, FewArePromising
<1>7. CASE Proceed(h, p)
  BY <1>1, <1>5, <1>7, LastReadIsPromising
<1> QED
  BY <1>3, <1>6, <1>7

LEMMA AskReviewersIsPromising ==
    ASSUME StepsInv, StatusInv, NEW h \in Busy, AskReviewers(h), UNCHANGED tables,
           overrides' = overrides
    PROVE  Promising(h)
<1> DEFINE x == Current(h).about
<1>1. /\ Current(h).op = "ask_reviewers" /\ Current(h).op \in LastReads \cap AfterRequests
      /\ Current(h) \in Statement
  BY BusyFits DEF AskReviewers, At, LastReads, AfterRequests
<1>2. x \in Texts
  BY <1>1, ReadFields
<1>3. CASE Abandon(h)
  BY <1>3, AbandonedIsPromising
<1>4. CASE /\ ExpectedReviewers # {}
           /\ \E order \in [1..Cardinality(ExpectedReviewers) -> ExpectedReviewers] :
                  Proceed(h, Spawn("multi_agent_review", None,
                      [k \in DOMAIN order |-> NumberStmt(New, None, order[k], Draft(x))],
                      <<SetSessionStmt("round_3")>>))
  <2>1. PICK order \in [1..Cardinality(ExpectedReviewers) -> ExpectedReviewers] :
            Proceed(h, Spawn("multi_agent_review", None,
                [k \in DOMAIN order |-> NumberStmt(New, None, order[k], Draft(x))],
                <<SetSessionStmt("round_3")>>))
    BY <1>4
  <2> DEFINE p == [k \in DOMAIN order |-> NumberStmt(New, None, order[k], Draft(x))]
  <2>2. Requests(p) /\ p # <<>>
    BY <1>2, <1>4, ReviewRequests, Zenon
  <2>3. Proceed(h, Spawn("multi_agent_review", None, p, <<SetSessionStmt("round_3")>>))
    BY <2>1
  <2> HIDE DEF p
  <2>4. /\ "multi_agent_review" \in RoundTypes /\ "multi_agent_review" # "same_host_pair"
        /\ "round_3" \in SessionStatuses \cap DOMAIN Announced
        /\ Announced["round_3"] = "multi_agent_review"
    BY DEF RoundTypes, SessionStatuses, Announced
  <2> QED
    BY <1>1, <2>2, <2>3, <2>4, SpawnIsPromising
<1> QED
  BY <1>3, <1>4 DEF AskReviewers

LEMMA ExecuteIsPromising ==
    ASSUME StepsInv, StatusInv, NEW h \in Busy, Execute(h), UNCHANGED tables,
           overrides' = overrides
    PROVE  Promising(h)
<1> DEFINE input == Draft(Round2Outcome(rounds))
<1>1. Current(h).op \in LastReads \cap AfterRequests
  BY DEF Execute, At, LastReads, AfterRequests
<1>2. /\ "execute" \in RoundTypes /\ "execute" # "same_host_pair"
      /\ "executing" \in SessionStatuses \cap DOMAIN Announced
      /\ Announced["executing"] = "execute"
  BY DEF RoundTypes, SessionStatuses, Announced
<1>3. CASE Round2Outcome(rounds) = None
  <2>1. Requests(<<>>)
    BY DEF Requests
  <2>2. Proceed(h, Spawn("execute", None, <<>>, <<>>))
    BY <1>3 DEF Execute
  <2> QED
    BY <1>1, <1>2, <2>1, <2>2, SpawnIsPromising
<1>4. CASE Round2Outcome(rounds) # None
  <2> DEFINE s == NumberStmt(New, None, Executor, input)
  <2>1. Round2Outcome(rounds) \in Texts
    BY <1>4, InvTables, Round2OutcomeIsText
  <2>2. input \in Inputs
    BY <2>1 DEF Inputs
  <2>3. s \in Statement /\ s.op = "number" /\ s.round = New
    BY <2>2, NumberIsStatement DEF NumberStmt, Agents, New
  <2>4. Proceed(h, Spawn("execute", None, <<s>>, <<SetSessionStmt("executing")>>))
    BY <1>4 DEF Execute, Ask
  <2> HIDE DEF s
  <2>5. Requests(<<s>>) /\ <<s>> # <<>>
    BY <2>3 DEF Requests
  <2> QED
    BY <1>1, <1>2, <2>4, <2>5, SpawnIsPromising
<1> QED
  BY <1>3, <1>4

LEMMA ReadIsPromising ==
    ASSUME StepsInv, StatusInv, Read, overrides' = overrides
    PROVE  \E h \in Threads : Promising(h)
<1>1. PICK h \in Busy :
           \/ Check(h) \/ Number(h) \/ Advance(h) \/ MaybeAdvance(h) \/ Reconcile(h)
           \/ Arbitrate(h) \/ Close(h) \/ AskReviewers(h) \/ Tally(h) \/ Weigh(h)
           \/ Mediate(h) \/ Execute(h)
  BY DEF Read
<1>2. UNCHANGED tables
  BY DEF Read
<1>3. Promising(h)
  BY <1>1, <1>2, CheckIsPromising, NumberIsPromising, AdvanceIsPromising,
     MaybeAdvanceIsPromising, ToArbitrationIsPromising, CloseIsPromising,
     AskReviewersIsPromising, TallyIsPromising, WeighIsPromising, ExecuteIsPromising
<1> QED
  BY <1>3 DEF Busy

-----------------------------------------------------------------------------
(***************************************************************************)
(* The handlers: statements that rely on nothing, and one that may rely on *)
(* what they do or on what is there.                                       *)
(***************************************************************************)
Chores(p) == p \in Seq(Statement) /\ \A k \in 1..Len(p) : p[k].op \in Carefree

LEMMA ChoresAreKeeping ==
    ASSUME NEW b, NEW p, Chores(p)
    PROVE  Keeping(p, b)
<1>1. Free(p, rounds, iters, finalized, b)
  BY SoundStatements DEF Chores, Free
<1> QED
  BY <1>1, FreeIsKeeping

LEMMA SomeChores ==
    ASSUME NEW a \in Statement, a.op \in Carefree, NEW b \in Statement, b.op \in Carefree
    PROVE  Chores(<<>>) /\ Chores(<<a>>) /\ Chores(<<a, b>>)
BY DEF Chores

LEMMA ChoresJoined ==
    ASSUME NEW p, Chores(p), NEW q, Chores(q)
    PROVE  Chores(p \o q)
<1> DEFINE c == p \o q
<1>1. p \in Seq(Statement) /\ q \in Seq(Statement) /\ Len(p) \in Nat /\ Len(q) \in Nat
  BY DEF Chores
<1>2. /\ c \in Seq(Statement) /\ Len(c) = Len(p) + Len(q)
      /\ \A k \in 1..(Len(p) + Len(q)) : c[k] = IF k <= Len(p) THEN p[k] ELSE q[k - Len(p)]
  BY <1>1, ConcatProperties
<1> HIDE DEF c
<1>3. ASSUME NEW k \in 1..Len(c)
      PROVE  c[k].op \in Carefree
  <2>1. CASE k <= Len(p)
    BY <1>1, <1>2, <2>1 DEF Chores
  <2>2. CASE k > Len(p)
    <3>1. k - Len(p) \in 1..Len(q) /\ c[k] = q[k - Len(p)]
      BY <1>1, <1>2, <2>2
    <3> QED
      BY <3>1 DEF Chores
  <2> QED
    BY <1>1, <1>2, <2>1, <2>2
<1> QED
  BY <1>2, <1>3 DEF Chores, c

LEMMA LastIsKeeping ==
    ASSUME NEW b, NEW p, Chores(p), NEW s \in Statement,
           \A c \in Claims : ReliesOn(s, c, b) =>
               \/ Holds(c, rounds, iters, finalized)
               \/ c = Begun /\ \E j \in 1..Len(p) : p[j].op = "close"
               \/ c = Concluded /\ \E j \in 1..Len(p) : p[j].op = "finalize"
    PROVE  Keeping(p \o <<s>>, b)
<1> DEFINE n == Len(p)
           q == p \o <<s>>
<1>1. p \in Seq(Statement) /\ n \in Nat /\ \A k \in 1..n : p[k].op \in Carefree
  BY DEF Chores
<1>2. /\ Len(q) = n + 1 /\ q[n + 1] = s
      /\ \A k \in 1..n : q[k] = p[k]
  BY <1>1
<1> HIDE DEF n, q
<1>3. ASSUME NEW w, w.todo = q
      PROVE  KeepsPromises(w, rounds, iters, finalized, b)
  <2> SUFFICES ASSUME NEW k \in 1..Len(w.todo), NEW c \in Claims, ReliesOn(w.todo[k], c, b)
               PROVE  \/ Holds(c, rounds, iters, finalized)
                      \/ \E j \in 1..(k - 1) : Makes(c, w, j, rounds)
    BY DEF KeepsPromises
  <2>1. CASE k \in 1..n
    <3>1. w.todo[k].op \in Carefree
      BY <1>1, <1>2, <1>3, <2>1
    <3> QED
      BY <3>1, SoundStatements DEF Founded
  <2>2. CASE k \notin 1..n
    <3>1. k = n + 1 /\ 1..(k - 1) = 1..n
      <4>1. k \in 1..(n + 1)
        BY <1>2, <1>3
      <4> QED
        BY <1>1, <2>2, <4>1
    <3>2. w.todo[k] = s /\ \A j \in 1..n : w.todo[j] = p[j]
      BY <1>2, <1>3, <3>1
    <3>3. \/ Holds(c, rounds, iters, finalized)
          \/ c = Begun /\ \E j \in 1..n : p[j].op = "close"
          \/ c = Concluded /\ \E j \in 1..n : p[j].op = "finalize"
      BY <3>2 DEF n
    <3>4. CASE c = Begun /\ \E j \in 1..n : p[j].op = "close"
      <4>1. PICK j \in 1..n : w.todo[j].op = "close"
        BY <3>2, <3>4
      <4>2. Makes(Begun, w, j, rounds)
        BY <4>1, ClaimsAreMade
      <4> QED
        BY <3>1, <3>4, <4>2
    <3>5. CASE c = Concluded /\ \E j \in 1..n : p[j].op = "finalize"
      <4>1. PICK j \in 1..n : w.todo[j].op = "finalize"
        BY <3>2, <3>5
      <4>2. Makes(Concluded, w, j, rounds)
        BY <4>1, ClaimsAreMade
      <4> QED
        BY <3>1, <3>5, <4>2
    <3> QED
      BY <3>3, <3>4, <3>5
  <2> QED
    BY <2>1, <2>2
<1> QED
  BY <1>3 DEF Keeping, q

LEMMA SoundLastIsKeeping ==
    ASSUME NEW b, NEW p, Chores(p), NEW s \in Statement,
           Founded(s, rounds, iters, finalized, b)
    PROVE  Keeping(p \o <<s>>, b)
BY LastIsKeeping DEF Founded

LEMMA BeginIsPromising ==
    ASSUME StepsInv, StatusInv, NEW h \in Threads, UNCHANGED <<rounds, iters, finalized>>,
           session' \in {session, "drafting"}, overrides # 0 => overrides' # 0,
           NEW p, Begin(h, p), Keeping(p, overrides' # 0)
    PROVE  Promising(h)
<1> DEFINE w == [Idle EXCEPT !.todo = p]
<1>1. w.todo = p /\ work' = [work EXCEPT ![h] = Resting(w)]
  BY DEF Idle, Begin
<1> HIDE DEF w
<1>2. KeepsPromises(w, rounds, iters, finalized, overrides' # 0)
  BY <1>1 DEF Keeping
<1> QED
  BY <1>1, <1>2, ListIsPromising

LEMMA CreateSessionIsPromising ==
    ASSUME StepsInv, StatusInv, NEW h \in Threads, CreateSession(h), overrides' = overrides
    PROVE  Promising(h)
<1> DEFINE p == SpawnPairs(Problem)
<1>1. Begin(h, p) /\ HostOrder # <<>> /\ session' = "drafting"
      /\ UNCHANGED <<rounds, iters, finalized>>
  BY DEF CreateSession
<1>2. Keeping(p, overrides' # 0)
  BY <1>1, SpawnPairsIsKeeping
<1> HIDE DEF p
<1> QED
  BY <1>1, <1>2, BeginIsPromising

\* Two statements, or three, of which only the last relies on something.
LEMMA ChoreThenOneBegins ==
    ASSUME StepsInv, StatusInv, NEW h \in Threads, UNCHANGED tables, overrides' = overrides,
           NEW a, a.op \in Carefree, NEW b, Founded(b, rounds, iters, finalized, overrides # 0),
           Begin(h, <<a, b>>)
    PROVE  Promising(h)
<1>1. UNCHANGED <<rounds, iters, finalized>> /\ session' = session
  BY DEF tables
<1>2. Founded(a, rounds, iters, finalized, overrides # 0)
  BY SoundStatements
<1>3. Keeping(<<a, b>>, overrides' # 0)
  BY <1>2, FreeLists, FreeIsKeeping
<1> QED
  BY <1>1, <1>3, BeginIsPromising

LEMMA LastBegins ==
    ASSUME StepsInv, StatusInv, NEW h \in Threads, UNCHANGED tables,
           overrides # 0 => overrides' # 0,
           NEW p, Chores(p), NEW s \in Statement,
           Founded(s, rounds, iters, finalized, overrides' # 0), Begin(h, p \o <<s>>)
    PROVE  Promising(h)
<1>1. UNCHANGED <<rounds, iters, finalized>> /\ session' = session
  BY DEF tables
<1>2. Keeping(p \o <<s>>, overrides' # 0)
  BY SoundLastIsKeeping
<1> QED
  BY <1>1, <1>2, BeginIsPromising

LEMMA DestinationRespondsIsPromising ==
    ASSUME StepsInv, StatusInv, NEW i \in DOMAIN iters, NEW output \in Texts,
           NEW assess \in {"converged", "more_work_needed"},
           DestinationResponds(i, output, assess), overrides' = overrides
    PROVE  Promising(Loop)
<1> DEFINE r == iters[i].round
           a == RecordStmt(i, output, assess)
           b == ReadStmt("advance", r)
           c == SetRoundStmt(r, "complete", output)
           d == ReadStmt("ask_reviewers", output)
<1>1. UNCHANGED tables /\ Loop \in Threads /\ iters # <<>> /\ r \in DOMAIN rounds
  BY InvTables DEF DestinationResponds, Threads, StepsInv, StepsTypeOK, TypeOK
<1>2. a \in Statement /\ a.op = "record" /\ a.op \in Carefree
  BY RecordStarts DEF Carefree
<1>3. c \in Statement /\ c.op = "set_round" /\ c.op \in Carefree
  <2>1. "complete" \in RoundStatuses \ {"in_progress"}
    BY DEF RoundStatuses
  <2> QED
    BY <1>1, <2>1, SetRoundLasts DEF Carefree
<1>4. d \in Statement
  BY ReadStatements
<1>5. b.op \in AfterRequests /\ d.op \in AfterRequests
  BY DEF ReadStmt, AfterRequests
<1>6. Begin(Loop, <<a, b>>) \/ Begin(Loop, <<a, c, d>>)
  BY DEF DestinationResponds
<1> HIDE DEF a, b, c, d
<1>7. /\ Founded(b, rounds, iters, finalized, overrides # 0)
      /\ Founded(d, rounds, iters, finalized, overrides # 0)
  BY <1>1, <1>5, SoundStatements
<1>8. CASE Begin(Loop, <<a, b>>)
  BY <1>1, <1>2, <1>7, <1>8, ChoreThenOneBegins
<1>9. CASE Begin(Loop, <<a, c, d>>)
  <2>1. <<a, c, d>> = <<a, c>> \o <<d>>
    BY <1>2, <1>3, <1>4, JoinedTuple
  <2>2. Chores(<<a, c>>)
    BY <1>2, <1>3, SomeChores
  <2>3. Begin(Loop, <<a, c>> \o <<d>>)
    BY <1>9, <2>1
  <2> QED
    BY <1>1, <1>4, <1>7, <2>2, <2>3, LastBegins
<1> QED
  BY <1>6, <1>8, <1>9

LEMMA ReviewerDecidesIsPromising ==
    ASSUME StepsInv, StatusInv, NEW r \in DOMAIN rounds, NEW a \in Agents,
           NEW decision \in {"approve", "reject"}, ReviewerDecides(r, a, decision),
           overrides' = overrides
    PROVE  Promising(Loop)
<1> DEFINE s == ReadStmt("tally", r)
<1>1. /\ Begin(Loop, <<s>>) /\ Loop \in Threads /\ session' = session
      /\ UNCHANGED <<rounds, iters, finalized>>
      /\ rounds[r].type = "multi_agent_review"
  BY DEF ReviewerDecides, Threads
<1>2. iters # <<>>
  BY <1>1 DEF StatusInv, PairsFirst
<1>3. s.op \in AfterRequests
  BY DEF ReadStmt, AfterRequests
<1> HIDE DEF s
<1>4. Keeping(<<s>>, overrides' # 0)
  <2>1. Founded(s, rounds, iters, finalized, overrides' # 0)
    BY <1>2, <1>3, SoundStatements
  <2> QED
    BY <2>1, FreeLists, FreeIsKeeping
<1> QED
  BY <1>1, <1>4, BeginIsPromising

LEMMA SweepIsPromising ==
    ASSUME StepsInv, StatusInv, Sweep, overrides' = overrides
    PROVE  Promising(Loop)
<1>1. PICK p : /\ Begin(Loop, p) /\ Plan(p, rounds, iters, overtaken)
               /\ \A k \in 1..Len(p) : p[k].op \in {"release", "check"}
  BY SweepPlan
<1>2. Chores(p)
  BY <1>1 DEF Plan, Chores, Carefree
<1>3. Keeping(p, overrides' # 0)
  BY <1>2, ChoresAreKeeping
<1>4. UNCHANGED <<rounds, iters, finalized>> /\ session' = session /\ Loop \in Threads
  BY DEF Sweep, tables, Threads
<1> QED
  BY <1>1, <1>3, <1>4, BeginIsPromising

\* A handler of one statement.
LEMMA OneIsPromising ==
    ASSUME StepsInv, StatusInv, NEW h \in Threads, UNCHANGED tables,
           overrides # 0 => overrides' # 0,
           NEW s, Founded(s, rounds, iters, finalized, overrides' # 0), Begin(h, <<s>>)
    PROVE  Promising(h)
<1>1. UNCHANGED <<rounds, iters, finalized>> /\ session' = session
  BY DEF tables
<1>2. Keeping(<<s>>, overrides' # 0)
  BY FreeLists, FreeIsKeeping
<1> QED
  BY <1>1, <1>2, BeginIsPromising

LEMMA NudgeOrSkipIsPromising ==
    ASSUME StepsInv, StatusInv, NEW h \in Threads, NEW i, NEW submit \in BOOLEAN,
           NudgeOrSkip(h, i, submit), overrides' = overrides
    PROVE  Promising(h)
<1> DEFINE s == ReleaseStmt(i, submit)
<1>1. UNCHANGED tables /\ Begin(h, <<s>>)
  BY DEF NudgeOrSkip
<1>2. s.op \in Carefree
  BY DEF ReleaseStmt, Carefree
<1> HIDE DEF s
<1> QED
  BY <1>1, <1>2, SoundStatements, OneIsPromising

LEMMA ExecutorReportsIsPromising ==
    ASSUME StepsInv, StatusInv, NEW i \in DOMAIN iters, NEW output \in Texts,
           NEW success \in BOOLEAN, ExecutorReports(i, output, success), overrides' = overrides
    PROVE  Promising(Loop)
<1> DEFINE r == iters[i].round
           release == ReleaseStmt(i, FALSE)
           check == CheckStmt(i, "awaiting_destination")
           waited == IF iters[i].status = "awaiting_nudge" THEN <<release, check>> ELSE <<>>
           fin == FinalizeStmt(output)
           prompt == IF finalized = None THEN <<fin>> ELSE <<>>
           a1 == RecordStmt(i, output, "converged")
           b1 == SetRoundStmt(r, "complete", output)
           a2 == RecordStmt(i, output, "more_work_needed")
           b2 == SetRoundStmt(r, "escalated", output)
           done == SetSessionStmt("complete")
           fail == SetSessionStmt("escalated")
<1>1. /\ UNCHANGED tables /\ Loop \in Threads /\ iters # <<>>
      /\ r \in DOMAIN rounds /\ i \in Nat
  BY InvTables DEF ExecutorReports, Threads, StepsInv, StepsTypeOK, TypeOK
<1>2. Begin(Loop, waited \o <<a1, b1>> \o prompt \o <<done>>) \/ Begin(Loop, waited \o <<a2, b2, fail>>)
  BY DEF ExecutorReports
<1>3. /\ release \in Statement /\ release.op \in Carefree
      /\ check \in Statement /\ check.op \in Carefree
  <2>1. i \in Nat /\ FALSE \in BOOLEAN /\ "awaiting_destination" \in IterationStatuses
    BY <1>1 DEF IterationStatuses
  <2> QED
    BY <2>1, RequestStatements DEF ReleaseStmt, CheckStmt, Carefree
<1>4. a1 \in Statement /\ a1.op \in Carefree /\ a2 \in Statement /\ a2.op \in Carefree
  BY RecordStarts DEF Carefree
<1>5. b1 \in Statement /\ b1.op \in Carefree /\ b2 \in Statement /\ b2.op \in Carefree
  <2>1. /\ "complete" \in RoundStatuses \ {"in_progress"}
        /\ "escalated" \in RoundStatuses \ {"in_progress"}
    BY DEF RoundStatuses
  <2> QED
    BY <1>1, <2>1, SetRoundLasts DEF Carefree
<1>6. /\ done \in Statement /\ done.op = "set_session" /\ done.status = "complete"
      /\ fail \in Statement /\ fail.op = "set_session" /\ fail.status = "escalated"
      /\ fin \in Statement /\ fin.op = "finalize" /\ fin.op \in Carefree
  BY SessionStatements DEF SetSessionStmt, FinalizeStmt, SessionStatuses, Carefree
<1> HIDE DEF release, check, fin, a1, b1, a2, b2, done, fail
<1>7. Chores(waited) /\ Chores(<<a1, b1>>) /\ Chores(<<a2, b2>>)
  BY <1>3, <1>4, <1>5, SomeChores
<1>8. Chores(prompt)
  BY <1>6, SomeChores
<1>9. CASE Begin(Loop, waited \o <<a2, b2, fail>>)
  <2>1. waited \in Seq(Statement)
    BY <1>7 DEF Chores
  <2>2. Chores(waited \o <<a2, b2>>)
    BY <1>7, ChoresJoined
  <2>3. Founded(fail, rounds, iters, finalized, overrides' # 0)
    BY <1>1, <1>6, SoundStatuses
  <2> HIDE DEF waited
  <2>4. waited \o <<a2, b2, fail>> = (waited \o <<a2, b2>>) \o <<fail>>
    BY <1>4, <1>5, <1>6, <2>1, JoinedTriple
  <2>5. Begin(Loop, (waited \o <<a2, b2>>) \o <<fail>>)
    BY <1>9, <2>4
  <2> QED
    BY <1>1, <1>6, <2>2, <2>3, <2>5, LastBegins
<1>10. CASE Begin(Loop, waited \o <<a1, b1>> \o prompt \o <<done>>)
  <2> DEFINE q == waited \o <<a1, b1>>
             p == q \o prompt
  <2>1. Chores(q)
    BY <1>7, ChoresJoined
  <2>2. Chores(p)
    BY <1>8, <2>1, ChoresJoined
  <2>3. Begin(Loop, p \o <<done>>)
    BY <1>10
  <2> HIDE DEF q
  <2>4. finalized = None => \E j \in 1..Len(p) : p[j].op = "finalize"
    <3> SUFFICES ASSUME finalized = None
                 PROVE  \E j \in 1..Len(p) : p[j].op = "finalize"
      OBVIOUS
    <3>1. p = q \o <<fin>> /\ q \in Seq(Statement)
      BY <2>1 DEF Chores
    <3> HIDE DEF p
    <3>2. Len(q) + 1 \in 1..Len(p) /\ p[Len(q) + 1] = fin
      BY <1>6, <3>1
    <3> QED
      BY <1>6, <3>2
  <2> HIDE DEF p
  <2>5. \A c \in Claims : ReliesOn(done, c, overrides' # 0) => c = Concluded
    BY <1>6 DEF ReliesOn, AfterRequests, Announced
  <2>6. Keeping(p \o <<done>>, overrides' # 0)
    <3>1. CASE finalized = None
      BY <1>6, <2>2, <2>4, <2>5, <3>1, LastIsKeeping
    <3>2. CASE finalized # None
      BY <1>6, <2>2, <2>5, <3>2, LastIsKeeping, ClaimsSay
    <3> QED
      BY <3>1, <3>2
  <2>7. UNCHANGED <<rounds, iters, finalized>> /\ session' = session
    BY <1>1 DEF tables
  <2> QED
    BY <1>1, <2>3, <2>6, <2>7, BeginIsPromising
<1> QED
  BY <1>2, <1>9, <1>10

\* A request of the operator counts.
LEMMA OverridesCount ==
    ASSUME StepsInv, NEW kind, Overrides(kind)
    PROVE  overrides' # 0
<1>1. overrides \in Nat
  BY DEF StepsInv, StepsTypeOK, TypeOK
<1>2. Cost[kind] \in Nat \ {0} /\ overrides' = overrides + Cost[kind]
  BY ThreadAssumption, EnvironmentAssumption DEF Overrides
<1> QED
  BY <1>1, <1>2

LEMMA AbortSessionIsPromising ==
    ASSUME StepsInv, StatusInv, NEW h \in Threads, AbortSession(h)
    PROVE  Promising(h)
<1> DEFINE S == {r \in DOMAIN rounds : rounds[r].status \in {"in_progress", "pending"}}
           n == Cardinality(S)
           b == SetSessionStmt("aborted")
<1>1. PICK live \in Listings(S) :
          Begin(h, [k \in DOMAIN live |-> SetRoundStmt(live[k], "aborted", None)] \o <<b>>)
  BY DEF AbortSession
<1>2. UNCHANGED tables /\ overrides' # 0
  BY OverridesCount DEF AbortSession
<1>3. b \in Statement /\ b.op = "set_session" /\ b.status = "aborted"
  BY SessionStatements DEF SetSessionStmt, SessionStatuses
<1> DEFINE f == [k \in DOMAIN live |-> SetRoundStmt(live[k], "aborted", None)]
<1>4. n \in Nat /\ DOMAIN live = 1..n /\ \A k \in DOMAIN live : live[k] \in DOMAIN rounds
  <2>1. S \in SUBSET (DOMAIN rounds)
    OBVIOUS
  <2> HIDE DEF S
  <2> QED
    BY <2>1, ListingIsOfRounds
<1>5. ASSUME NEW k \in 1..n
      PROVE  f[k] \in Statement /\ f[k].op \in Carefree
  <2>1. PICK r \in DOMAIN rounds : r = live[k]
    BY <1>4
  <2>2. f[k] = SetRoundStmt(r, "aborted", None)
    BY <1>4, <2>1
  <2>3. "aborted" \in RoundStatuses \ {"in_progress"}
    BY DEF RoundStatuses
  <2> HIDE DEF f
  <2> QED
    BY <2>2, <2>3, SetRoundLasts DEF Carefree
<1>6. f \in [1..n -> Statement]
  BY <1>4, <1>5
<1>7. Begin(h, f \o <<b>>)
  BY <1>1
<1> HIDE DEF f, b, n, S
<1>8. Chores(f)
  BY <1>4, <1>5, <1>6 DEF Chores
<1>9. Founded(b, rounds, iters, finalized, overrides' # 0)
  BY <1>3, SoundStatuses
<1> QED
  BY <1>2, <1>3, <1>7, <1>8, <1>9, LastBegins

LEMMA ResolveByAbortIsPromising ==
    ASSUME StepsInv, StatusInv, NEW h \in Threads, ResolveByAbort(h)
    PROVE  Promising(h)
<1> DEFINE s == SetSessionStmt("aborted")
<1>1. UNCHANGED tables /\ Begin(h, <<s>>) /\ overrides' # 0
  BY OverridesCount DEF ResolveByAbort
<1>2. s.op = "set_session" /\ s.status = "aborted"
  BY DEF SetSessionStmt
<1> HIDE DEF s
<1>3. Founded(s, rounds, iters, finalized, overrides' # 0)
  BY <1>2, SoundStatuses
<1> QED
  BY <1>1, <1>3, OneIsPromising

LEMMA SkipReviewerIsPromising ==
    ASSUME StepsInv, StatusInv, NEW h \in Threads, NEW a \in AllWorkers, SkipReviewer(h, a)
    PROVE  Promising(h)
<1> DEFINE s == WriteSkipsStmt(skipped \cup {a})
<1>1. UNCHANGED tables /\ Begin(h, <<s>>) /\ overrides' # 0
  BY OverridesCount DEF SkipReviewer
<1>2. s.op \in Carefree
  BY DEF WriteSkipsStmt, Carefree
<1> HIDE DEF s
<1>3. Founded(s, rounds, iters, finalized, overrides' # 0)
  BY <1>2, SoundStatements
<1> QED
  BY <1>1, <1>3, OneIsPromising

LEMMA CloseAllIsPromising ==
    ASSUME StepsInv, StatusInv, NEW h \in Threads, UNCHANGED tables, overrides' # 0,
           NEW S \in SUBSET (DOMAIN rounds), NEW b \in Statement,
           b.op \in AfterRequests, S # {} \/ iters # <<>>, CloseAll(h, S, b)
    PROVE  Promising(h)
<1> DEFINE n == Cardinality(S)
<1>1. PICK listed \in Listings(S) :
          Begin(h, [k \in DOMAIN listed |-> ReadStmt("close", listed[k])] \o <<b>>)
  BY DEF CloseAll
<1> DEFINE f == [k \in DOMAIN listed |-> ReadStmt("close", listed[k])]
<1>2. n \in Nat /\ DOMAIN listed = 1..n /\ \A k \in DOMAIN listed : listed[k] \in DOMAIN rounds
  BY ListingIsOfRounds
<1>3. ASSUME NEW k \in 1..n
      PROVE  f[k] \in Statement /\ f[k].op = "close"
  <2>1. PICK r \in DOMAIN rounds : r = listed[k]
    BY <1>2
  <2>2. f[k] = ReadStmt("close", r)
    BY <1>2, <2>1
  <2>3. r \in Nat \ {0}
    BY InvTables
  <2> HIDE DEF f
  <2> QED
    BY <2>2, <2>3, ReadStatements DEF ReadStmt
<1>4. f \in [1..n -> Statement]
  BY <1>2, <1>3
<1>5. Begin(h, f \o <<b>>)
  BY <1>1
<1>6. S # {} => 1 \in 1..n
  <2>1. IsFiniteSet(S)
    <3>1. S \in SUBSET (1..Len(rounds)) /\ Len(rounds) \in Nat
      BY InvTables
    <3> QED
      BY <3>1, SubsetOfInterval
  <2> QED
    BY <1>2, <2>1, FS_EmptySet
<1> HIDE DEF f, n
<1>7. Chores(f) /\ Len(f) = n
  BY <1>2, <1>3, <1>4 DEF Chores, Carefree
<1>8. \A c \in Claims : ReliesOn(b, c, overrides' # 0) => c = Begun
  BY DEF ReliesOn, AfterRequests
<1>9. iters # <<>> \/ \E j \in 1..Len(f) : f[j].op = "close"
  BY <1>3, <1>6, <1>7
<1>10. Keeping(f \o <<b>>, overrides' # 0)
  BY <1>7, <1>8, <1>9, LastIsKeeping, ClaimsSay
<1>11. UNCHANGED <<rounds, iters, finalized>> /\ session' = session
  BY DEF tables
<1> QED
  BY <1>5, <1>10, <1>11, BeginIsPromising

LEMMA ClosingIsPromising ==
    ASSUME StepsInv, StatusInv, NEW h \in Threads, ForceConverge(h) \/ ToArbitrator(h)
    PROVE  Promising(h)
<1>1. UNCHANGED tables /\ overrides' # 0
  BY OverridesCount DEF ForceConverge, ToArbitrator
<1>2. /\ ReadStmt("maybe_advance", None) \in Statement
      /\ ReadStmt("maybe_advance", None).op \in AfterRequests
      /\ ReadStmt("arbitrate", None) \in Statement
      /\ ReadStmt("arbitrate", None).op \in AfterRequests
  BY ReadStatements DEF ReadStmt, AfterRequests
<1>3. RoundsOfType(rounds, "same_host_pair") \subseteq DOMAIN rounds
  BY DEF RoundsOfType
<1>4. CASE ForceConverge(h)
  <2> DEFINE S == {r \in RoundsOfType(rounds, "same_host_pair") :
                      rounds[r].status \in {"in_progress", "escalated", "pending"}}
  <2>1. S \in SUBSET (DOMAIN rounds) /\ S # {} /\ CloseAll(h, S, ReadStmt("maybe_advance", None))
    BY <1>3, <1>4 DEF ForceConverge
  <2> HIDE DEF S
  <2> QED
    BY <1>1, <1>2, <2>1, CloseAllIsPromising
<1>5. CASE ToArbitrator(h)
  <2> DEFINE S == {r \in RoundsOfType(rounds, "same_host_pair") :
                      rounds[r].status # "converged"}
  <2>1. /\ S \in SUBSET (DOMAIN rounds) /\ session = "escalated"
        /\ CloseAll(h, S, ReadStmt("arbitrate", None))
    BY <1>3, <1>5 DEF ToArbitrator
  <2> HIDE DEF S
  <2>2. iters # <<>>
    <3> DEFINE s == SetSessionStmt(session)
    <3>1. s.op = "set_session" /\ s.status = "escalated"
      BY <2>1 DEF SetSessionStmt
    <3>2. Founded(s, rounds, iters, finalized, overrides # 0)
      BY DEF StatusInv
    <3> HIDE DEF s
    <3>3. Begun \in Claims /\ ReliesOn(s, Begun, overrides # 0)
      BY <3>1 DEF Claims, ReliesOn
    <3> QED
      BY <3>2, <3>3, ClaimsSay DEF Founded
  <2> QED
    BY <1>1, <1>2, <2>1, <2>2, CloseAllIsPromising
<1> QED
  BY <1>4, <1>5

LEMMA RetryRequestIsPromising ==
    ASSUME StepsInv, StatusInv, NEW h \in Threads, NEW i \in DOMAIN iters,
           NEW submit \in BOOLEAN, RetryRequest(h, i, submit)
    PROVE  Promising(h)
<1> DEFINE it == iters[i]
           r == it.round
           check == CheckStmt(New, "awaiting_nudge")
           release == ReleaseStmt(New, TRUE)
           nudge == IF submit THEN <<check, release>> ELSE <<>>
           sr == SetRoundStmt(r, "in_progress", None)
           reopen == IF rounds[r].status \in {"escalated", "pending"} THEN <<sr>> ELSE <<>>
           ss == SetSessionStmt("round_1")
           resume == IF session = "escalated" THEN <<ss>> ELSE <<>>
           dst == IF it.src = None THEN it.dst ELSE it.src
           input == IF it.output = None THEN it.input ELSE Draft(it.output)
           n == NumberStmt(r, it.dst, dst, input)
           p == <<n>> \o nudge
           q == p \o reopen
<1>1. UNCHANGED tables /\ overrides' # 0 /\ Begin(h, q \o resume)
  BY OverridesCount DEF RetryRequest, Ask
<1>2. r \in Nat
  BY InvTables DEF StepsInv, StepsTypeOK, TypeOK
<1>3. it.dst \in Agents /\ dst \in Agents /\ input \in Inputs
  <2>1. it \in Iteration
    BY InvTables
  <2>2. /\ it.dst \in Agents /\ it.src \in Agents \cup {None}
        /\ it.input \in Inputs /\ it.output \in Texts \cup {None}
    BY <2>1 DEF Iteration
  <2>3. it.output # None => Draft(it.output) \in Inputs
    BY <2>2 DEF Inputs
  <2> QED
    BY <2>2, <2>3
<1> HIDE DEF it, r, dst, input
<1>4. n \in Statement /\ n.op \in Carefree
  BY <1>2, <1>3, NumberIsStatement DEF NumberStmt, Carefree
<1>5. sr \in Statement /\ sr.op \in Carefree
  <2>1. "in_progress" \in RoundStatuses
    BY DEF RoundStatuses
  <2> QED
    BY <1>2, <2>1, SetRoundIsStatement DEF SetRoundStmt, Carefree
<1>6. check \in Statement /\ check.op \in Carefree /\ release \in Statement /\ release.op \in Carefree
  <2>1. New \in Nat /\ "awaiting_nudge" \in IterationStatuses /\ TRUE \in BOOLEAN
    BY DEF New, IterationStatuses
  <2> QED
    BY <2>1, RequestStatements DEF CheckStmt, ReleaseStmt, Carefree
<1>7. ss \in Statement /\ ss.op = "set_session" /\ ss.status = "round_1"
  BY SessionStatements DEF SetSessionStmt, SessionStatuses
<1> HIDE DEF n, sr, check, release, ss
<1>8. Chores(<<n>>) /\ Chores(nudge) /\ Chores(reopen)
  BY <1>4, <1>5, <1>6, SomeChores
<1> HIDE DEF nudge, reopen
<1>9. Chores(p)
  BY <1>8, ChoresJoined
<1> HIDE DEF p
<1>10. Chores(q)
  BY <1>8, <1>9, ChoresJoined
<1> HIDE DEF q
<1>11. CASE resume = <<>>
  <2>1. q \o resume = q
    BY <1>10, <1>11 DEF Chores
  <2>2. Keeping(q, overrides' # 0)
    BY <1>10, ChoresAreKeeping
  <2>3. UNCHANGED <<rounds, iters, finalized>> /\ session' = session
    BY <1>1 DEF tables
  <2> HIDE DEF resume
  <2> QED
    BY <1>1, <2>1, <2>2, <2>3, BeginIsPromising
<1>12. CASE resume = <<ss>>
  <2>1. Asks(PairKinds, rounds, iters)
    <3>1. iters # <<>>
      BY InvTables
    <3> QED
      BY <3>1 DEF StatusInv, PairsFirst
  <2>2. Founded(ss, rounds, iters, finalized, overrides' # 0)
    BY <1>1, <1>7, <2>1, SoundStatuses
  <2>3. Begin(h, q \o <<ss>>)
    BY <1>1, <1>12
  <2> QED
    BY <1>1, <1>7, <1>10, <2>2, <2>3, LastBegins
<1> QED
  BY <1>11, <1>12

-----------------------------------------------------------------------------
LEMMA HandleIsPromising ==
    ASSUME StepsInv, StatusInv, Handle
    PROVE  (\E h \in Threads : Promising(h)) /\ (overrides # 0 => overrides' # 0)
<1>1. Desk \subseteq Threads /\ Loop \in Threads
  BY DEF Threads
<1>2. CASE /\ \/ Write \/ Read
              \/ Loop \notin Busy /\ (AgentCall \/ Sweep)
              \/ \E h \in Desk \ Busy : CreateSession(h)
           /\ UNCHANGED <<overrides, nudges, crashes>>
  <2>1. overrides' = overrides
    BY <1>2
  <2>2. CASE Write \/ Read
    BY <2>1, <2>2, WriteIsPromising, ReadIsPromising
  <2>3. CASE AgentCall
    <3>1. Promising(Loop)
      BY <2>1, <2>3, DestinationRespondsIsPromising, ReviewerDecidesIsPromising,
         ExecutorReportsIsPromising DEF AgentCall
    <3> QED
      BY <1>1, <2>1, <3>1
  <2>4. CASE Sweep
    BY <1>1, <2>1, <2>4, SweepIsPromising
  <2>5. CASE \E h \in Desk \ Busy : CreateSession(h)
    BY <1>1, <2>1, <2>5, CreateSessionIsPromising
  <2> QED
    BY <1>2, <2>2, <2>3, <2>4, <2>5
<1>3. CASE /\ \E h \in Desk \ Busy, i \in DOMAIN iters, submit \in BOOLEAN :
                  NudgeOrSkip(h, i, submit)
           /\ UNCHANGED <<overrides, crashes>>
  BY <1>1, <1>3, NudgeOrSkipIsPromising
<1>4. CASE /\ \E h \in Desk \ Busy : Override(h)
           /\ UNCHANGED <<nudges, crashes>>
  <2>1. PICK h \in Threads : Override(h)
    BY <1>1, <1>4
  <2>2. Promising(h)
    BY <2>1, AbortSessionIsPromising, ResolveByAbortIsPromising, ClosingIsPromising,
       RetryRequestIsPromising, SkipReviewerIsPromising DEF Override
  <2>3. \E kind : Overrides(kind)
    BY <2>1 DEF Override, AbortSession, ResolveByAbort, ForceConverge, ToArbitrator,
                RetryRequest, SkipReviewer
  <2> QED
    BY <2>2, <2>3, OverridesCount
<1> QED
  BY <1>2, <1>3, <1>4 DEF Handle

LEMMA StatusKept ==
    ASSUME StepsInv, StatusInv, [StepsNext]_stepVars
    PROVE  StatusInv'
<1>1. CASE Handle
  <2>1. overrides # 0 => overrides' # 0
    BY <1>1, HandleIsPromising
  <2>2. PICK h \in Threads : Promising(h)
    BY <1>1, HandleIsPromising
  <2>3. ASSUME NEW g \in Threads
        PROVE  KeepsPromises(work'[g], rounds', iters', finalized', overrides' # 0)
    <3>1. CASE g = h
      BY <2>2, <3>1 DEF Promising
    <3>2. CASE g # h
      <4>1. work'[g] = work[g]
        BY <2>2, <3>2, InvTables DEF Promising
      <4>2. KeepsPromises(work[g], rounds, iters, finalized, overrides # 0)
        BY DEF StatusInv
      <4>3. Remembers(rounds, iters, finalized, rounds', iters', finalized')
        BY <2>2 DEF Promising
      <4> QED
        BY <2>1, <4>1, <4>2, <4>3, OthersKeepPromises
    <3> QED
      BY <3>1, <3>2
  <2>4. Founded(SetSessionStmt(session'), rounds', iters', finalized', overrides' # 0)
        /\ PairsFirst(rounds', iters')
    BY <2>2 DEF Promising
  <2> QED
    BY <2>3, <2>4 DEF StatusInv
<1>2. CASE Crash
  <2>1. UNCHANGED <<session, rounds, iters, finalized, overrides>>
    BY <1>2 DEF Crash, tables
  <2>2. \A h \in Threads : work'[h] = Idle
    BY <1>2 DEF Crash
  <2>3. Len(Idle.todo) = 0
    BY DEF Idle
  <2>4. KeepsPromises(Idle, rounds, iters, finalized, overrides # 0)
    BY <2>3 DEF KeepsPromises
  <2> QED
    BY <2>1, <2>2, <2>4 DEF StatusInv
<1>3. CASE UNCHANGED stepVars
  <2>1. UNCHANGED <<session, rounds, iters, finalized, overrides, work>>
    BY <1>3 DEF stepVars, vars
  <2> QED
    BY <2>1 DEF StatusInv
<1> QED
  BY <1>1, <1>2, <1>3 DEF StepsNext

LEMMA StatusInitInv == StepsInit => StatusInv
<1> SUFFICES ASSUME StepsInit
             PROVE  StatusInv
  OBVIOUS
<1>1. /\ rounds = <<>> /\ iters = <<>> /\ session = "none"
      /\ work = [h \in Threads |-> Idle]
  BY DEF StepsInit, Init
<1>2. Founded(SetSessionStmt(session), rounds, iters, finalized, overrides # 0)
  <2> DEFINE s == SetSessionStmt(session)
  <2>1. s.op = "set_session" /\ s.status = "none"
    BY <1>1 DEF SetSessionStmt
  <2> HIDE DEF s
  <2>2. Founded(s, rounds, iters, finalized, overrides # 0)
    BY <2>1, SoundStatuses
  <2> QED
    BY <2>2 DEF s
<1>3. PairsFirst(rounds, iters)
  BY <1>1 DEF PairsFirst
<1>4. Len(Idle.todo) = 0
  BY DEF Idle
<1>5. \A h \in Threads : KeepsPromises(work[h], rounds, iters, finalized, overrides # 0)
  BY <1>1, <1>4 DEF KeepsPromises
<1> QED
  BY <1>2, <1>3, <1>5 DEF StatusInv

LEMMA StatusIsSound ==
    ASSUME StepsInv, StatusInv
    PROVE  StatusFollowsTables
<1> DEFINE s == SetSessionStmt(session)
<1>1. s.op = "set_session" /\ s.status = session
  BY DEF SetSessionStmt
<1>2. Founded(s, rounds, iters, finalized, overrides # 0)
  BY DEF StatusInv
<1> HIDE DEF s
<1>3. \A i \in DOMAIN iters : iters[i].round \in DOMAIN rounds
  BY InvTables DEF Tables
<1>4. DOMAIN Announced = {"round_1", "round_2", "round_3", "executing"}
      /\ \A status \in DOMAIN Announced : Announced[status] \in RoundTypes
  BY DEF Announced, RoundTypes
<1>5. ASSUME session \in DOMAIN Announced
      PROVE  \E r \in RoundsOfType(rounds, Announced[session]) : IterationsOf(iters, r) # {}
  <2> DEFINE type == Announced[session]
  <2>1. Stage(type) \in Claims /\ ReliesOn(s, Stage(type), overrides # 0)
    BY <1>1, <1>4, <1>5 DEF Claims, ReliesOn
  <2>2. Asks({type} \X Places, rounds, iters)
    BY <1>2, <2>1, ClaimsSay DEF Founded, Stage
  <2>3. PICK i \in DOMAIN iters : Kind(rounds[iters[i].round]) \in {type} \X Places
    BY <2>2 DEF Asks
  <2>4. rounds[iters[i].round].type = type /\ i \in IterationsOf(iters, iters[i].round)
    BY <2>3 DEF Kind, IterationsOf
  <2> QED
    BY <1>3, <2>4 DEF RoundsOfType
<1>6. ASSUME session = "round_1", overrides = 0, NEW h \in Hosts
      PROVE  \E r \in PairRoundsOn(rounds, h) : IterationsOf(iters, r) # {}
  <2>1. PairOn(h) \in Claims /\ ReliesOn(s, PairOn(h), overrides # 0)
    BY <1>1, <1>6 DEF Claims, ReliesOn
  <2>2. Asks({<<"same_host_pair", h>>}, rounds, iters)
    BY <1>2, <2>1, ClaimsSay DEF Founded, PairOn
  <2>3. PICK i \in DOMAIN iters : Kind(rounds[iters[i].round]) = <<"same_host_pair", h>>
    BY <2>2 DEF Asks
  <2>4. /\ rounds[iters[i].round].type = "same_host_pair" /\ rounds[iters[i].round].host = h
        /\ i \in IterationsOf(iters, iters[i].round)
    BY <2>3 DEF Kind, IterationsOf
  <2> QED
    BY <1>3, <2>4 DEF PairRoundsOn, RoundsOfType
<1>7. ASSUME session = "complete"
      PROVE  finalized # None
  <2>1. Concluded \in Claims /\ ReliesOn(s, Concluded, overrides # 0)
    BY <1>1, <1>7 DEF Claims, ReliesOn
  <2> QED
    BY <1>2, <2>1, ClaimsSay DEF Founded
<1> QED
  BY <1>5, <1>6, <1>7 DEF StatusFollowsTables

-----------------------------------------------------------------------------
(***************************************************************************)
(* The theorems.                                                           *)
(***************************************************************************)
\* The tables stay well formed and what a handler refers to exists, whatever
\* the threads do between its statements and wherever a crash cuts them off
\* (the CHECK constraints and references of database.py's schema).
THEOREM StepsAreTyped == StepsSpec => []StepsTypeOK
<1>1. StepsInv => StepsTypeOK
  BY DEF StepsInv
<1> QED
  BY <1>1, StepsSpecInv, PTL

\* Two requests of a round have one number only if two handlers looked up the
\* latest number before either had inserted its request (_spawn_iteration in
\* workflow.py: the lookup and the insert are two commits).
THEOREM NumbersAreUniqueUnlessOvertaken == StepsSpec => []NumberedUnlessOvertaken
<1>1. StepsInv => NumberedUnlessOvertaken
  BY DEF StepsInv, Numbered, NumberedUnlessOvertaken
<1> QED
  BY <1>1, StepsSpecInv, PTL

\* An answer, a nudge, a skipped reviewer and an aborted round are only lost
\* on a row that two handlers held at once: every UPDATE of database.py that
\* names the row alone has been preceded by a check that still holds.
THEOREM AcceptedStandsUnlessOvertaken == StepsSpec => AcceptedStands
<1>1. StepsInv /\ [StepsNext]_stepVars =>
          [/\ \A i \in DOMAIN iters : <<"request", i>> \notin overtaken' =>
                  /\ iters[i].status = "complete" => iters'[i] = iters[i]
                  /\ iters[i].nudged => iters'[i].nudged
           /\ <<"skipped", New>> \notin overtaken' => skipped \subseteq skipped'
           /\ \A r \in DOMAIN rounds : <<"status", r>> \notin overtaken' =>
                  (rounds[r].status = "aborted" => rounds'[r].status # "in_progress")]_stepVars
  BY StepsNextKeeps DEF Stands
<1> QED
  BY <1>1, StepsSpecInv, PTL DEF StepsSpec, AcceptedStands

\* A session status never runs ahead of the tables: wherever the threads are,
\* and wherever a crash cut them off, a session that announces a stage has a
\* round of that stage with a request in it, and a complete one its final
\* prompt (the _spawn functions and complete_session of workflow.py write the
\* status last).
THEOREM StatusNeverRunsAhead == StepsSpec => []StatusFollowsTables
<1>1. StepsInv /\ StatusInv /\ [StepsNext]_stepVars => StatusInv'
  BY StatusKept
<1>2. StepsSpec => []StatusInv
  BY <1>1, StatusInitInv, StepsSpecInv, PTL DEF StepsSpec
<1>3. StepsInv /\ StatusInv => StatusFollowsTables
  BY StatusIsSound
<1> QED
  BY <1>2, <1>3, StepsSpecInv, PTL
=============================================================================
