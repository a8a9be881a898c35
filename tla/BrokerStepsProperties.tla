------------------------ MODULE BrokerStepsProperties ------------------------
(***************************************************************************)
(* What the Delphi workflow keeps when its handlers interleave statement   *)
(* by statement and the broker may crash between any two of them.          *)
(***************************************************************************)
EXTENDS BrokerSteps, DelphiProperties

\* The round a session status announces.
Announced ==
    [round_1 |-> "same_host_pair", round_2 |-> "cross_host_arbitration",
     round_3 |-> "multi_agent_review", executing |-> "execute"]

\* The session status is the last thing a handler writes (workflow.py, every
\* _spawn function): wherever the handlers are, and wherever a crash cut them
\* off, a session that announces a stage has a round of that stage with a
\* request in it, and a complete session has its final prompt.  Round 1 has one
\* on each host, as long as the operator does not interfere: a retry puts an
\* escalated session back to round 1 whether or not the handler that opened
\* the pairs had got to the last host (workflow.py, _retry_iteration).
StatusFollowsTables ==
    /\ session \in DOMAIN Announced =>
           \E r \in RoundsOfType(rounds, Announced[session]) : IterationsOf(iters, r) # {}
    /\ session = "round_1" /\ overrides = 0 =>
           \A h \in Hosts : \E r \in PairRoundsOn(rounds, h) : IterationsOf(iters, r) # {}
    /\ session = "complete" => finalized # None

\* What was accepted stays: an answer is not taken back, a nudge not dropped, a
\* skipped reviewer not expected again, an aborted round not resumed.  Only a
\* handler that read the row before another one wrote it can undo that
\* (database.py, _set_iteration_to_awaiting_destination and
\* add_skipped_reviewer; routes/api.py, post_abort).
AcceptedStands ==
    [][/\ \A i \in DOMAIN iters : <<"request", i>> \notin overtaken' =>
              /\ iters[i].status = "complete" => iters'[i] = iters[i]
              /\ iters[i].nudged => iters'[i].nudged
       /\ <<"skipped", New>> \notin overtaken' => skipped \subseteq skipped'
       /\ \A r \in DOMAIN rounds : <<"status", r>> \notin overtaken' =>
              (rounds[r].status = "aborted" => rounds'[r].status # "in_progress")]_stepVars

\* No two requests of a round have one number, unless two handlers looked up
\* the latest number before either had inserted its request: the table has no
\* constraint on it (workflow.py, _spawn_iteration).
NumberedUnlessOvertaken ==
    \A i, j \in DOMAIN iters :
        /\ i # j
        /\ iters[i].round = iters[j].round
        /\ <<"numbers", iters[i].round>> \notin overtaken
        => iters[i].num # iters[j].num

\* While the operator requests nothing but nudges, crashes and handlers that
\* overtake nobody leave what module Delphi says of whole handlers true between
\* their statements as well: the relay, the approval before the execution, the
\* synthesis the reviewers see.
\* Opening the session overtakes somebody if a pair is judged, in
\* _maybe_advance_to_round_2, while other pairs are still to be opened.
SoundWhenUndisturbed ==
    overrides = 0 /\ overtaken = {} =>
        RelayUnbroken /\ ApprovedBeforeExecution /\ ReviewShowsSynthesis
=============================================================================
