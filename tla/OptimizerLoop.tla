--------------------------- MODULE OptimizerLoop ---------------------------
(***************************************************************************)
(* The referee of the research rig (src/research/harness/loop.sh): one     *)
(* mutation of treatment/ and kbs/ per iteration, committed, measured by   *)
(* run.sh, and kept (BEST.json) or dropped (git reset) by its score.       *)
(* A mutation is a number; what it changes, the model session and the      *)
(* cost bookkeeping are left out.  Each iteration starts with flush-ch.sh, *)
(* which inserts the rows past its mark into four ClickHouse tables.       *)
(***************************************************************************)
EXTENDS Integers, Sequences, FiniteSets, Functions

CONSTANTS
  MaxIters,       \* MAX_ITERS
  Patience,       \* PATIENCE: configs without improvement before the plateau
  K,              \* iterations between two control-drift checks
  Epsilon,        \* EPSILON in percent
  Scores,         \* what run.sh treatment can score; 0 is a failure
  ControlScores,  \* what run.sh control-frozen can score
  MaxRestarts,    \* bound: how often the loop is started again
  MaxEdits,       \* bound: mutations made
  None,           \* no file
  Envs            \* what else may happen to the box, in one behaviour or another

ASSUME LoopAssumption ==
  /\ MaxIters \in Nat /\ Patience \in Nat \ {0} /\ K \in Nat \ {0}
  /\ Epsilon \in Nat /\ MaxRestarts \in Nat /\ MaxEdits \in Nat /\ None \notin Int
  /\ Scores \subseteq Nat /\ ControlScores \subseteq Nat
  /\ Envs \subseteq SUBSET {"fail", "kill", "stop", "restart", "edit", "nocommit", "chdown"}

VARIABLES
  env,         \* what else happens to the box in this behaviour
  pc,          \* where the loop is
  why,         \* why it ended
  iter, no_improve,
  commits,     \* the branch from 0, the commit it started from, or an ancestor -n
  dirty,       \* treatment/ or kbs/ differ from HEAD
  staged,      \* and so does the index
  others,      \* a tracked file elsewhere differs from HEAD
  best,        \* BEST.json
  base,        \* CONTROL_BASELINE.json; 0 when it holds no number
  score,       \* what run.sh returned
  history,     \* HISTORY.jsonl
  torn,        \* it ends in a row that was cut off
  flushed,     \* results/.ch_flushed
  table,       \* the table flush-ch.sh fills next
  stored,      \* per table, the rows of HISTORY.jsonl it holds
  stopfile,    \* results/STOP exists
  muts,        \* mutations made so far
  won,         \* history: the champions promoted so far
  restarts, kills

loopVars == <<pc, why, iter, no_improve, score>>
gitVars == <<commits, dirty, staged, others, muts>>
flushVars == <<flushed, table, stored>>
rowVars == <<history, torn>>
fileVars == <<best, base, rowVars, flushVars, stopfile>>
ghosts == <<env, won, restarts, kills>>
vars == <<loopVars, gitVars, fileVars, ghosts>>

\* The end of a sequence (HEAD, the last row), and the sequence without it.
Last(q) == q[Len(q)]
Front(q) == SubSeq(q, 1, Len(q) - 1)

Tables == <<"runs", "steps", "profile", "samples">>
NoBest == [hash |-> None, score |-> 0]
Row(a, s) == [arm |-> a, hash |-> Last(commits), score |-> s, ok |-> ~torn]

\* open(HIST, "a").write(): a row behind one that was cut off is on its line,
\* which then does not parse.
Record(a, s) == history' = Append(history, Row(a, s)) /\ torn' = FALSE

TypeOK ==
  /\ env \in Envs
  /\ pc \in {"top", "flush", "claude", "edited", "commit", "measure", "verdict",
             "promote", "watchdog", "baseline", "plateau", "done"}
  /\ why \in {"running", "stop", "iterations", "drift", "plateau", "killed"}
  /\ iter \in 0..MaxIters /\ no_improve \in 0..Patience
  /\ commits \in Seq(Int) /\ commits # <<>>
  /\ dirty \in BOOLEAN /\ staged \in BOOLEAN /\ others \in BOOLEAN
  /\ stopfile \in BOOLEAN /\ torn \in BOOLEAN
  /\ best \in [hash : Int \cup {None}, score : Nat]
  /\ base \in Nat \cup {None} /\ score \in Nat
  /\ history \in Seq([arm : {"treatment", "control"}, hash : Int, score : Nat,
                      ok : BOOLEAN])
  /\ flushed \in 0..Len(history) /\ table \in 1..(Len(Tables) + 1)
  /\ stored \in [DOMAIN Tables -> SUBSET DOMAIN history]
  /\ muts \in Nat /\ restarts \in 0..MaxRestarts /\ kills \in Nat
  /\ won \subseteq [hash : Int, score : Nat]

Init ==
  /\ env \in Envs
  /\ pc = "top" /\ why = "running" /\ iter = 0 /\ no_improve = 0 /\ score = 0
  /\ commits = <<0>> /\ dirty = FALSE /\ staged = FALSE /\ others = FALSE /\ muts = 0
  /\ best = NoBest /\ base = None /\ history = <<>> /\ torn = FALSE /\ flushed = 0
  /\ table = 1 /\ stored = [t \in DOMAIN Tables |-> {}]
  /\ stopfile = FALSE
  /\ won = {} /\ restarts = 0 /\ kills = 0

-----------------------------------------------------------------------------
(* ANALYTICS phase.                                                         *)

End(reason) == pc' = "done" /\ why' = reason

StopSeen ==
  /\ pc = "top" /\ iter < MaxIters /\ stopfile
  /\ stopfile' = FALSE /\ End("stop")
  /\ UNCHANGED <<iter, no_improve, score, gitVars, best, base, rowVars, flushVars,
                 ghosts>>

IterationsDone ==
  /\ pc = "top" /\ iter >= MaxIters
  /\ End("iterations")
  /\ UNCHANGED <<iter, no_improve, score, gitVars, fileVars, ghosts>>

Begin ==
  /\ pc = "top" /\ iter < MaxIters /\ ~stopfile
  /\ iter' = iter + 1 /\ pc' = "flush" /\ table' = 1
  /\ UNCHANGED <<why, no_improve, score, gitVars, best, base, rowVars, flushed,
                 stored, stopfile, ghosts>>

\* flush-ch.sh: nothing new, or ClickHouse does not answer.
FlushSkipped ==
  /\ pc = "flush" /\ table = 1
  /\ flushed >= Len(history) \/ "chdown" \in env
  /\ pc' = "claude"
  /\ UNCHANGED <<why, iter, no_improve, score, gitVars, fileVars, ghosts>>

\* The rows past the mark that parse; the others are skipped.
Unflushed == {n \in DOMAIN history : n > flushed /\ history[n].ok}

\* SystemExit(0) without a row to insert: the mark moves.
NothingParses ==
  /\ pc = "flush" /\ flushed < Len(history) /\ Unflushed = {}
  /\ pc' = "claude" /\ flushed' = Len(history)
  /\ UNCHANGED <<why, iter, no_improve, score, gitVars, best, base, rowVars, table,
                 stored, stopfile, ghosts>>

\* insert(): the rows past the mark, one table after the other.
Insert ==
  /\ pc = "flush" /\ Unflushed # {} /\ table <= Len(Tables)
  /\ stored' = [stored EXCEPT ![table] = @ \cup Unflushed]
  /\ table' = table + 1
  /\ UNCHANGED <<loopVars, gitVars, best, base, rowVars, flushed, stopfile, ghosts>>

\* Variant: the mark moves whatever python returned.
InsertFails_Marked ==
  /\ pc = "flush" /\ Unflushed # {} /\ table <= Len(Tables)
  /\ "chdown" \in env
  /\ pc' = "claude" /\ flushed' = Len(history) /\ table' = 1
  /\ UNCHANGED <<why, iter, no_improve, score, gitVars, best, base, rowVars,
                 stored, stopfile, ghosts>>

\* SystemExit(1): the rest is not inserted and the mark stays.
InsertFails ==
  /\ pc = "flush" /\ Unflushed # {} /\ table <= Len(Tables)
  /\ "chdown" \in env
  /\ pc' = "claude" /\ table' = 1
  /\ UNCHANGED <<why, iter, no_improve, score, gitVars, best, base, rowVars,
                 flushed, stored, stopfile, ghosts>>

Mark ==
  /\ pc = "flush" /\ table > Len(Tables)
  /\ pc' = "claude" /\ flushed' = Len(history) /\ table' = 1
  /\ UNCHANGED <<why, iter, no_improve, score, gitVars, best, base, rowVars,
                 stored, stopfile, ghosts>>

\* The model edits files while claude -p runs.
ClaudeEdits ==
  /\ pc = "claude" /\ muts < MaxEdits
  /\ pc' = "edited" /\ dirty' = TRUE /\ muts' = muts + 1
  /\ UNCHANGED <<why, iter, no_improve, score, commits, staged, others, fileVars,
                 ghosts>>

Claude == pc \in {"claude", "edited"}

\* Variant: a timeout leaves the partial edit in the worktree.
ClaudeFails_NoRevert ==
  /\ Claude /\ "fail" \in env
  /\ pc' = "top"
  /\ UNCHANGED <<why, iter, no_improve, score, gitVars, fileVars, ghosts>>

\* Timeout or exit code: revert_worktree, and the next iteration.  The checkout
\* is from the index: what an earlier iteration staged and left there stays.
ClaudeFails ==
  /\ Claude /\ "fail" \in env
  /\ pc' = "top" /\ dirty' = staged
  /\ UNCHANGED <<why, iter, no_improve, score, commits, staged, others, muts,
                 fileVars, ghosts>>

\* git status, and git add when there is something to commit.
ClaudeDone ==
  /\ Claude
  /\ pc' = IF dirty THEN "commit" ELSE "top"
  /\ staged' = dirty
  /\ UNCHANGED <<why, iter, no_improve, score, commits, dirty, others, muts,
                 fileVars, ghosts>>

\* git commit, whose exit code is not looked at.
Commit ==
  /\ pc = "commit"
  /\ pc' = "measure"
  /\ \/ commits' = Append(commits, muts) /\ dirty' = FALSE /\ staged' = FALSE
     \/ "nocommit" \in env /\ UNCHANGED <<commits, dirty, staged>>
  /\ UNCHANGED <<why, iter, no_improve, score, others, muts, fileVars, ghosts>>

-----------------------------------------------------------------------------
(* MEASURE phase and verdict.                                               *)

Measure ==
  /\ pc = "measure"
  /\ \E s \in Scores : score' = s /\ Record("treatment", s)
  /\ pc' = "verdict"
  /\ UNCHANGED <<why, iter, no_improve, gitVars, best, base, flushVars, stopfile,
                 ghosts>>

\* Variant: anything that works is promoted.
Beats_AnyScore(s, b) == s > 0

\* score > thresh, thresh = best * (1 + EPSILON)
Beats(s, b) == 100 * s > (100 + Epsilon) * b

\* git reset --hard HEAD~1: back by one commit, past the first one if need be.
Reset ==
  /\ commits' = IF Len(commits) > 1 THEN Front(commits) ELSE <<commits[1] - 1>>
  /\ dirty' = FALSE /\ staged' = FALSE /\ others' = FALSE

\* Variant: the mutation that failed the gate stays on the branch.
Revert_KeepFailed ==
  /\ pc = "verdict"
  /\ ~(score > 0 /\ Beats(score, best.score))
  /\ IF score = 0 THEN UNCHANGED <<commits, dirty, staged, others>> ELSE Reset
  /\ no_improve' = no_improve + 1 /\ pc' = "watchdog"
  /\ UNCHANGED <<why, iter, score, muts, fileVars, ghosts>>

\* A score of 0 and a score that is not better are both reverted.
Revert ==
  /\ pc = "verdict"
  /\ ~(score > 0 /\ Beats(score, best.score))
  /\ Reset
  /\ no_improve' = no_improve + 1 /\ pc' = "watchdog"
  /\ UNCHANGED <<why, iter, score, muts, fileVars, ghosts>>

\* open(BEST, 'w') empties the file; best_score reads that as 0.
OpenBest ==
  /\ pc = "verdict"
  /\ score > 0 /\ Beats(score, best.score)
  /\ best' = NoBest /\ pc' = "promote"
  /\ UNCHANGED <<why, iter, no_improve, score, gitVars, base, rowVars, flushVars,
                 stopfile, ghosts>>

WriteBest ==
  /\ pc = "promote"
  /\ best' = [hash |-> Last(commits), score |-> score]
  /\ won' = won \cup {best'}
  /\ no_improve' = 0 /\ pc' = "watchdog"
  /\ UNCHANGED <<why, iter, score, gitVars, base, rowVars, flushVars, stopfile,
                 env, restarts, kills>>

-----------------------------------------------------------------------------
(* Watchdog and plateau detector.                                           *)

\* Variant: only a slower box counts as drift.
Drifted_OneSided(c) == base > 0 /\ 100 * (base - c) > 5 * base

\* drift = (c - base) / base in percent, 0 when base is 0; outside -5..5.
Drifted(c) ==
  base > 0 /\ (100 * (c - base) > 5 * base \/ 100 * (base - c) > 5 * base)

NotDue ==
  /\ pc = "watchdog" /\ iter % K # 0
  /\ pc' = "plateau"
  /\ UNCHANGED <<why, iter, no_improve, score, gitVars, fileVars, ghosts>>

\* The drift note goes to PROPOSALS.md, a tracked file nobody commits.  Without a
\* baseline, open(..., 'w') creates an empty one, which reads as no number.
Watchdog ==
  /\ pc = "watchdog" /\ iter % K = 0
  /\ \E c \in ControlScores :
       /\ Record("control", c)
       /\ \/ base = None /\ base' = 0 /\ pc' = "baseline" /\ UNCHANGED <<why, others>>
          \/ base # None /\ Drifted(c) /\ End("drift") /\ others' = TRUE
             /\ UNCHANGED base
          \/ base # None /\ ~Drifted(c) /\ pc' = "plateau"
             /\ UNCHANGED <<base, why, others>>
  /\ UNCHANGED <<iter, no_improve, score, commits, dirty, staged, muts, best,
                 flushVars, stopfile, ghosts>>

WriteBaseline ==
  /\ pc = "baseline"
  /\ base' = Last(history).score /\ pc' = "plateau"
  /\ UNCHANGED <<why, iter, no_improve, score, gitVars, best, rowVars, flushVars,
                 stopfile, ghosts>>

\* Variant: one config too early.
Plateau_Early ==
  /\ pc = "plateau"
  /\ IF no_improve + 1 >= Patience THEN End("plateau")
                                   ELSE pc' = "top" /\ UNCHANGED why
  /\ UNCHANGED <<iter, no_improve, score, gitVars, fileVars, ghosts>>

Plateau ==
  /\ pc = "plateau"
  /\ IF no_improve >= Patience THEN End("plateau")
                               ELSE pc' = "top" /\ UNCHANGED why
  /\ UNCHANGED <<iter, no_improve, score, gitVars, fileVars, ghosts>>

-----------------------------------------------------------------------------
(* The people and the box around the loop.                                  *)

\* "kill $PID (hard)" (start-loop.sh:40), or the box goes down: in run.sh, the
\* row it was writing may be cut off.
Kill ==
  /\ pc # "done" /\ "kill" \in env
  /\ End("killed") /\ kills' = kills + 1
  /\ torn' \in {torn, torn \/ pc \in {"measure", "watchdog"}}
  /\ UNCHANGED <<iter, no_improve, score, gitVars, best, base, history, flushVars,
                 stopfile, env, won, restarts>>

\* start-loop.sh: the counters start again, the files stay.
Restart ==
  /\ pc = "done" /\ "restart" \in env /\ restarts < MaxRestarts
  /\ pc' = "top" /\ why' = "running" /\ iter' = 0 /\ no_improve' = 0 /\ score' = 0
  /\ restarts' = restarts + 1
  /\ UNCHANGED <<gitVars, fileVars, env, won, kills>>

TouchStop ==
  /\ pc # "done" /\ "stop" \in env /\ ~stopfile
  /\ stopfile' = TRUE
  /\ UNCHANGED <<loopVars, gitVars, best, base, rowVars, flushVars, ghosts>>

\* Somebody edits a tracked file outside treatment/ and kbs/.
EditElsewhere ==
  /\ "edit" \in env /\ ~others
  /\ others' = TRUE
  /\ UNCHANGED <<loopVars, commits, dirty, staged, muts, fileVars, ghosts>>

Next ==
  \/ StopSeen \/ IterationsDone \/ Begin
  \/ FlushSkipped \/ NothingParses \/ Insert \/ InsertFails \/ Mark
  \/ ClaudeEdits \/ ClaudeFails \/ ClaudeDone \/ Commit
  \/ Measure \/ Revert \/ OpenBest \/ WriteBest
  \/ NotDue \/ Watchdog \/ WriteBaseline \/ Plateau
  \/ Kill \/ Restart \/ TouchStop \/ EditElsewhere

Spec == Init /\ [][Next]_vars

-----------------------------------------------------------------------------
(* Properties.                                                              *)

BetweenIterations == pc \in {"top", "done"}
Calm == env \cap {"kill", "nocommit"} = {}
Treatments == {n \in DOMAIN history : history[n].arm = "treatment"}

\* "git keeps only what wins" (AGENT_LOOP.md:95-96): between iterations the
\* worktree is the champion's commit, or the first commit before any champion,
\* when the loop is not killed and git commits what it is asked to.
ChampionAtHead ==
  (BetweenIterations /\ Calm) =>
    ~dirty /\ Last(commits) = IF best = NoBest THEN 0 ELSE best.hash

\* BEST.json is authoritative (loop.sh:75): between iterations nothing on record
\* in HISTORY.jsonl beats the champion by more than EPSILON, and any two champions
\* are more than EPSILON apart, so that no score at the threshold was promoted.  (A
\* kill between the measurement and the verdict leaves a row that was never judged.)
Unbeaten ==
  (BetweenIterations /\ Calm) =>
    /\ \A n \in Treatments :
         100 * history[n].score <= (100 + Epsilon) * best.score
    /\ \A v, x \in won : \/ v = x
                         \/ 100 * v.score > (100 + Epsilon) * x.score
                         \/ 100 * x.score > (100 + Epsilon) * v.score

\* The treatment runs on record after row n.
Later(n) == {m \in Treatments : m > n}

\* The plateau detector stops the loop only when the last PATIENCE configs that
\* were measured were all reverted (loop.sh:121-126).
PlateauIsReal ==
  (why = "plateau" /\ Calm) =>
    /\ Cardinality(Treatments) >= Patience
    /\ \A n \in Treatments :
         Cardinality(Later(n)) < Patience => history[n].hash \notin Range(commits)

\* "if its score drifted >5% from CONTROL_BASELINE -> PAUSE" (AGENT_LOOP.md:52):
\* a loop that goes on after a control run has one within 5% of the baseline,
\* when that baseline is not a first control run that scored 0 (loop.sh:112).
DriftPauses ==
  (pc = "plateau" /\ iter % K = 0 /\ base # 0) =>
    LET c == Last(history).score
    IN  20 * (c - base) <= base /\ 20 * (base - c) <= base

\* The commits of the branch, after the first, that never won.
Stranded ==
  {i \in DOMAIN commits : i > 1 /\ \A w \in won : w.hash # commits[i]}

\* A kill strands at most one mutation on the branch: whatever else goes wrong,
\* the commits that never won are no more than the kills (loop.sh:66,78,84).
StrandedByKills ==
  BetweenIterations => Cardinality(Stranded) <= kills

\* "git keeps only what wins" (AGENT_LOOP.md:95-96): the champion BEST.json
\* names is a commit of the branch.
ChampionCommitted ==
  best # NoBest => best.hash \in Range(commits)

\* "not better -> revert (never keep a regression)" (loop.sh:84): a mutation is
\* promoted only over every earlier champion.
NeverKeepRegression ==
  [][WriteBest => \A w \in won : score > w.score]_vars

\* "git ops are scoped to treatment/ + kbs/ so a revert never touches the fixed
\* harness/referee" (loop.sh:19-20): edits elsewhere survive a revert.
RevertIsScoped ==
  [][Revert => others' = others]_vars

\* "control-drift watchdog every K iterations" (loop.sh:106): when an iteration
\* begins, one control run is on record for every K iterations completed.
WatchdogEveryK ==
  (pc = "claude" /\ restarts = 0) =>
    Len(history) - Cardinality(Treatments) >= (iter - 1) \div K

\* "Tracks a high-water mark (count already flushed)" (flush-ch.sh:3): every row
\* at or below the mark that parses is in all four tables, whatever insert failed
\* and wherever the loop was killed.
FlushedIsStored ==
  \A t \in DOMAIN Tables, n \in 1..flushed : history[n].ok => n \in stored[t]

\* "flushed at the start of the next analytics phase (or at run end)"
\* (AGENT_LOOP.md:59-60): a loop that ended by itself has flushed its rows.
FlushedAtEnd ==
  (pc = "done" /\ why # "killed") => flushed = Len(history)

=============================================================================
