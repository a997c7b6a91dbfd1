----------------------------- MODULE LoopProofs -----------------------------
(***************************************************************************)
(* What the referee keeps on the branch, in BEST.json, in HISTORY.jsonl    *)
(* and in the ClickHouse tables, for any number of iterations, patience,   *)
(* check interval, promotion margin, scores and restarts.                  *)
(***************************************************************************)
EXTENDS OptimizerLoop, FiniteSetTheorems, TLAPS

\* The backends for a leaf that names none, with longer tries if the first fail.
USE SMTT(20), ZenonT(20), SMTT(120), ZenonT(60), SMTT(60)

-----------------------------------------------------------------------------
(* The inductive invariants.                                                *)

\* A plateau is left before the next config is measured, and the baseline is
\* written after a control run.
Patient ==
  /\ pc \in {"top", "flush", "claude", "edited", "commit", "measure", "verdict",
            "promote"} => no_improve < Patience
  /\ why = "plateau" => pc = "done" /\ no_improve >= Patience
  /\ pc = "baseline" => history # <<>>

\* Behind the table that is filled next, every table has all rows that parse.
Filled ==
  /\ FlushedIsStored
  /\ pc = "flush" => \A t \in DOMAIN Tables : t < table => Unflushed \subseteq stored[t]

\* Mutations are numbered as they are made, and an edit in the worktree is newer
\* than everything committed or measured.
Numbered ==
  /\ commits[1] <= 0
  /\ \A i, j \in DOMAIN commits : i < j => commits[i] < commits[j]
  /\ \A i \in DOMAIN commits : commits[i] <= muts
  /\ \A n \in DOMAIN history : history[n].hash <= muts
  /\ dirty => /\ \A i \in DOMAIN commits : commits[i] < muts
              /\ \A n \in DOMAIN history : history[n].hash < muts
  /\ pc = "commit" => dirty
  /\ staged => dirty

\* While a mutation is judged it may be on the branch without having won.
Judging == pc \in {"measure", "verdict", "promote"}
Strands ==
  IF Judging THEN Cardinality(Stranded \ {Len(commits)}) <= kills
             ELSE Cardinality(Stranded) <= kills

\* The commit the next mutation starts from.
Champion == IF best = NoBest THEN 0 ELSE best.hash

Branch ==
  /\ ~dirty \/ pc \in {"claude", "edited", "commit"}
  /\ staged => pc = "commit"
  /\ pc \in {"measure", "verdict"} =>
       Len(commits) > 1 /\ commits[Len(commits) - 1] = Champion
  /\ pc = "promote" => best = NoBest /\ score > 0
  /\ ~Judging => Last(commits) = Champion

\* The row that is being judged.
Pending ==
  pc \in {"verdict", "promote"} =>
    /\ history # <<>> /\ Last(history).arm = "treatment"
    /\ Last(history).score = score /\ Last(history).hash = Last(commits)

\* What every row but the one being judged is measured against.
Within(s, b) == 100 * s <= (100 + Epsilon) * b
Judged ==
  \A n \in Treatments :
    \/ Within(history[n].score, IF pc = "promote" THEN score ELSE best.score)
    \/ pc = "verdict" /\ n = Len(history)

\* The configs measured since the last improvement are not on the branch.
Fresh == IF pc \in {"verdict", "promote"} THEN 1 ELSE 0
Streak ==
  /\ Cardinality(Treatments) >= no_improve + Fresh
  /\ \A n \in Treatments :
       \/ Cardinality(Later(n)) >= no_improve + Fresh
       \/ history[n].hash \notin Range(commits)
       \/ Fresh = 1 /\ n = Len(history)

\* A champion beats all before it by more than EPSILON.
Ranked ==
  /\ \A v \in won : \/ pc = "promote" /\ Beats(score, v.score)
                    \/ pc # "promote" /\ (v = best \/ Beats(best.score, v.score))
  /\ \A v, x \in won : v = x \/ Beats(v.score, x.score) \/ Beats(x.score, v.score)

CalmInv == Calm => Branch /\ Pending /\ Judged /\ Streak /\ Ranked

-----------------------------------------------------------------------------
(* Sequences.                                                               *)

\* What an append leaves and adds.
LEMMA Appended ==
  ASSUME NEW S, NEW q \in Seq(S), NEW e \in S
  PROVE  /\ Append(q, e) \in Seq(S) /\ Append(q, e) # <<>>
         /\ Len(Append(q, e)) = Len(q) + 1 /\ Len(q) \in Nat
         /\ DOMAIN Append(q, e) = DOMAIN q \cup {Len(q) + 1}
         /\ Len(q) + 1 \notin DOMAIN q
         /\ \A i \in DOMAIN q : Append(q, e)[i] = q[i] /\ i \in Nat /\ i <= Len(q)
         /\ Append(q, e)[Len(q) + 1] = e
         /\ Last(Append(q, e)) = e
  BY DEF Last

\* The last element.
LEMMA LastIn ==
  ASSUME NEW S, NEW q \in Seq(S), q # <<>>
  PROVE  /\ Last(q) \in S /\ Last(q) = q[Len(q)] /\ Len(q) \in DOMAIN q
         /\ 1 \in DOMAIN q /\ Len(q) \in Nat \ {0}
         /\ \A i \in DOMAIN q : i \in Nat /\ i >= 1 /\ i <= Len(q)
  BY DEF Last

\* What dropping the last element leaves.
LEMMA FrontOf ==
  ASSUME NEW S, NEW q \in Seq(S), Len(q) > 1
  PROVE  /\ Front(q) \in Seq(S) /\ Front(q) # <<>>
         /\ Len(Front(q)) = Len(q) - 1
         /\ DOMAIN Front(q) = DOMAIN q \ {Len(q)}
         /\ \A i \in DOMAIN Front(q) : Front(q)[i] = q[i]
         /\ Last(Front(q)) = q[Len(q) - 1]
<1>1. Len(q) \in Nat /\ Len(q) - 1 \in 1..Len(q) /\ DOMAIN q = 1..Len(q)
  OBVIOUS
<1>2. /\ Front(q) \in Seq(S) /\ Len(Front(q)) = Len(q) - 1
      /\ \A i \in 1..(Len(q) - 1) : Front(q)[i] = q[i]
  BY <1>1 DEF Front
<1>3. DOMAIN Front(q) = 1..(Len(q) - 1)
  BY <1>2
<1>4. QED
  BY <1>1, <1>2, <1>3 DEF Last

-----------------------------------------------------------------------------
(* Types.                                                                   *)

\* flush-ch.sh fills four tables.
LEMMA TablesDomain == DOMAIN Tables = 1..4 /\ Len(Tables) = 4
  BY DEF Tables

\* TypeOK in four parts.
Rows == [arm : {"treatment", "control"}, hash : Int, score : Nat,
         ok : BOOLEAN]
Flags ==
  /\ env \in Envs
  /\ pc \in {"top", "flush", "claude", "edited", "commit", "measure", "verdict",
             "promote", "watchdog", "baseline", "plateau", "done"}
  /\ why \in {"running", "stop", "iterations", "drift", "plateau", "killed"}
  /\ dirty \in BOOLEAN /\ staged \in BOOLEAN /\ others \in BOOLEAN
  /\ stopfile \in BOOLEAN
Counters ==
  /\ iter \in Nat /\ iter <= MaxIters /\ no_improve \in Nat /\ no_improve <= Patience
  /\ base \in Nat \cup {None} /\ score \in Nat
  /\ muts \in Nat /\ restarts \in Nat /\ restarts <= MaxRestarts /\ kills \in Nat
Files ==
  /\ commits \in Seq(Int) /\ commits # <<>>
  /\ best \in [hash : Int \cup {None}, score : Nat]
  /\ history \in Seq(Rows) /\ torn \in BOOLEAN
  /\ won \subseteq [hash : Int, score : Nat]
Marks ==
  /\ flushed \in Nat /\ flushed <= Len(history) /\ table \in 1..5
  /\ stored \in [1..4 -> SUBSET DOMAIN history]

\* The types, in parts that each group of steps is checked against.
LEMMA TypeParts == TypeOK <=> Flags /\ Counters /\ Files /\ Marks
<1>1. iter \in 0..MaxIters <=> iter \in Nat /\ iter <= MaxIters
  BY LoopAssumption
<1>2. no_improve \in 0..Patience <=> no_improve \in Nat /\ no_improve <= Patience
  BY LoopAssumption
<1>3. restarts \in 0..MaxRestarts <=> restarts \in Nat /\ restarts <= MaxRestarts
  BY LoopAssumption
<1>4. ASSUME history \in Seq(Rows)
      PROVE  flushed \in 0..Len(history)
               <=> flushed \in Nat /\ flushed <= Len(history)
  <2>1. Len(history) \in Nat
    BY <1>4
  <2>2. QED
    BY <2>1
<1>5. table \in 1..(Len(Tables) + 1) <=> table \in 1..5
  BY TablesDomain
<1>6. QED
  BY <1>1, <1>2, <1>3, <1>4, <1>5, TablesDomain, Zenon, ZenonT(60)
     DEF TypeOK, Flags, Counters, Files, Marks, Rows

\* The loop starts with values of their types and no plateau behind it.
LEMMA TypeInit == Init => TypeOK /\ Patient
<1> SUFFICES ASSUME Init PROVE TypeOK /\ Patient
  OBVIOUS
<1>1. Flags
  BY Zenon DEF Init, Flags
<1>2. /\ pc = "top" /\ why = "running" /\ iter = 0 /\ no_improve = 0 /\ score = 0
      /\ commits = <<0>> /\ muts = 0 /\ best = NoBest /\ base = None
      /\ history = <<>> /\ torn = FALSE /\ flushed = 0 /\ table = 1
      /\ stored = [t \in 1..4 |-> {}] /\ won = {} /\ restarts = 0 /\ kills = 0
  BY TablesDomain, Zenon DEF Init
<1>3. Counters /\ Patient
  BY <1>2, LoopAssumption DEF Counters, Patient
<1>4. Files
  <2>1. NoBest \in [hash : Int \cup {None}, score : Nat]
    BY DEF NoBest
  <2>2. <<0>> \in Seq(Int) /\ <<0>> # <<>> /\ <<>> \in Seq(Rows)
    OBVIOUS
  <2>3. QED
    BY <1>2, <2>1, <2>2, Zenon, ZenonT(60) DEF Files
<1>5. Marks
  <2>1. Len(history) = 0
    BY <1>2
  <2>2. QED
    BY <1>2, <2>1 DEF Marks
<1>6. QED
  BY <1>1, <1>3, <1>4, <1>5, TypeParts

\* The last commit and a row of HISTORY.jsonl.
LEMMA RowType ==
  ASSUME Files, NEW a \in {"treatment", "control"}, NEW s \in Nat
  PROVE  /\ Last(commits) \in Int
         /\ Row(a, s) \in Rows
         /\ Row(a, s).arm = a /\ Row(a, s).score = s
         /\ Row(a, s).hash = Last(commits)
<1>1. Last(commits) \in Int
  BY LastIn DEF Files
<1>2. QED
  BY <1>1 DEF Row, Rows, Files

\* Every step keeps the types of the control flags.
LEMMA FlagsNext == Flags /\ [Next]_vars => Flags'
<1> SUFFICES ASSUME Flags, [Next]_vars PROVE Flags'
  OBVIOUS
<1> USE DEF Flags, ghosts, loopVars, gitVars, fileVars, rowVars, flushVars
<1>1. CASE StopSeen \/ IterationsDone \/ Begin \/ FlushSkipped
  BY <1>1, Zenon DEF StopSeen, IterationsDone, Begin, FlushSkipped, End
<1>2. CASE Insert \/ InsertFails \/ NothingParses \/ Mark \/ ClaudeEdits
           \/ ClaudeFails \/ ClaudeDone
  BY <1>2, Zenon DEF Insert, InsertFails, NothingParses, Mark, ClaudeEdits,
                     ClaudeFails, ClaudeDone, Claude
<1>3. CASE Commit \/ Measure \/ OpenBest \/ WriteBest
  BY <1>3, Zenon DEF Commit, Measure, OpenBest, WriteBest
<1>4. CASE Revert \/ NotDue \/ WriteBaseline \/ Plateau
  BY <1>4, Zenon DEF Revert, Reset, NotDue, WriteBaseline, Plateau, End
<1>5. CASE Watchdog
  BY <1>5, Zenon DEF Watchdog, End
<1>6. CASE Kill \/ Restart \/ TouchStop \/ EditElsewhere \/ UNCHANGED vars
  BY <1>6, Zenon DEF Kill, Restart, TouchStop, EditElsewhere, End, vars
<1>7. QED
  BY <1>1, <1>2, <1>3, <1>4, <1>5, <1>6 DEF Next

\* A run of either arm appends a row.
LEMMA RowAdded ==
  ASSUME Files, Measure \/ Watchdog
  PROVE  \E r \in Rows :
           /\ history' = Append(history, r) /\ r.hash = Last(commits) /\ ~torn'
           /\ Measure => r.arm = "treatment" /\ r.score = score'
           /\ Watchdog => r.arm = "control" /\ r.score \in ControlScores
<1>1. CASE Measure
  <2>1. PICK s \in Scores : /\ score' = s /\ ~torn'
                            /\ history' = Append(history, Row("treatment", s))
    BY <1>1, Zenon DEF Measure, Record
  <2>2. ~Watchdog
    BY <1>1 DEF Measure, Watchdog
  <2>3. s \in Nat
    BY LoopAssumption
  <2>4. QED
    BY <2>1, <2>2, <2>3, RowType
<1>2. CASE Watchdog
  <2>1. PICK c \in ControlScores : /\ history' = Append(history, Row("control", c))
                                   /\ ~torn'
    BY <1>2, Zenon DEF Watchdog, Record
  <2>2. ~Measure
    BY <1>2 DEF Measure, Watchdog
  <2>3. c \in Nat
    BY LoopAssumption
  <2>4. QED
    BY <2>1, <2>2, <2>3, RowType
<1>3. QED
  BY <1>1, <1>2

\* Every step keeps the counters natural, and no_improve below the patience.
LEMMA CountersNext ==
  Files /\ Counters /\ Patient /\ [Next]_vars => Counters' /\ Patient'
<1> SUFFICES ASSUME Files, Counters, Patient, [Next]_vars PROVE Counters' /\ Patient'
  OBVIOUS
<1> USE LoopAssumption
    DEF Counters, Patient, ghosts, loopVars, gitVars, fileVars, rowVars, flushVars
<1>1. CASE StopSeen \/ IterationsDone \/ Begin \/ FlushSkipped
  BY <1>1 DEF StopSeen, IterationsDone, Begin, FlushSkipped, End
<1>2. CASE Insert \/ InsertFails \/ NothingParses \/ Mark \/ ClaudeEdits
           \/ ClaudeFails \/ ClaudeDone
  BY <1>2 DEF Insert, InsertFails, NothingParses, Mark, ClaudeEdits, ClaudeFails,
              ClaudeDone, Claude
<1>3. CASE Commit \/ Measure \/ OpenBest \/ WriteBest
  BY <1>3 DEF Commit, Measure, OpenBest, WriteBest
<1>4. CASE Revert \/ NotDue \/ Plateau
  BY <1>4 DEF Revert, NotDue, Plateau, End
<1>5. CASE Watchdog \/ WriteBaseline
  <2>1. CASE Watchdog
    <3>1. /\ UNCHANGED <<iter, no_improve, score, muts, restarts, kills>>
          /\ base' \in {base, 0} /\ why' \in {why, "drift"}
          /\ pc' \in {"done", "baseline", "plateau"} /\ pc = "watchdog"
      BY <2>1, Zenon, ZenonT(60) DEF Watchdog, End
    <3>2. history' # <<>>
      <4>1. PICK r \in Rows : history' = Append(history, r)
        BY <2>1, RowAdded
      <4>2. QED
        BY <4>1, Appended DEF Files
    <3>3. QED
      BY <3>1, <3>2
  <2>2. CASE WriteBaseline
    <3>1. Last(history).score \in Nat
      <4>1. Last(history) \in Rows
        BY <2>2, LastIn DEF WriteBaseline, Files
      <4>2. QED
        BY <4>1 DEF Rows
    <3>2. QED
      BY <2>2, <3>1 DEF WriteBaseline
  <2>3. QED
    BY <1>5, <2>1, <2>2
<1>6. CASE Kill
  BY <1>6 DEF Kill, End
<1>7. CASE Restart
  BY <1>7 DEF Restart
<1>8. CASE TouchStop \/ EditElsewhere \/ UNCHANGED vars
  BY <1>8 DEF TouchStop, EditElsewhere, vars
<1>9. QED
  BY <1>1, <1>2, <1>3, <1>4, <1>5, <1>6, <1>7, <1>8 DEF Next

\* Every other step leaves HISTORY.jsonl alone.
LEMMA HistoryKept ==
  ASSUME [Next]_vars, ~Measure, ~Watchdog
  PROVE  UNCHANGED history /\ (UNCHANGED torn \/ Kill)
<1> USE DEF ghosts, loopVars, gitVars, fileVars, rowVars, flushVars
<1>1. CASE StopSeen \/ IterationsDone \/ Begin \/ FlushSkipped \/ Insert
           \/ InsertFails \/ NothingParses \/ Mark \/ ClaudeEdits \/ ClaudeFails
           \/ ClaudeDone
  BY <1>1, Zenon DEF StopSeen, IterationsDone, Begin, FlushSkipped, Insert,
                     InsertFails, NothingParses, Mark, ClaudeEdits, ClaudeFails,
                     ClaudeDone, Claude
<1>2. CASE \/ Commit \/ Revert \/ OpenBest \/ WriteBest \/ NotDue \/ WriteBaseline
           \/ Plateau
           \/ Kill \/ Restart \/ TouchStop \/ EditElsewhere \/ UNCHANGED vars
  BY <1>2, Zenon DEF Commit, Revert, OpenBest, WriteBest, NotDue, WriteBaseline,
                     Plateau, Kill,
                     Restart, TouchStop, EditElsewhere, vars
<1>3. QED
  BY <1>1, <1>2 DEF Next

\* Only a commit and a revert move the branch.
LEMMA CommitsKept ==
  ASSUME [Next]_vars, ~Commit, ~Revert
  PROVE  UNCHANGED commits
<1> USE DEF ghosts, loopVars, gitVars, fileVars, rowVars, flushVars
<1>1. CASE StopSeen \/ IterationsDone \/ Begin \/ FlushSkipped \/ Insert
           \/ InsertFails \/ NothingParses \/ Mark \/ ClaudeEdits \/ ClaudeFails
           \/ ClaudeDone
  BY <1>1, Zenon DEF StopSeen, IterationsDone, Begin, FlushSkipped, Insert,
                     InsertFails, NothingParses, Mark, ClaudeEdits, ClaudeFails,
                     ClaudeDone, Claude
<1>2. CASE \/ Measure \/ OpenBest \/ WriteBest \/ NotDue \/ WriteBaseline
           \/ Watchdog \/ Plateau
           \/ Kill \/ Restart \/ TouchStop \/ EditElsewhere \/ UNCHANGED vars
  BY <1>2, Zenon DEF Measure, OpenBest, WriteBest, NotDue, WriteBaseline, Watchdog,
                     Plateau,
                     Kill, Restart, TouchStop, EditElsewhere, vars
<1>3. QED
  BY <1>1, <1>2 DEF Next

\* Only a promotion writes BEST.json.
LEMMA BestKept ==
  ASSUME [Next]_vars, ~OpenBest, ~WriteBest
  PROVE  UNCHANGED <<best, won>>
<1> USE DEF ghosts, loopVars, gitVars, fileVars, rowVars, flushVars
<1>1. CASE StopSeen \/ IterationsDone \/ Begin \/ FlushSkipped \/ Insert
           \/ InsertFails \/ NothingParses \/ Mark \/ ClaudeEdits \/ ClaudeFails
           \/ ClaudeDone
  BY <1>1, Zenon DEF StopSeen, IterationsDone, Begin, FlushSkipped, Insert,
                     InsertFails, NothingParses, Mark, ClaudeEdits, ClaudeFails,
                     ClaudeDone, Claude
<1>2. CASE \/ Commit \/ Measure \/ Revert \/ NotDue \/ WriteBaseline \/ Watchdog
           \/ Plateau
           \/ Kill \/ Restart \/ TouchStop \/ EditElsewhere \/ UNCHANGED vars
  BY <1>2, Zenon DEF Commit, Measure, Revert, NotDue, WriteBaseline, Watchdog, Plateau,
                     Kill, Restart, TouchStop, EditElsewhere, vars
<1>3. QED
  BY <1>1, <1>2 DEF Next

\* Every step keeps the repository and the result files well formed.
LEMMA FilesNext == Files /\ Counters /\ [Next]_vars => Files'
<1> SUFFICES ASSUME Files, Counters, [Next]_vars PROVE Files'
  OBVIOUS
<1>1. history' \in Seq(Rows) /\ torn' \in BOOLEAN
  <2>1. CASE Measure \/ Watchdog
    <3>1. PICK r \in Rows : history' = Append(history, r)
      BY <2>1, RowAdded
    <3>2. torn' = FALSE
      BY <2>1, Zenon DEF Measure, Watchdog, Record
    <3>3. QED
      BY <3>1, <3>2, Appended, Zenon, ZenonT(60) DEF Files
  <2>2. CASE Kill
    <3>1. history' = history /\ torn' \in {torn, torn \/ pc \in {"measure", "watchdog"}}
      BY <2>2 DEF Kill
    <3>2. QED
      BY <3>1, Zenon DEF Files
  <2>3. QED
    BY <2>1, <2>2, HistoryKept DEF Files
<1>2. commits' \in Seq(Int) /\ commits' # <<>>
  <2>1. CASE Commit
    <3>1. commits' = Append(commits, muts) \/ commits' = commits
      BY <2>1, Zenon DEF Commit
    <3>2. muts \in Int /\ commits \in Seq(Int) /\ commits # <<>>
      BY DEF Files, Counters
    <3>3. Append(commits, muts) \in Seq(Int) /\ Append(commits, muts) # <<>>
      BY <3>2, Appended
    <3>4. QED
      BY <3>1, <3>2, <3>3, Zenon, ZenonT(60)
  <2>2. CASE Revert
    <3>1. \/ Len(commits) > 1 /\ commits' = Front(commits)
          \/ commits' = <<commits[1] - 1>>
      BY <2>2, Zenon DEF Revert, Reset
    <3>2. CASE Len(commits) > 1 /\ commits' = Front(commits)
      BY <3>2, FrontOf, Zenon, ZenonT(60) DEF Files
    <3>3. CASE commits' = <<commits[1] - 1>>
      BY <3>3, LastIn DEF Files
    <3>4. QED
      BY <3>1, <3>2, <3>3
  <2>3. ASSUME ~Commit, ~Revert PROVE UNCHANGED commits
    BY <2>3, CommitsKept
  <2>4. QED
    BY <2>1, <2>2, <2>3 DEF Files
<1>3. best' \in [hash : Int \cup {None}, score : Nat]
      /\ won' \subseteq [hash : Int, score : Nat]
  <2>1. CASE OpenBest
    BY <2>1 DEF OpenBest, Files, NoBest, ghosts
  <2>2. CASE WriteBest
    <3>1. best' \in [hash : Int, score : Nat] /\ won' = won \cup {best'}
      BY <2>2, LastIn DEF WriteBest, Files, Counters
    <3>2. QED
      BY <3>1 DEF Files
  <2>3. ASSUME ~OpenBest, ~WriteBest PROVE UNCHANGED <<best, won>>
    BY <2>3, BestKept
  <2>4. QED
    BY <2>1, <2>2, <2>3 DEF Files
<1>4. QED
  BY <1>1, <1>2, <1>3 DEF Files

\* The steps that touch neither the mark nor the tables.
LEMMA FlushKept ==
  ASSUME [Next]_vars, ~Begin, ~Insert, ~InsertFails, ~NothingParses, ~Mark
  PROVE  /\ UNCHANGED <<flushed, table, stored>>
         /\ pc' # "flush" \/ (pc' = pc /\ UNCHANGED history)
<1> USE DEF ghosts, loopVars, gitVars, fileVars, rowVars, flushVars
<1>1. CASE StopSeen \/ IterationsDone \/ FlushSkipped
           \/ ClaudeEdits \/ ClaudeFails \/ ClaudeDone \/ Commit \/ Measure
  BY <1>1 DEF StopSeen, IterationsDone, FlushSkipped, End, Measure,
              ClaudeEdits, ClaudeFails, ClaudeDone, Claude, Commit
<1>2. CASE \/ Revert \/ OpenBest \/ WriteBest \/ NotDue \/ WriteBaseline \/ Plateau
           \/ Kill \/ Restart \/ TouchStop \/ EditElsewhere \/ UNCHANGED vars
  BY <1>2, Zenon, ZenonT(60) DEF Revert, OpenBest, WriteBest, NotDue, WriteBaseline,
                                 Plateau, Kill,
              Restart, TouchStop, EditElsewhere, vars, End
<1>3. CASE Watchdog
  <2>1. pc' \in {"done", "baseline", "plateau"}
    BY <1>3, Zenon DEF Watchdog, End
  <2>2. UNCHANGED <<flushed, table, stored>>
    BY <1>3 DEF Watchdog
  <2>3. QED
    BY <2>1, <2>2
<1>4. QED
  BY <1>1, <1>2, <1>3 DEF Next

\* The mark and the tables: the tables before the one filled next are full.
LEMMA MarksNext ==
  ASSUME Files, Marks, Filled, [Next]_vars
  PROVE  Marks' /\ Filled'
<1>1. /\ Len(history) \in Nat /\ flushed \in Nat /\ flushed <= Len(history)
      /\ table \in 1..5 /\ stored \in [1..4 -> SUBSET DOMAIN history]
      /\ DOMAIN history = 1..Len(history)
  BY DEF Files, Marks
<1>2. /\ \A t \in 1..4, n \in 1..flushed : history[n].ok => n \in stored[t]
      /\ pc = "flush" => \A t \in 1..4 : t < table => Unflushed \subseteq stored[t]
  BY TablesDomain DEF Filled, FlushedIsStored
<1>3. ASSUME \A t \in 1..4, n \in 1..flushed' : history'[n].ok => n \in stored'[t],
             pc' = "flush" => \A t \in 1..4 : t < table' => Unflushed' \subseteq stored'[t]
      PROVE  Filled'
  BY <1>3, TablesDomain DEF Filled, FlushedIsStored
<1>4. CASE Begin
  <2>1. table' = 1 /\ UNCHANGED <<flushed, stored, history>>
    BY <1>4 DEF Begin, rowVars
  <2>2. Marks'
    BY <1>1, <2>1 DEF Marks
  <2>3. \A t \in 1..4 : ~(t < table')
    BY <2>1
  <2>4. QED
    BY <1>2, <1>3, <2>1, <2>2, <2>3
<1>5. CASE Insert
  <2>1. /\ table <= 4 /\ stored' = [stored EXCEPT ![table] = stored[table] \cup Unflushed]
        /\ table' = table + 1 /\ UNCHANGED <<flushed, history>>
        /\ pc = "flush" /\ pc' = pc
    BY <1>5, TablesDomain DEF Insert, loopVars, rowVars
  <2>2. table \in 1..4 /\ Unflushed \subseteq DOMAIN history /\ Unflushed' = Unflushed
    BY <1>1, <2>1 DEF Unflushed
  <2>3. \A t \in 1..4 : /\ stored[t] \subseteq stored'[t]
                        /\ t = table => Unflushed \subseteq stored'[t]
    BY <1>1, <2>1, <2>2
  <2>4. Marks'
    BY <1>1, <2>1, <2>2 DEF Marks
  <2>5. \A t \in 1..4 : t < table' => t < table \/ t = table
    BY <2>1, <2>2
  <2>6. QED
    BY <1>2, <1>3, <2>1, <2>2, <2>3, <2>4, <2>5
<1>6. CASE InsertFails
  <2>1. table' = 1 /\ pc' = "claude" /\ UNCHANGED <<flushed, stored, history>>
    BY <1>6 DEF InsertFails, rowVars
  <2>2. Marks'
    BY <1>1, <2>1 DEF Marks
  <2>3. QED
    BY <1>2, <1>3, <2>1, <2>2
<1>7. CASE Mark \/ NothingParses
  <2>1. /\ flushed' = Len(history) /\ table' \in 1..5
        /\ pc' = "claude" /\ UNCHANGED <<stored, history>>
    BY <1>1, <1>7 DEF Mark, NothingParses, rowVars
  <2>2. \A t \in 1..4 : Unflushed \subseteq stored[t]
    <3>1. CASE Mark
      <4>1. pc = "flush" /\ table > 4
        BY <3>1, TablesDomain DEF Mark
      <4>2. \A t \in 1..4 : t < table
        BY <1>1, <4>1
      <4>3. QED
        BY <1>2, <4>1, <4>2
    <3>2. CASE NothingParses
      BY <3>2 DEF NothingParses
    <3>3. QED
      BY <1>7, <3>1, <3>2
  <2>3. ASSUME NEW t \in 1..4, NEW n \in 1..Len(history), history[n].ok
        PROVE  n \in stored[t]
    <3>1. n \in 1..flushed \/ n > flushed
      BY <1>1
    <3>2. CASE n \in 1..flushed
      BY <1>2, <2>3, <3>2
    <3>3. CASE n > flushed
      BY <1>1, <2>2, <2>3, <3>3 DEF Unflushed
    <3>4. QED
      BY <3>1, <3>2, <3>3
  <2>4. Marks'
    BY <1>1, <2>1 DEF Marks
  <2>5. QED
    BY <1>3, <2>1, <2>3, <2>4
<1>8. CASE ~Begin /\ ~Insert /\ ~InsertFails /\ ~NothingParses /\ ~Mark
  <2>1. /\ UNCHANGED <<flushed, table, stored>>
        /\ pc' # "flush" \/ (pc' = pc /\ UNCHANGED history)
    BY <1>8, FlushKept
  <2>2. /\ Len(history') \in Nat /\ Len(history') >= Len(history)
        /\ DOMAIN history \subseteq DOMAIN history'
        /\ \A n \in DOMAIN history : history'[n] = history[n]
    <3>1. CASE Measure \/ Watchdog
      <4>1. PICK r \in Rows : history' = Append(history, r)
        BY <3>1, RowAdded
      <4>2. QED
        BY <4>1, Appended DEF Files
    <3>2. QED
      BY <1>1, <3>1, HistoryKept
  <2>3. Marks'
    BY <1>1, <2>1, <2>2 DEF Marks
  <2>4. \A n \in 1..flushed : n \in DOMAIN history
    BY <1>1
  <2>5. pc' = "flush" => pc = "flush" /\ Unflushed' = Unflushed
    BY <2>1 DEF Unflushed
  <2>6. QED
    BY <1>2, <1>3, <2>1, <2>2, <2>3, <2>4, <2>5
<1>9. QED
  BY <1>4, <1>5, <1>6, <1>7, <1>8

\* Types and the tables, from the start and for every step.
LoopInv == TypeOK /\ Patient /\ Filled

\* The types and the stored rows hold throughout.
LEMMA LoopInvariant == Spec => []LoopInv
<1>1. Init => LoopInv
  <2>1. Init => Filled
    BY TablesDomain DEF Init, Filled, FlushedIsStored
  <2>2. QED
    BY <2>1, TypeInit DEF LoopInv
<1>2. LoopInv /\ [Next]_vars => LoopInv'
  <2> SUFFICES ASSUME LoopInv, [Next]_vars PROVE LoopInv'
    OBVIOUS
  <2>1. Flags /\ Counters /\ Files /\ Marks /\ Patient /\ Filled
    BY TypeParts DEF LoopInv
  <2>2. Flags' /\ Counters' /\ Files' /\ Marks' /\ Patient' /\ Filled'
    BY <2>1, FlagsNext, CountersNext, FilesNext, MarksNext
  <2>3. (Flags /\ Counters /\ Files /\ Marks => TypeOK)'
    BY TypeParts, PTL
  <2>4. QED
    BY <2>2, <2>3 DEF LoopInv
<1>3. QED
  BY <1>1, <1>2, PTL DEF Spec

\* Every row at or below flush-ch.sh's mark that parses is in all four tables: a
\* failed insert and a kill between two inserts leave the mark where it was, and
\* a row that a kill cut off costs the row on its line and no other.
THEOREM MarkedRowsAreStored == Spec => []FlushedIsStored
<1>1. LoopInv => FlushedIsStored
  BY DEF LoopInv, Filled
<1>2. QED
  BY <1>1, LoopInvariant, PTL

-----------------------------------------------------------------------------
(* Control drift.                                                           *)

\* The plateau detector is reached from the watchdog, or not in a K-th iteration.
LEMMA PlateauReached ==
  ASSUME [Next]_vars, ~Watchdog, ~WriteBaseline, pc' = "plateau"
  PROVE  /\ UNCHANGED <<iter, base, history>>
         /\ pc = "plateau" \/ iter % K # 0
<1> USE DEF ghosts, loopVars, gitVars, fileVars, rowVars, flushVars
<1>1. CASE \/ StopSeen \/ IterationsDone \/ Begin \/ FlushSkipped \/ Insert
           \/ InsertFails \/ NothingParses \/ Mark \/ ClaudeEdits \/ ClaudeFails
           \/ ClaudeDone
  BY <1>1 DEF StopSeen, IterationsDone, Begin, FlushSkipped, Insert, End,
              InsertFails, NothingParses, Mark, ClaudeEdits, ClaudeFails, ClaudeDone,
              Claude
<1>2. CASE Commit \/ Measure \/ Revert \/ OpenBest \/ WriteBest
  BY <1>2, Zenon DEF Commit, Measure, Revert, OpenBest, WriteBest
<1>3. CASE NotDue \/ Plateau \/ Kill \/ Restart
  BY <1>3 DEF NotDue, Plateau, Kill, Restart, End
<1>4. CASE TouchStop \/ EditElsewhere \/ UNCHANGED vars
  BY <1>4 DEF TouchStop, EditElsewhere, vars
<1>5. QED
  BY <1>1, <1>2, <1>3, <1>4, Zenon, ZenonT(60) DEF Next

\* The watchdog goes on only within 5%, and no other step leads past it.
LEMMA DriftNext ==
  ASSUME Counters, Files, Patient, DriftPauses, [Next]_vars
  PROVE  DriftPauses'
<1>1. CASE Watchdog
  <2> SUFFICES ASSUME pc' = "plateau", base' # 0
               PROVE  /\ 20 * (Last(history').score - base') <= base'
                      /\ 20 * (base' - Last(history').score) <= base'
    BY DEF DriftPauses
  <2>1. PICK c \in ControlScores : /\ history' = Append(history, Row("control", c))
                                   /\ base' = base /\ base # None /\ ~Drifted(c)
    BY <1>1, Zenon DEF Watchdog, Record, End
  <2>2. c \in Nat /\ base \in Nat \ {0}
    BY <2>1, LoopAssumption DEF Counters
  <2>3. Last(history').score = c
    BY <2>1, <2>2, RowType, Appended DEF Files
  <2>4. 100 * (c - base) <= 5 * base /\ 100 * (base - c) <= 5 * base
    BY <2>1, <2>2 DEF Drifted
  <2>5. QED
    BY <2>1, <2>2, <2>3, <2>4
<1>2. CASE WriteBaseline
  <2>1. base' = Last(history).score /\ history' = history /\ pc = "baseline"
    BY <1>2 DEF WriteBaseline, rowVars
  <2>2. Last(history).score \in Nat
    <3>1. Last(history) \in Rows
      BY <2>1, LastIn DEF Patient, Files
    <3>2. QED
      BY <3>1 DEF Rows
  <2>3. QED
    BY <2>1, <2>2 DEF DriftPauses
<1>3. CASE ~Watchdog /\ ~WriteBaseline
  BY <1>3, PlateauReached DEF DriftPauses
<1>4. QED
  BY <1>1, <1>2, <1>3

\* A loop that goes on after a control run has one within 5% of a baseline
\* above 0, for any scores: a slower and a faster box both pause it.
THEOREM DriftStopsTheLoop == Spec => []DriftPauses
<1>1. Init => DriftPauses
  BY DEF Init, DriftPauses
<1>2. LoopInv /\ DriftPauses /\ [Next]_vars => DriftPauses'
  BY DriftNext, TypeParts DEF LoopInv
<1>3. QED
  BY <1>1, <1>2, LoopInvariant, PTL DEF Spec

-----------------------------------------------------------------------------
(* The branch.                                                              *)

\* The steps that leave the branch alone make nothing new in the worktree.
LEMMA WorkKept ==
  ASSUME [Next]_vars, ~Commit, ~Revert, ~ClaudeEdits, staged => dirty
  PROVE  /\ UNCHANGED <<commits, muts>>
         /\ dirty' => dirty
         /\ staged' => dirty'
         /\ pc' = "commit" => dirty' = dirty /\ (pc = "commit" \/ dirty)
<1> USE DEF ghosts, loopVars, gitVars, fileVars, rowVars, flushVars
<1>1. CASE \/ StopSeen \/ IterationsDone \/ Begin \/ FlushSkipped
           \/ InsertFails \/ NothingParses \/ Mark \/ ClaudeFails \/ ClaudeDone
  BY <1>1 DEF StopSeen, IterationsDone, Begin, FlushSkipped, End,
              InsertFails, NothingParses, Mark, ClaudeFails, ClaudeDone, Claude
<1>2. CASE Insert \/ Measure \/ OpenBest \/ WriteBest \/ NotDue \/ WriteBaseline
  BY <1>2 DEF Insert, Measure, OpenBest, WriteBest, NotDue, WriteBaseline
<1>3. CASE Watchdog
  BY <1>3 DEF Watchdog, End
<1>4. CASE \/ Plateau \/ Kill \/ Restart \/ TouchStop \/ EditElsewhere
           \/ UNCHANGED vars
  BY <1>4 DEF Plateau, Kill, Restart, TouchStop, EditElsewhere, End, vars
<1>5. QED
  BY <1>1, <1>2, <1>3, <1>4, Zenon, ZenonT(60) DEF Next

\* What a commit does.
LEMMA Committed ==
  ASSUME Files, Counters, Commit
  PROVE  /\ pc = "commit" /\ pc' = "measure" /\ UNCHANGED <<muts, history>>
         /\ \/ commits' = Append(commits, muts) /\ ~dirty' /\ ~staged'
            \/ /\ commits' = commits /\ dirty' = dirty /\ staged' = staged
               /\ "nocommit" \in env
  BY DEF Commit, fileVars, rowVars

\* What a revert does.
LEMMA Reverted ==
  ASSUME Revert
  PROVE  /\ pc = "verdict" /\ pc' = "watchdog" /\ UNCHANGED <<muts, history>>
         /\ ~dirty' /\ ~staged'
         /\ \/ Len(commits) > 1 /\ commits' = Front(commits)
            \/ ~(Len(commits) > 1) /\ commits' = <<commits[1] - 1>>
  BY Zenon DEF Revert, Reset, fileVars, rowVars

\* Mutations are numbered in the order they are made.
LEMMA NumberedNext ==
  ASSUME Files, Counters, Numbered, [Next]_vars
  PROVE  Numbered'
<1>1. /\ commits \in Seq(Int) /\ commits # <<>> /\ history \in Seq(Rows)
      /\ muts \in Nat /\ \A n \in DOMAIN history : history[n].hash \in Int
      /\ \A i \in DOMAIN commits : commits[i] \in Int
      /\ 1 \in DOMAIN commits
  <2>1. \A r \in Rows : r.hash \in Int
    BY DEF Rows
  <2>2. QED
    BY <2>1, LastIn DEF Files, Counters
<1>2. CASE Commit
  <2>1. \/ commits' = Append(commits, muts) /\ ~dirty' /\ ~staged'
        \/ commits' = commits /\ dirty' = dirty /\ staged' = staged
    BY <1>2, Committed
  <2>2. pc' # "commit" /\ UNCHANGED <<muts, history>> /\ dirty
    BY <1>2, Committed DEF Numbered
  <2>3. CASE commits' = commits /\ dirty' = dirty /\ staged' = staged
    BY <2>2, <2>3 DEF Numbered
  <2>4. CASE commits' = Append(commits, muts) /\ ~dirty' /\ ~staged'
    <3>1. /\ DOMAIN commits' = DOMAIN commits \cup {Len(commits) + 1}
          /\ \A i \in DOMAIN commits : commits'[i] = commits[i] /\ i \in Nat
                                       /\ i <= Len(commits)
          /\ commits'[Len(commits) + 1] = muts /\ Len(commits) \in Nat
      BY <1>1, <2>4, Appended
    <3>2. \A i \in DOMAIN commits : commits[i] < muts
      BY <2>2 DEF Numbered
    <3>3. commits'[1] <= 0
      BY <1>1, <3>1 DEF Numbered
    <3>4. \A i, j \in DOMAIN commits' : i < j => commits'[i] < commits'[j]
      BY <1>1, <3>1, <3>2 DEF Numbered
    <3>5. \A i \in DOMAIN commits' : commits'[i] <= muts'
      BY <1>1, <2>2, <3>1, <3>2
    <3>6. QED
      BY <2>2, <2>4, <3>3, <3>4, <3>5 DEF Numbered
  <2>5. QED
    BY <2>1, <2>3, <2>4
<1>3. CASE Revert
  <2>1. \/ Len(commits) > 1 /\ commits' = Front(commits)
        \/ commits' = <<commits[1] - 1>>
    BY <1>3, Reverted
  <2>2. pc' # "commit" /\ UNCHANGED <<muts, history>> /\ ~dirty' /\ ~staged'
    BY <1>3, Reverted
  <2>3. CASE commits' = <<commits[1] - 1>>
    <3>1. DOMAIN commits' = {1} /\ commits'[1] = commits[1] - 1
      BY <2>3
    <3>2. commits[1] \in Int /\ commits[1] <= 0
      BY <1>1 DEF Numbered
    <3>3. commits'[1] <= 0 /\ commits'[1] <= muts
      BY <1>1, <3>1, <3>2
    <3>4. QED
      BY <2>2, <3>1, <3>3 DEF Numbered
  <2>4. CASE Len(commits) > 1 /\ commits' = Front(commits)
    <3>1. /\ DOMAIN commits' \subseteq DOMAIN commits
          /\ \A i \in DOMAIN commits' : commits'[i] = commits[i]
          /\ 1 \in DOMAIN commits'
      <4>1. /\ DOMAIN Front(commits) = DOMAIN commits \ {Len(commits)}
            /\ \A i \in DOMAIN Front(commits) : Front(commits)[i] = commits[i]
        BY <1>1, <2>4, FrontOf, Zenon, ZenonT(60)
      <4>2. Len(commits) # 1
        <5>1. \A n \in Nat : n > 1 => n # 1
          OBVIOUS
        <5>2. QED
          BY <1>1, <2>4, <5>1, LastIn
      <4>3. QED
        BY <1>1, <2>4, <4>1, <4>2
    <3>2. QED
      BY <2>2, <2>4, <3>1 DEF Numbered
  <2>5. QED
    BY <2>1, <2>3, <2>4
<1>4. CASE ClaudeEdits
  <2>1. /\ muts' = muts + 1 /\ UNCHANGED <<commits, history>>
        /\ dirty' /\ pc' = "edited"
    BY <1>4 DEF ClaudeEdits, fileVars, rowVars, loopVars
  <2>2. QED
    BY <1>1, <2>1 DEF Numbered
<1>5. CASE ~Commit /\ ~Revert /\ ~ClaudeEdits
  <2>1. /\ UNCHANGED <<commits, muts>> /\ (dirty' => dirty) /\ (staged' => dirty')
        /\ pc' = "commit" => dirty' = dirty /\ (pc = "commit" \/ dirty)
    BY <1>5, WorkKept DEF Numbered
  <2>2. CASE Measure \/ Watchdog
    <3>1. PICK r \in Rows : history' = Append(history, r) /\ r.hash = Last(commits)
      BY <2>2, RowAdded
    <3>2. /\ DOMAIN history' = DOMAIN history \cup {Len(history) + 1}
          /\ \A n \in DOMAIN history : history'[n] = history[n]
          /\ history'[Len(history) + 1] = r
      BY <1>1, <3>1, Appended
    <3>3. r.hash <= muts /\ (dirty => r.hash < muts)
      BY <1>1, <3>1, LastIn DEF Numbered
    <3>4. QED
      BY <2>1, <3>2, <3>3 DEF Numbered
  <2>3. CASE UNCHANGED history
    BY <2>1, <2>3 DEF Numbered
  <2>4. QED
    BY <2>2, <2>3, HistoryKept
<1>6. QED
  BY <1>2, <1>3, <1>4, <1>5

\* The commits that never won, after a step.
LEMMA StrandedFinite ==
  ASSUME Files
  PROVE  IsFiniteSet(Stranded) /\ Cardinality(Stranded) \in Nat
<1>1. IsFiniteSet(1..Len(commits))
  BY FS_Interval DEF Files
<1>2. Stranded \subseteq 1..Len(commits)
  BY DEF Stranded, Files
<1>3. QED
  BY <1>1, <1>2, FS_Subset, FS_CardinalityType, Zenon, ZenonT(60)

\* Only a commit, a revert and a promotion change which commits have not won.
LEMMA StrandedKept ==
  ASSUME [Next]_vars, ~Commit, ~Revert, ~WriteBest
  PROVE  /\ UNCHANGED <<Stranded, commits>>
         /\ \/ UNCHANGED kills /\ (Judging' <=> Judging)
            \/ kills' = kills + 1 /\ ~Judging'
<1> USE DEF ghosts, loopVars, gitVars, fileVars, rowVars, flushVars, Judging
<1>1. UNCHANGED <<commits, won>>
  <2>1. UNCHANGED commits
    BY CommitsKept
  <2>2. OpenBest => UNCHANGED won
    BY DEF OpenBest
  <2>3. QED
    BY <2>1, <2>2, BestKept
<1>2. UNCHANGED Stranded
  BY <1>1 DEF Stranded
<1>3. CASE \/ StopSeen \/ IterationsDone \/ Begin \/ FlushSkipped \/ Insert
           \/ InsertFails \/ NothingParses \/ Mark \/ ClaudeEdits \/ ClaudeFails
  BY <1>1, <1>2, <1>3, Zenon, ZenonT(60)
     DEF StopSeen, IterationsDone, Begin, FlushSkipped, End,
         Insert, InsertFails, NothingParses, Mark, ClaudeEdits, ClaudeFails, Claude
<1>4. CASE ClaudeDone \/ Measure \/ OpenBest \/ NotDue \/ WriteBaseline \/ Plateau
  BY <1>1, <1>2, <1>4 DEF ClaudeDone, Claude, Measure, OpenBest, NotDue,
                          WriteBaseline, Plateau, End
<1>5. CASE Watchdog
  <2>1. pc' \in {"done", "baseline", "plateau"}
    BY <1>5, Zenon DEF Watchdog, End
  <2>2. UNCHANGED kills /\ pc = "watchdog"
    BY <1>5 DEF Watchdog
  <2>3. QED
    BY <1>1, <1>2, <2>1, <2>2
<1>6. CASE Kill \/ Restart \/ TouchStop \/ EditElsewhere \/ UNCHANGED vars
  BY <1>1, <1>2, <1>6 DEF Kill, Restart, TouchStop, EditElsewhere, vars, End
<1>7. QED
  BY <1>3, <1>4, <1>5, <1>6 DEF Next

\* A kill strands the mutation that was being judged; everything else that is
\* not kept is taken off the branch.
LEMMA StrandsNext ==
  ASSUME Files, Counters, Files', Counters', Strands, [Next]_vars
  PROVE  Strands'
<1>1. /\ commits \in Seq(Int) /\ commits # <<>> /\ kills \in Nat
      /\ IsFiniteSet(Stranded) /\ Cardinality(Stranded) \in Nat
  BY StrandedFinite DEF Files, Counters
<1>2. ASSUME NEW X, IsFiniteSet(X), NEW Y, Y \subseteq X
      PROVE  /\ IsFiniteSet(Y) /\ Cardinality(Y) \in Nat
             /\ Cardinality(X) \in Nat /\ Cardinality(Y) <= Cardinality(X)
  BY <1>2, FS_Subset, FS_CardinalityType
<1>3. CASE Commit
  <2>1. Judging' /\ UNCHANGED <<won, kills>> /\ ~Judging
    BY <1>3 DEF Commit, Judging, ghosts
  <2>2. commits' = Append(commits, muts) \/ commits' = commits
    BY <1>3, Committed
  <2>3. Stranded' \ {Len(commits')} \subseteq Stranded
    <3>1. CASE commits' = commits
      BY <2>1, <3>1 DEF Stranded
    <3>2. CASE commits' = Append(commits, muts)
      <4>1. /\ DOMAIN commits' = DOMAIN commits \cup {Len(commits) + 1}
            /\ Len(commits') = Len(commits) + 1
            /\ \A i \in DOMAIN commits : commits'[i] = commits[i]
        <5>1. muts \in Int
          BY DEF Counters
        <5>2. QED
          BY <1>1, <3>2, <5>1, Appended
      <4>2. QED
        BY <2>1, <4>1 DEF Stranded
    <3>3. QED
      BY <2>2, <3>1, <3>2
  <2>4. Cardinality(Stranded) <= kills
    BY <2>1 DEF Strands
  <2>5. Cardinality(Stranded' \ {Len(commits')}) <= kills'
    BY <1>1, <1>2, <2>1, <2>3, <2>4
  <2>6. QED
    BY <2>1, <2>5 DEF Strands
<1>4. CASE Revert
  <2>1. Judging /\ UNCHANGED <<won, kills>> /\ ~Judging'
    BY <1>4 DEF Revert, Judging, ghosts
  <2>2. \/ Len(commits) > 1 /\ commits' = Front(commits)
        \/ commits' = <<commits[1] - 1>>
    BY <1>4, Reverted
  <2>3. Stranded' \subseteq Stranded \ {Len(commits)}
    <3>1. CASE commits' = <<commits[1] - 1>>
      <4>1. \A i \in DOMAIN commits' : ~(i > 1)
        BY <3>1
      <4>2. QED
        BY <4>1 DEF Stranded
    <3>2. CASE Len(commits) > 1 /\ commits' = Front(commits)
      <4>1. /\ DOMAIN commits' = DOMAIN commits \ {Len(commits)}
            /\ \A i \in DOMAIN commits' : commits'[i] = commits[i]
        BY <1>1, <3>2, FrontOf, Zenon, ZenonT(60)
      <4>2. QED
        BY <2>1, <4>1 DEF Stranded
    <3>3. QED
      BY <2>2, <3>1, <3>2
  <2>4. Cardinality(Stranded \ {Len(commits)}) <= kills
    BY <2>1 DEF Strands
  <2>5. IsFiniteSet(Stranded \ {Len(commits)})
    BY <1>1, <1>2
  <2>6. Cardinality(Stranded') <= kills'
    BY <1>1, <1>2, <2>1, <2>3, <2>4, <2>5
  <2>7. QED
    BY <2>1, <2>6 DEF Strands
<1>5. CASE WriteBest
  <2>1. Judging /\ UNCHANGED <<commits, kills>> /\ ~Judging'
    BY <1>5 DEF WriteBest, Judging, gitVars
  <2>2. PICK w : won' = won \cup {w} /\ w.hash = Last(commits)
    <3>1. [hash |-> Last(commits), score |-> score].hash = Last(commits)
      OBVIOUS
    <3>2. QED
      BY <1>5, <3>1 DEF WriteBest
  <2>3. Stranded' \subseteq Stranded \ {Len(commits)}
    BY <1>1, <2>1, <2>2 DEF Stranded, Last
  <2>4. Cardinality(Stranded \ {Len(commits)}) <= kills
    BY <2>1 DEF Strands
  <2>5. IsFiniteSet(Stranded \ {Len(commits)})
    BY <1>1, <1>2
  <2>6. Cardinality(Stranded') <= kills'
    BY <1>1, <1>2, <2>1, <2>3, <2>4, <2>5
  <2>7. QED
    BY <2>1, <2>6 DEF Strands
<1>6. CASE ~Commit /\ ~Revert /\ ~WriteBest
  <2>1. /\ UNCHANGED <<Stranded, commits>>
        /\ \/ UNCHANGED kills /\ (Judging' <=> Judging)
           \/ kills' = kills + 1 /\ ~Judging'
    BY <1>6, StrandedKept
  <2>2. CASE UNCHANGED kills /\ (Judging' <=> Judging)
    BY <2>1, <2>2 DEF Strands
  <2>3. CASE kills' = kills + 1 /\ ~Judging'
    <3>1. Cardinality(Stranded) <= Cardinality(Stranded \ {Len(commits)}) + 1
      <4>1. Cardinality(Stranded \ {Len(commits)}) =
              IF Len(commits) \in Stranded THEN Cardinality(Stranded) - 1
                                           ELSE Cardinality(Stranded)
        BY <1>1, FS_RemoveElement, Zenon, ZenonT(60)
      <4>2. QED
        BY <1>1, <4>1
    <3>2. Cardinality(Stranded \ {Len(commits)}) \in Nat
      BY <1>1, <1>2
    <3>3. Cardinality(Stranded) <= kills + 1
      BY <1>1, <3>1, <3>2 DEF Strands
    <3>4. QED
      BY <2>1, <2>3, <3>3 DEF Strands
  <2>4. QED
    BY <2>1, <2>2, <2>3
<1>7. QED
  BY <1>3, <1>4, <1>5, <1>6

\* A kill strands at most one mutation on the branch, whatever else goes wrong:
\* the commits that never won are no more than the kills.
THEOREM KillsStrandOneEach == Spec => []StrandedByKills
<1>1. Init => Strands
  <2> SUFFICES ASSUME Init PROVE Strands
    OBVIOUS
  <2>1. commits = <<0>> /\ kills = 0 /\ pc = "top"
    BY DEF Init
  <2>2. Stranded = {}
    BY <2>1 DEF Stranded
  <2>3. QED
    BY <2>1, <2>2, FS_EmptySet DEF Strands, Judging
<1>2. LoopInv /\ LoopInv' /\ Strands /\ [Next]_vars => Strands'
  <2>1. LoopInv => Files /\ Counters
    BY TypeParts DEF LoopInv
  <2>2. (LoopInv => Files /\ Counters)'
    BY <2>1, PTL
  <2>3. QED
    BY <2>1, <2>2, StrandsNext
<1>3. Strands => StrandedByKills
  BY DEF Strands, StrandedByKills, Judging, BetweenIterations
<1>4. QED
  BY <1>1, <1>2, <1>3, LoopInvariant, PTL DEF Spec

-----------------------------------------------------------------------------
(* A loop that is not killed and whose commits succeed.                     *)

\* What may go wrong on the box is fixed for a behaviour.
LEMMA EnvKept ==
  ASSUME [Next]_vars
  PROVE  UNCHANGED env
<1> USE DEF ghosts, loopVars, gitVars, fileVars, rowVars, flushVars
<1>1. CASE \/ StopSeen \/ IterationsDone \/ Begin \/ FlushSkipped \/ Insert
           \/ InsertFails \/ NothingParses \/ Mark \/ ClaudeEdits \/ ClaudeFails
           \/ ClaudeDone
           \/ Commit
  BY <1>1, Zenon DEF StopSeen, IterationsDone, Begin, FlushSkipped, Insert,
              InsertFails, NothingParses, Mark, ClaudeEdits, ClaudeFails, ClaudeDone,
              Claude, Commit
<1>2. CASE \/ Measure \/ Revert \/ OpenBest \/ WriteBest \/ NotDue
           \/ WriteBaseline \/ Watchdog
           \/ Plateau \/ Kill \/ Restart \/ TouchStop \/ EditElsewhere
           \/ UNCHANGED vars
  BY <1>2, Zenon DEF Measure, Revert, OpenBest, WriteBest, NotDue, WriteBaseline,
                     Watchdog,
              Plateau, Kill, Restart, TouchStop, EditElsewhere, vars
<1>3. QED
  BY <1>1, <1>2 DEF Next

\* A run that is left alone stays so, and its loop is not killed.
LEMMA CalmStays ==
  ASSUME Calm, [Next]_vars
  PROVE  Calm' /\ ~Kill
  BY EnvKept DEF Calm, Kill

\* The steps outside the claude, commit, measure, verdict and watchdog phases.
Resting == {"top", "flush", "claude", "watchdog", "baseline", "plateau", "done"}

\* The other steps change neither the repository nor the results.
LEMMA QuietSteps ==
  ASSUME [Next]_vars, ~Kill, ~ClaudeEdits, ~ClaudeFails, ~ClaudeDone, ~Commit,
         ~Measure, ~Revert, ~OpenBest, ~WriteBest, ~Watchdog
  PROVE  /\ UNCHANGED <<commits, dirty, staged, best, history>>
         /\ \/ UNCHANGED <<pc, score, no_improve>>
            \/ /\ pc \in Resting \ {"claude"} /\ pc' \in Resting
               /\ no_improve' \in {no_improve, 0}
<1> USE DEF ghosts, loopVars, gitVars, fileVars, rowVars, flushVars, Resting
<1>1. CASE \/ StopSeen \/ IterationsDone \/ Begin \/ FlushSkipped
           \/ InsertFails \/ NothingParses \/ Mark
  BY <1>1, Zenon, ZenonT(60) DEF StopSeen, IterationsDone, Begin, FlushSkipped, End,
                                 InsertFails, NothingParses, Mark
<1>2. CASE Insert \/ NotDue \/ WriteBaseline \/ Plateau \/ Restart
  BY <1>2 DEF Insert, NotDue, WriteBaseline, Plateau, End, Restart
<1>3. CASE TouchStop \/ EditElsewhere \/ UNCHANGED vars
  BY <1>3 DEF TouchStop, EditElsewhere, vars
<1>4. QED
  BY <1>1, <1>2, <1>3, Zenon, ZenonT(60) DEF Next

\* A config is committed, and the one it started from is below it.
LEMMA CalmCommit ==
  ASSUME Files, Counters, Calm, Commit
  PROVE  /\ pc = "commit" /\ pc' = "measure" /\ ~dirty' /\ ~staged'
         /\ commits' = Append(commits, muts)
         /\ UNCHANGED <<history, best, score, no_improve>>
<1>1. "nocommit" \notin env
  BY DEF Calm
<1>2. UNCHANGED <<best, score, no_improve>>
  BY DEF Commit, fileVars
<1>3. QED
  BY <1>1, <1>2, Committed

\* Between iterations the champion is the last commit.
LEMMA BranchNext ==
  ASSUME Files, Counters, Calm, Branch, [Next]_vars
  PROVE  Branch'
<1> USE DEF ghosts, loopVars, gitVars, fileVars, rowVars, flushVars
<1>1. commits \in Seq(Int) /\ commits # <<>> /\ ~Kill
  BY CalmStays, Zenon, ZenonT(60) DEF Files
<1>2. CASE ClaudeEdits \/ ClaudeFails \/ ClaudeDone
  BY <1>2 DEF ClaudeEdits, ClaudeFails, ClaudeDone, Claude, Branch, Champion, Judging
<1>3. CASE Commit
  <2>1. /\ pc = "commit" /\ pc' = "measure" /\ ~dirty' /\ ~staged' /\ best' = best
        /\ commits' = Append(commits, muts)
    BY <1>3, CalmCommit
  <2>2. Len(commits) \in Nat \ {0} /\ Last(commits) = commits[Len(commits)]
        /\ Len(commits) \in DOMAIN commits
    BY <1>1, LastIn
  <2>3. Len(commits') = Len(commits) + 1 /\ commits'[Len(commits)] = commits[Len(commits)]
    BY <1>1, <2>1, <2>2, Appended DEF Counters
  <2>4. Last(commits) = Champion /\ Champion' = Champion
    BY <2>1 DEF Branch, Judging, Champion
  <2>5. Len(commits') > 1 /\ commits'[Len(commits') - 1] = Champion'
    <3>1. Len(commits') - 1 = Len(commits) /\ Len(commits') > 1
      BY <2>2, <2>3
    <3>2. QED
      BY <2>2, <2>3, <2>4, <3>1
  <2>6. QED
    BY <2>1, <2>5 DEF Branch, Judging
<1>4. CASE Measure
  BY <1>4 DEF Measure, Branch, Champion, Judging
<1>5. CASE Revert
  <2>1. pc = "verdict" /\ pc' = "watchdog" /\ best' = best
    BY <1>5 DEF Revert
  <2>2. Len(commits) > 1 /\ commits[Len(commits) - 1] = Champion
    BY <2>1 DEF Branch
  <2>3. commits' = Front(commits) /\ ~dirty' /\ ~staged'
    BY <1>5, <2>2, Reverted
  <2>4. Last(commits') = Champion
    BY <1>1, <2>2, <2>3, FrontOf, Zenon, ZenonT(60)
  <2>5. QED
    BY <2>1, <2>3, <2>4 DEF Branch, Judging, Champion
<1>6. CASE OpenBest
  BY <1>6 DEF OpenBest, Branch, Champion, Judging
<1>7. CASE WriteBest
  <2>1. /\ pc = "promote" /\ pc' = "watchdog" /\ UNCHANGED <<commits, dirty, staged>>
        /\ best' = [hash |-> Last(commits), score |-> score]
    BY <1>7 DEF WriteBest
  <2>2. ~dirty /\ ~staged /\ score > 0
    BY <2>1 DEF Branch
  <2>3. best' # NoBest /\ best'.hash = Last(commits)
    <3>1. NoBest.score = 0 /\ best'.score = score
      BY <2>1 DEF NoBest
    <3>2. QED
      BY <2>1, <2>2, <3>1 DEF Counters
  <2>4. QED
    BY <2>1, <2>2, <2>3 DEF Branch, Judging, Champion
<1>8. CASE Watchdog
  <2>1. pc' \in {"done", "baseline", "plateau"}
    BY <1>8, Zenon DEF Watchdog, End
  <2>2. pc = "watchdog" /\ UNCHANGED <<commits, dirty, staged, best>>
    BY <1>8 DEF Watchdog
  <2>3. QED
    BY <2>1, <2>2 DEF Branch, Judging, Champion
<1>9. CASE /\ UNCHANGED <<commits, dirty, staged, best>>
           /\ \/ UNCHANGED <<pc, score>>
              \/ pc \in Resting \ {"claude"} /\ pc' \in Resting
  BY <1>9 DEF Branch, Judging, Champion, Resting
<1>10. QED
  BY <1>1, <1>2, <1>3, <1>4, <1>5, <1>6, <1>7, <1>8, <1>9, QuietSteps

\* The row that is judged is the last one, of the last commit.
LEMMA PendingNext ==
  ASSUME Files, Counters, Calm, Pending, [Next]_vars
  PROVE  Pending'
<1> USE DEF ghosts, loopVars, gitVars, fileVars, rowVars, flushVars
<1>1. CASE Measure
  <2>1. PICK r \in Rows : /\ history' = Append(history, r) /\ r.hash = Last(commits)
                          /\ r.arm = "treatment" /\ r.score = score'
    BY <1>1, RowAdded
  <2>2. Last(history') = r /\ history' # <<>>
    BY <2>1, Appended DEF Files
  <2>3. commits' = commits
    BY <1>1 DEF Measure
  <2>4. QED
    BY <2>1, <2>2, <2>3 DEF Pending
<1>2. CASE OpenBest
  BY <1>2, Zenon, ZenonT(60) DEF OpenBest, Pending
<1>3. CASE ClaudeEdits \/ ClaudeFails \/ ClaudeDone \/ Commit \/ Revert \/ WriteBest
  BY <1>3 DEF ClaudeEdits, ClaudeFails, ClaudeDone, Claude, Commit, Revert,
              WriteBest, Pending
<1>4. CASE Watchdog
  BY <1>4, Zenon DEF Watchdog, End, Pending
<1>5. CASE /\ UNCHANGED <<commits, history>>
           /\ UNCHANGED <<pc, score>> \/ pc' \in Resting
  BY <1>5 DEF Pending, Resting
<1>6. QED
  BY <1>1, <1>2, <1>3, <1>4, <1>5, QuietSteps, CalmStays, Zenon, ZenonT(60)

\* The measured rows that count: a treatment run adds itself, a control run
\* nothing, and no row that is there changes.
LEMMA TreatmentsGrow ==
  ASSUME Files, Measure
  PROVE  /\ Len(history') = Len(history) + 1 /\ Len(history) \in Nat
         /\ Len(history) + 1 \notin Treatments
         /\ Treatments' = Treatments \cup {Len(history) + 1}
         /\ \A n \in Treatments : /\ history'[n] = history[n] /\ n # Len(history')
                                  /\ Later(n)' = Later(n) \cup {Len(history) + 1}
<1>1. PICK r \in Rows : history' = Append(history, r) /\ r.arm = "treatment"
  BY RowAdded
<1>2. /\ Len(history') = Len(history) + 1 /\ Len(history) \in Nat
      /\ DOMAIN history' = DOMAIN history \cup {Len(history) + 1}
      /\ Len(history) + 1 \notin DOMAIN history
      /\ \A i \in DOMAIN history : history'[i] = history[i] /\ i \in Nat /\ i <= Len(history)
      /\ history'[Len(history) + 1] = r
  BY <1>1, Appended DEF Files
<1>3. Treatments' = Treatments \cup {Len(history) + 1}
  BY <1>1, <1>2, Zenon DEF Treatments
<1>4. ASSUME NEW n \in Treatments
      PROVE  Later(n)' = Later(n) \cup {Len(history) + 1}
  <2>1. n \in Nat /\ n <= Len(history) /\ Len(history) + 1 > n
    BY <1>2 DEF Treatments
  <2>2. QED
    BY <1>3, <2>1, Zenon DEF Later
<1>5. \A n \in Treatments : n \in DOMAIN history
  BY DEF Treatments
<1>6. QED
  BY <1>2, <1>3, <1>4, <1>5

\* Only a measurement adds a treatment row.
LEMMA TreatmentsKept ==
  ASSUME Files, [Next]_vars, ~Measure
  PROVE  /\ Treatments' = Treatments
         /\ \A n \in Treatments : history'[n] = history[n] /\ Later(n)' = Later(n)
<1>1. CASE Watchdog
  <2>1. PICK r \in Rows : history' = Append(history, r) /\ r.arm = "control"
    BY <1>1, RowAdded
  <2>2. /\ DOMAIN history' = DOMAIN history \cup {Len(history) + 1}
        /\ \A i \in DOMAIN history : history'[i] = history[i]
        /\ history'[Len(history) + 1] = r
    BY <2>1, Appended DEF Files
  <2>3. history'[Len(history) + 1].arm # "treatment"
    BY <2>1, <2>2
  <2>4. Treatments' = Treatments
    BY <2>2, <2>3, Zenon DEF Treatments
  <2>5. \A n \in Treatments : n \in DOMAIN history
    BY DEF Treatments
  <2>6. QED
    BY <2>2, <2>4, <2>5, Zenon DEF Later
<1>2. CASE UNCHANGED history
  BY <1>2 DEF Treatments, Later
<1>3. QED
  BY <1>1, <1>2, HistoryKept

\* What the margin EPSILON says of two scores.
LEMMA Margins ==
  ASSUME NEW s \in Nat, NEW b \in Nat
  PROVE  /\ ~(s > 0 /\ Beats(s, b)) => Within(s, b)
         /\ Within(s, s)
         /\ Beats(s, b) => \A r \in Nat : Within(r, b) => Within(r, s)
         /\ Beats(s, b) => \A r \in Nat : Beats(b, r) => Beats(s, r)
<1>1. Epsilon \in Nat
  BY LoopAssumption
<1>2. /\ (100 + Epsilon) * b \in Nat /\ Epsilon * s \in Nat
      /\ (100 + Epsilon) * s = 100 * s + Epsilon * s
  BY <1>1
<1>3. Within(s, s)
  BY <1>2 DEF Within
<1>4. ~(s > 0 /\ Beats(s, b)) => Within(s, b)
  BY <1>2 DEF Within, Beats
<1>5. Beats(s, b) => \A r \in Nat : Within(r, b) => Within(r, s)
  BY <1>2 DEF Within, Beats
<1>6. Beats(s, b) => \A r \in Nat : Beats(b, r) => Beats(s, r)
  <2> SUFFICES ASSUME NEW r \in Nat, Beats(s, b), Beats(b, r)
               PROVE  Beats(s, r)
    OBVIOUS
  <2>1. Epsilon * b \in Nat /\ (100 + Epsilon) * b = 100 * b + Epsilon * b
    BY <1>1
  <2>2. (100 + Epsilon) * r \in Nat
    BY <1>1
  <2>3. 100 * s > (100 + Epsilon) * b /\ 100 * b > (100 + Epsilon) * r
    BY DEF Beats
  <2>4. 100 * s > (100 + Epsilon) * r
    <3>1. \A x, y, z, w \in Int : x > y /\ y = z + w /\ w >= 0 => x > z
      OBVIOUS
    <3>2. 100 * s > 100 * b
      BY <2>1, <2>3, <3>1
    <3>3. QED
      BY <2>2, <2>3, <3>2
  <2>5. QED
    BY <2>4 DEF Beats
<1>7. QED
  BY <1>3, <1>4, <1>5, <1>6

\* Which steps move the champion's score or the verdict.
LEMMA VerdictSteps ==
  ASSUME [Next]_vars, ~Kill, ~Measure, ~Revert, ~OpenBest, ~WriteBest
  PROVE  /\ UNCHANGED best
         /\ \/ UNCHANGED <<pc, score, no_improve>>
            \/ /\ pc \notin {"verdict", "promote"} /\ pc' \notin {"verdict", "promote"}
               /\ no_improve' \in {no_improve, 0}
<1> USE DEF ghosts, loopVars, gitVars, fileVars, rowVars, flushVars
<1>1. CASE ClaudeEdits \/ ClaudeFails \/ ClaudeDone \/ Commit
  BY <1>1 DEF ClaudeEdits, ClaudeFails, ClaudeDone, Claude, Commit
<1>2. CASE Watchdog
  <2>1. pc' \in {"done", "baseline", "plateau"}
    BY <1>2, Zenon DEF Watchdog, End
  <2>2. pc = "watchdog" /\ UNCHANGED <<best, no_improve>>
    BY <1>2 DEF Watchdog
  <2>3. QED
    BY <2>1, <2>2
<1>3. CASE ~(ClaudeEdits \/ ClaudeFails \/ ClaudeDone \/ Commit \/ Watchdog)
  BY <1>3, QuietSteps DEF Resting
<1>4. QED
  BY <1>1, <1>2, <1>3, Zenon, ZenonT(60)

\* No row on record beats the champion, but the one that is being judged.
LEMMA JudgedNext ==
  ASSUME Files, Counters, Calm, Pending, Judged, [Next]_vars
  PROVE  Judged'
<1>1. /\ history \in Seq(Rows) /\ score \in Nat /\ best.score \in Nat /\ ~Kill
      /\ \A n \in Treatments : n \in DOMAIN history /\ history[n].score \in Nat
  <2>1. \A r \in Rows : r.score \in Nat
    BY DEF Rows
  <2>2. QED
    BY <2>1, CalmStays DEF Files, Counters, Treatments
<1>2. CASE Measure
  <2>1. pc = "measure" /\ pc' = "verdict" /\ best' = best
    BY <1>2 DEF Measure
  <2>2. \A n \in Treatments : Within(history[n].score, best.score)
    BY <2>1 DEF Judged
  <2>3. ASSUME NEW n \in Treatments' 
        PROVE  Within(history'[n].score, best'.score) \/ n = Len(history')
    BY <1>2, <2>1, <2>2, TreatmentsGrow, Zenon, ZenonT(60) DEF Within
  <2>4. QED
    BY <2>1, <2>3 DEF Judged, Within
<1>3. CASE Revert
  <2>1. /\ pc = "verdict" /\ pc' = "watchdog" /\ best' = best
        /\ ~(score > 0 /\ Beats(score, best.score))
    BY <1>3 DEF Revert, fileVars
  <2>2. Within(score, best.score)
    BY <1>1, <2>1, Margins, Zenon, ZenonT(60)
  <2>3. history[Len(history)].score = score
    BY <2>1 DEF Pending, Last
  <2>4. \A n \in Treatments : Within(history[n].score, best.score)
    BY <2>1, <2>2, <2>3 DEF Judged
  <2>5. ~Measure
    BY <2>1 DEF Measure
  <2>6. QED
    BY <2>1, <2>4, <2>5, TreatmentsKept DEF Judged, Within
<1>4. CASE OpenBest
  <2>1. /\ pc = "verdict" /\ pc' = "promote" /\ score' = score
        /\ Beats(score, best.score)
    BY <1>4 DEF OpenBest
  <2>2. history[Len(history)].score = score
    BY <2>1 DEF Pending, Last
  <2>3. \A n \in Treatments : Within(history[n].score, score)
    BY <1>1, <2>1, <2>2, Margins DEF Judged
  <2>4. ~Measure
    BY <2>1 DEF Measure
  <2>5. QED
    BY <2>1, <2>3, <2>4, TreatmentsKept DEF Judged, Within
<1>5. CASE WriteBest
  <2>1. pc = "promote" /\ pc' = "watchdog" /\ best'.score = score
    BY <1>5 DEF WriteBest
  <2>2. ~Measure
    BY <2>1 DEF Measure
  <2>3. QED
    BY <2>1, <2>2, TreatmentsKept DEF Judged, Within
<1>6. CASE ~(Measure \/ Revert \/ OpenBest \/ WriteBest)
  <2>1. /\ UNCHANGED best
        /\ \/ UNCHANGED <<pc, score>>
           \/ pc \notin {"verdict", "promote"} /\ pc' \notin {"verdict", "promote"}
    BY <1>1, <1>6, VerdictSteps, Zenon, ZenonT(60)
  <2>2. /\ Treatments' = Treatments /\ \A n \in Treatments : history'[n] = history[n]
    BY <1>6, TreatmentsKept, Zenon, ZenonT(60)
  <2>3. CASE pc \notin {"verdict", "promote"} /\ pc' \notin {"verdict", "promote"}
    BY <2>1, <2>2, <2>3, Zenon, ZenonT(60) DEF Judged, Within
  <2>4. CASE UNCHANGED <<pc, score>>
    <3>1. Len(history') = Len(history) \/ pc # "verdict"
      <4>1. Watchdog => pc # "verdict"
        BY DEF Watchdog
      <4>2. QED
        BY <1>6, <4>1, HistoryKept
    <3>2. QED
      BY <2>1, <2>2, <2>4, <3>1 DEF Judged, Within
  <2>5. QED
    BY <2>1, <2>3, <2>4
<1>7. QED
  BY <1>2, <1>3, <1>4, <1>5, <1>6, Zenon, ZenonT(60)

\* The rows on record are finitely many.
LEMMA RowsFinite ==
  ASSUME Files
  PROVE  /\ IsFiniteSet(Treatments) /\ Cardinality(Treatments) \in Nat
         /\ \A n : IsFiniteSet(Later(n)) /\ Cardinality(Later(n)) \in Nat
<1>1. IsFiniteSet(1..Len(history))
  BY FS_Interval DEF Files
<1>2. Treatments \subseteq 1..Len(history) /\ \A n : Later(n) \subseteq 1..Len(history)
  BY DEF Treatments, Later, Files
<1>3. \A T \in SUBSET (1..Len(history)) : IsFiniteSet(T) /\ Cardinality(T) \in Nat
  BY <1>1, FS_Subset, FS_CardinalityType, Zenon, ZenonT(60)
<1>4. QED
  BY <1>2, <1>3

\* A revert takes the judged config off the branch and no other comes back.
LEMMA RevertedOff ==
  ASSUME Files, Counters, Numbered, Len(commits) > 1
  PROVE  /\ Last(commits) \notin Range(Front(commits))
         /\ Range(Front(commits)) \subseteq Range(commits)
<1>1. /\ DOMAIN Front(commits) = DOMAIN commits \ {Len(commits)}
      /\ \A i \in DOMAIN Front(commits) : Front(commits)[i] = commits[i]
  BY FrontOf, Zenon, ZenonT(60) DEF Files
<1>2. /\ Last(commits) = commits[Len(commits)] /\ Len(commits) \in DOMAIN commits
      /\ \A i \in DOMAIN commits : i \in Nat /\ i <= Len(commits) /\ commits[i] \in Int
      /\ Len(commits) \in Nat
  BY LastIn DEF Files
<1>3. \A i \in DOMAIN Front(commits) : commits[i] # Last(commits)
  <2>1. \A i \in DOMAIN Front(commits) : i < Len(commits)
    BY <1>1, <1>2
  <2>2. QED
    BY <1>1, <1>2, <2>1 DEF Numbered
<1>4. QED
  BY <1>1, <1>3 DEF Range

\* The rows measured since the last improvement are of configs that were reverted.
LEMMA StreakNext ==
  ASSUME Files, Counters, Calm, Numbered, Branch, Pending, Streak, [Next]_vars
  PROVE  Streak'
<1>1. no_improve \in Nat /\ Fresh \in {0, 1} /\ Fresh' \in {0, 1} /\ ~Kill
  BY CalmStays DEF Counters, Fresh
<1>2. /\ IsFiniteSet(Treatments) /\ Cardinality(Treatments) \in Nat
      /\ \A n : IsFiniteSet(Later(n)) /\ Cardinality(Later(n)) \in Nat
  BY RowsFinite, Zenon, ZenonT(60)
<1>3. CASE Measure
  <2>1. pc = "measure" /\ pc' = "verdict" /\ UNCHANGED <<commits, no_improve>>
    BY <1>3 DEF Measure, gitVars
  <2>2. Fresh = 0 /\ Fresh' = 1
    BY <2>1, Zenon, ZenonT(60) DEF Fresh
  <2>3. /\ Len(history') = Len(history) + 1 /\ Len(history) + 1 \notin Treatments
        /\ Treatments' = Treatments \cup {Len(history) + 1}
        /\ \A n \in Treatments : /\ history'[n] = history[n]
                                 /\ Later(n)' = Later(n) \cup {Len(history) + 1}
    BY <1>3, TreatmentsGrow
  <2>4. Cardinality(Treatments') = Cardinality(Treatments) + 1
    BY <1>2, <2>3, FS_AddElement, Zenon, ZenonT(60)
  <2>5. ASSUME NEW n \in Treatments
        PROVE  Cardinality(Later(n)') = Cardinality(Later(n)) + 1
    <3>1. Len(history) + 1 \notin Later(n)
      BY <2>3, Zenon, ZenonT(60) DEF Later
    <3>2. QED
      BY <1>2, <2>3, <3>1, FS_AddElement
  <2>6. ASSUME NEW n \in Treatments
        PROVE  \/ Cardinality(Later(n)') >= no_improve' + Fresh'
               \/ history'[n].hash \notin Range(commits')
    <3>1. Cardinality(Later(n)) >= no_improve \/ history[n].hash \notin Range(commits)
      BY <1>1, <2>2 DEF Streak
    <3>2. QED
      BY <1>1, <1>2, <2>1, <2>2, <2>3, <2>5, <3>1
  <2>7. Cardinality(Treatments') >= no_improve' + Fresh'
    BY <1>1, <1>2, <2>1, <2>2, <2>4 DEF Streak
  <2>8. QED
    BY <2>2, <2>3, <2>6, <2>7 DEF Streak
<1>4. CASE ~Measure
  <2>1. /\ Treatments' = Treatments
        /\ \A n \in Treatments : history'[n] = history[n] /\ Later(n)' = Later(n)
    BY <1>4, TreatmentsKept, Zenon, ZenonT(60)
  <2>2. CASE Revert
    <3>1. /\ pc = "verdict" /\ pc' = "watchdog" /\ no_improve' = no_improve + 1
      BY <2>2 DEF Revert
    <3>2. Fresh = 1 /\ Fresh' = 0 /\ no_improve' + Fresh' = no_improve + Fresh
      BY <1>1, <3>1 DEF Fresh
    <3>3. Len(commits) > 1
      BY <3>1 DEF Branch
    <3>4. commits' = Front(commits)
      BY <2>2, <3>3, Reverted, Zenon, ZenonT(60)
    <3>5. /\ history[Len(history)].hash \notin Range(commits')
          /\ Range(commits') \subseteq Range(commits)
      BY <3>1, <3>3, <3>4, RevertedOff, Zenon, ZenonT(60) DEF Pending, Last
    <3>6. ASSUME NEW n \in Treatments
          PROVE  \/ Cardinality(Later(n)) >= no_improve' + Fresh'
                 \/ history[n].hash \notin Range(commits')
      BY <3>2, <3>5, Zenon, ZenonT(60) DEF Streak
    <3>7. QED
      BY <2>1, <3>2, <3>6 DEF Streak
  <2>3. CASE OpenBest
    <3>1. /\ pc = "verdict" /\ pc' = "promote"
          /\ UNCHANGED <<no_improve, commits, history>>
      BY <2>3 DEF OpenBest, gitVars, rowVars
    <3>2. Fresh' = Fresh
      BY <3>1, Zenon, ZenonT(60) DEF Fresh
    <3>3. QED
      BY <2>1, <3>1, <3>2 DEF Streak
  <2>4. CASE WriteBest
    <3>1. pc' = "watchdog" /\ no_improve' = 0
      BY <2>4 DEF WriteBest
    <3>2. no_improve' + Fresh' = 0
      BY <3>1 DEF Fresh
    <3>3. QED
      BY <1>2, <2>1, <3>2 DEF Streak
  <2>5. CASE ~(Revert \/ OpenBest \/ WriteBest)
    <3>1. \/ UNCHANGED <<pc, no_improve>>
          \/ /\ pc \notin {"verdict", "promote"} /\ pc' \notin {"verdict", "promote"}
             /\ no_improve' \in {no_improve, 0}
      BY <1>1, <1>4, <2>5, VerdictSteps
    <3>2. Fresh' = Fresh /\ no_improve' + Fresh' <= no_improve + Fresh
          /\ no_improve' + Fresh' \in Nat
      BY <1>1, <3>1 DEF Fresh
    <3>3. Fresh = 1 => Len(history') = Len(history)
      <4>1. Watchdog => Fresh = 0
        BY DEF Watchdog, Fresh
      <4>2. QED
        BY <1>4, <4>1, HistoryKept
    <3>4. ASSUME NEW n \in Treatments, history[n].hash \notin Range(commits)
          PROVE  history[n].hash \notin Range(commits')
      <4>1. CASE Commit
        <5>1. commits' = Append(commits, muts) /\ pc = "commit"
          BY <4>1, CalmCommit
        <5>2. history[n].hash < muts /\ history[n].hash \in Int /\ muts \in Nat
          <6>1. n \in DOMAIN history /\ dirty
            BY <5>1, Zenon, ZenonT(60) DEF Numbered, Treatments
          <6>2. history[n].hash < muts
            BY <6>1 DEF Numbered
          <6>3. \A r \in Rows : r.hash \in Int
            BY DEF Rows
          <6>4. history[n] \in Rows /\ muts \in Nat
            BY <6>1 DEF Files, Counters
          <6>5. QED
            BY <6>2, <6>3, <6>4, Zenon, ZenonT(60)
        <5>3. /\ DOMAIN commits' = DOMAIN commits \cup {Len(commits) + 1}
              /\ \A i \in DOMAIN commits : commits'[i] = commits[i]
              /\ commits'[Len(commits) + 1] = muts
          BY <5>1, Appended DEF Files, Counters
        <5>4. history[n].hash # muts
          BY <5>2
        <5>5. QED
          BY <3>4, <5>3, <5>4 DEF Range
      <4>2. CASE ~Commit
        BY <1>1, <2>5, <3>4, <4>2, CommitsKept, Zenon, ZenonT(60)
      <4>3. QED
        BY <4>1, <4>2, Zenon, ZenonT(60)
    <3>5. ASSUME NEW n \in Treatments
          PROVE  \/ Cardinality(Later(n)) >= no_improve' + Fresh'
                 \/ history[n].hash \notin Range(commits')
                 \/ Fresh' = 1 /\ n = Len(history')
      <4>1. \/ Cardinality(Later(n)) >= no_improve + Fresh
            \/ history[n].hash \notin Range(commits)
            \/ Fresh = 1 /\ n = Len(history)
        BY DEF Streak
      <4>2. Cardinality(Later(n)) >= no_improve + Fresh
            => Cardinality(Later(n)) >= no_improve' + Fresh'
        BY <1>1, <1>2, <3>2
      <4>3. QED
        BY <3>2, <3>3, <3>4, <4>1, <4>2, Zenon, ZenonT(60)
    <3>6. Cardinality(Treatments) >= no_improve' + Fresh'
      BY <1>1, <1>2, <3>2 DEF Streak
    <3>7. QED
      BY <2>1, <3>5, <3>6 DEF Streak
  <2>6. QED
    BY <2>2, <2>3, <2>4, <2>5, Zenon, ZenonT(60)
<1>5. QED
  BY <1>3, <1>4

\* A promotion over the champion is one over all before it.
LEMMA RankedNext ==
  ASSUME Files, Counters, Calm, Ranked, [Next]_vars
  PROVE  Ranked'
<1>1. /\ score \in Nat /\ best.score \in Nat /\ ~Kill
      /\ \A v \in won : v.score \in Nat
  BY CalmStays DEF Files, Counters
<1>2. CASE OpenBest
  <2>1. /\ pc = "verdict" /\ pc' = "promote" /\ UNCHANGED <<score, won>>
        /\ Beats(score, best.score)
    BY <1>2 DEF OpenBest, ghosts
  <2>2. ASSUME NEW v \in won
        PROVE  Beats(score, v.score)
    <3>1. v = best \/ Beats(best.score, v.score)
      BY <2>1 DEF Ranked
    <3>2. QED
      BY <1>1, <2>1, <3>1, Margins
  <2>3. QED
    BY <2>1, <2>2 DEF Ranked, Beats
<1>3. CASE WriteBest
  <2>1. /\ pc = "promote" /\ pc' = "watchdog" /\ won' = won \cup {best'}
        /\ best'.score = score
    BY <1>3 DEF WriteBest
  <2>2. \A v \in won : Beats(best'.score, v.score)
    BY <2>1 DEF Ranked
  <2>3. QED
    BY <2>1, <2>2 DEF Ranked, Beats
<1>4. CASE ~OpenBest /\ ~WriteBest
  <2>1. UNCHANGED <<best, won>>
    BY <1>4, BestKept
  <2>2. UNCHANGED <<pc, score>> \/ (pc # "promote" /\ pc' # "promote")
    <3>1. CASE Measure \/ Revert
      BY <3>1 DEF Measure, Revert
    <3>2. CASE ~Measure /\ ~Revert
      BY <1>1, <1>4, <3>2, VerdictSteps, Zenon, ZenonT(60)
    <3>3. QED
      BY <3>1, <3>2
  <2>3. QED
    BY <2>1, <2>2 DEF Ranked, Beats
<1>5. QED
  BY <1>2, <1>3, <1>4

\* The invariant behind the three results.
LEMMA CalmInvariant == Spec => [](LoopInv /\ Numbered /\ CalmInv)
<1>1. Init => Numbered /\ CalmInv
  <2> SUFFICES ASSUME Init PROVE Numbered /\ CalmInv
    OBVIOUS
  <2>1. /\ commits = <<0>> /\ history = <<>> /\ muts = 0 /\ dirty = FALSE
        /\ staged = FALSE /\ pc = "top" /\ best = NoBest /\ no_improve = 0 /\ won = {}
    BY DEF Init
  <2>2. Treatments = {} /\ Last(commits) = 0 /\ DOMAIN commits = {1}
    BY <2>1 DEF Treatments, Last
  <2>3. Numbered
    BY <2>1, <2>2 DEF Numbered
  <2>4. Branch /\ Pending
    BY <2>1, <2>2, Zenon, ZenonT(60) DEF Branch, Pending, Champion, Judging
  <2>5. Judged /\ Streak /\ Ranked
    BY <2>1, <2>2, FS_EmptySet DEF Judged, Streak, Fresh, Ranked
  <2>6. QED
    BY <2>3, <2>4, <2>5 DEF CalmInv
<1>2. LoopInv /\ Numbered /\ CalmInv /\ [Next]_vars => Numbered' /\ CalmInv'
  <2> SUFFICES ASSUME LoopInv, Numbered, CalmInv, [Next]_vars
               PROVE  Numbered' /\ CalmInv'
    OBVIOUS
  <2>1. Files /\ Counters
    BY TypeParts DEF LoopInv
  <2>2. Numbered'
    BY <2>1, NumberedNext
  <2>3. CASE Calm
    <3>1. Branch /\ Pending /\ Judged /\ Streak /\ Ranked
      BY <2>3 DEF CalmInv
    <3>2. Branch' /\ Pending' /\ Judged' /\ Streak' /\ Ranked'
      BY <2>1, <2>3, <3>1, BranchNext, PendingNext, JudgedNext, StreakNext, RankedNext,
         Zenon, ZenonT(60)
    <3>3. QED
      BY <2>2, <3>2 DEF CalmInv
  <2>4. CASE ~Calm
    BY <2>2, <2>4, EnvKept DEF CalmInv, Calm
  <2>5. QED
    BY <2>3, <2>4
<1>3. QED
  BY <1>1, <1>2, LoopInvariant, PTL DEF Spec

\* git keeps only what wins: between iterations the last commit is the champion's
\* and the worktree is clean, in every run that is not killed and whose commits
\* succeed.
THEOREM GitKeepsTheChampion == Spec => []ChampionAtHead
<1>1. CalmInv => ChampionAtHead
  BY Zenon, ZenonT(60) DEF CalmInv, ChampionAtHead, BetweenIterations, Branch,
                           Judging, Champion
<1>2. QED
  BY <1>1, CalmInvariant, PTL

\* BEST.json is authoritative: between iterations no treatment run on record beats
\* the champion by more than EPSILON, and any two champions are further apart.
THEOREM ChampionIsUnbeaten == Spec => []Unbeaten
<1>1. CalmInv => Unbeaten
  BY DEF CalmInv, Unbeaten, BetweenIterations, Judged, Within, Ranked, Beats
<1>2. QED
  BY <1>1, CalmInvariant, PTL

\* The plateau detector stops the loop only after PATIENCE runs in a row whose
\* configs were all reverted.
THEOREM PlateausAreReal == Spec => []PlateauIsReal
<1>1. LoopInv /\ CalmInv => PlateauIsReal
  <2> SUFFICES ASSUME LoopInv, CalmInv, why = "plateau", Calm
               PROVE  /\ Cardinality(Treatments) >= Patience
                      /\ \A n \in Treatments : Cardinality(Later(n)) < Patience
                            => history[n].hash \notin Range(commits)
    BY DEF PlateauIsReal
  <2>1. pc = "done" /\ no_improve >= Patience /\ Streak
    BY DEF LoopInv, Patient, CalmInv
  <2>2. Fresh = 0 /\ no_improve \in Nat /\ Patience \in Nat /\ Files
    BY <2>1, TypeParts, LoopAssumption DEF Fresh, LoopInv, Counters
  <2>3. /\ Cardinality(Treatments) \in Nat
        /\ \A n \in Treatments : Cardinality(Later(n)) \in Nat
    BY <2>2, RowsFinite
  <2>4. QED
    BY <2>1, <2>2, <2>3 DEF Streak
<1>2. QED
  BY <1>1, CalmInvariant, PTL
=============================================================================
