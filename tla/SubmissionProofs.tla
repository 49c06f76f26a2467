-------------------------- MODULE SubmissionProofs --------------------------
(***************************************************************************)
(* Theorems about Submission, for every set of requests, users and         *)
(* problems, every limit and any number of failures.                       *)
(***************************************************************************)
EXTENDS Submission, FiniteSetTheorems, TLAPS

----------------------------------------------------------------------------
(* Operators *)

LEMMA NewTaskType ==
    /\ NewTask \in Task
    /\ NewTask.pc = "new"
BY DEF NewTask, Task, Streak, NoStreak

Answers == {"none", "400", "403", "429", "500", "503", "error", "correct", "incorrect",
            "run_result"}

LEMMA AnsweredType ==
    ASSUME IInv, NEW r \in Requests, NEW a \in Answers
    PROVE  /\ Answered(r, a) \in Task
           /\ Answered(r, a).pc = "done" /\ Answered(r, a).answer = a
<1>1. task[r] \in Task BY DEF IInv, TypeOK
<1>2. NewTask \in Task BY NewTaskType
<1>3. QED BY <1>1, <1>2 DEF Answered, Task, Answers

----------------------------------------------------------------------------
(* What a step of one request leaves alone *)

LEMMA TasksKept ==
    ASSUME IInv, NEW r \in Requests, NEW t \in Task, task' = [task EXCEPT ![r] = t],
           attempts \subseteq attempts', sandboxes' \ {r} = sandboxes \ {r},
           faults' \in Nat, faults' >= faults, TaskInv(r)'
    PROVE  /\ task' \in [Requests -> Task]
           /\ \A q \in Requests : TaskInv(q)'
<1>1. task \in [Requests -> Task] /\ faults \in Nat BY DEF IInv, TypeOK
<1>2. task' \in [Requests -> Task] BY <1>1
<1>3. ASSUME NEW q \in Requests, q # r PROVE TaskInv(q)'
  <2>1. task'[q] = task[q] /\ (q \in sandboxes' <=> q \in sandboxes) BY <1>1, <1>3
  <2>2. TaskInv(q) BY DEF IInv
  <2>3. faults > 0 => faults' > 0 BY <1>1
  <2> DEFINE Past(S) == \E a \in S : /\ a.id = q /\ a.user = task[q].user
                                     /\ a.problem = task[q].problem
                                     /\ a.correct = task[q].correct
  <2>4. Past(attempts) => Past(attempts') OBVIOUS
  <2>5. QED BY <2>1, <2>2, <2>3, <2>4 DEF TaskInv
<1>4. QED BY <1>2, <1>3

LEMMA SeenGrows ==
    ASSUME IInv, NEW u \in Users, IsFiniteSet(attempts'), Seen(u) \subseteq Seen(u)',
           streak'[u].n = streak[u].n
    PROVE  streak'[u].n <= Cardinality(Seen(u)')
<1>1. Seen(u)' \subseteq attempts' BY DEF Seen, Accepted
<1>2. IsFiniteSet(Seen(u)') BY <1>1, FS_Subset
<1>3. Cardinality(Seen(u)) <= Cardinality(Seen(u)') BY <1>2, FS_Subset
<1>4. IsFiniteSet(Seen(u)) BY <1>2, FS_Subset
<1>5. Cardinality(Seen(u)) \in Nat /\ Cardinality(Seen(u)') \in Nat
  BY <1>2, <1>4, FS_CardinalityType
<1>6. streak[u].n \in Nat BY DEF IInv, TypeOK, Streak
<1>7. streak[u].n <= Cardinality(Seen(u)) BY DEF IInv, RecordInv
<1>8. QED BY <1>3, <1>5, <1>6, <1>7

LEMMA SeenKept ==
    ASSUME IInv, NEW r \in Requests, NEW t \in Task, task' = [task EXCEPT ![r] = t],
           UNCHANGED <<attempts, streak>>,
           task[r].pc \in AfterAttempt => t.pc \in AfterAttempt,
           t.pc \in {"streak", "write"} => task[r].pc \in {"streak", "write"}
    PROVE  /\ IsFiniteSet(attempts')
           /\ \A a, b \in attempts' : a.id = b.id => a = b
           /\ \A a \in attempts' : task'[a.id].pc \in AfterAttempt
           /\ \A u \in Users : streak'[u].n <= Cardinality(Seen(u)')
<1>1. task \in [Requests -> Task] /\ attempts \subseteq Attempt BY DEF IInv, TypeOK
<1>2. IsFiniteSet(attempts') /\ \A a, b \in attempts' : a.id = b.id => a = b
  BY DEF IInv, RecordInv
<1>3. \A a \in attempts' : task'[a.id].pc \in AfterAttempt
  BY <1>1 DEF IInv, RecordInv, Attempt
<1>4. \A u \in Users : Seen(u) \subseteq Seen(u)' BY <1>1 DEF Seen, Accepted, Attempt
<1>5. QED BY <1>2, <1>3, <1>4, SeenGrows

LEMMA RecordKept ==
    ASSUME IInv, NEW r \in Requests, NEW t \in Task, task' = [task EXCEPT ![r] = t],
           UNCHANGED stats,
           task[r].pc \in AfterAttempt => t.pc \in AfterAttempt,
           t.pc \in {"streak", "write"} => task[r].pc \in {"streak", "write"}
    PROVE  RecordInv'
<1>1. UNCHANGED <<attempts, streak, solved>> BY DEF stats
<1>2. SolvedWasAttempted' BY <1>1 DEF IInv, RecordInv, SolvedWasAttempted, Accepted
<1>3. QED BY <1>1, <1>2, SeenKept DEF RecordInv

LEMMA LimiterKept ==
    ASSUME IInv, NEW r \in Requests, NEW t \in Task, task' = [task EXCEPT ![r] = t],
           UNCHANGED <<counter, passed>>, faults' \in Nat, faults' >= faults,
           t.pc # "expire", task[r].pc # "expire"
    PROVE  LimiterInv' /\ CounterExpires'
<1>1. task \in [Requests -> Task] /\ faults \in Nat BY DEF IInv, TypeOK
<1>2. \A q \in Requests : q # r => task'[q] = task[q] BY <1>1
<1>3. task'[r] = t BY <1>1
<1>4. \A q \in Requests, u \in Users :
         (At(q, "expire") /\ task[q].user = u)' <=> At(q, "expire") /\ task[q].user = u
  BY <1>2, <1>3 DEF At
<1>5. LimiterInv' BY <1>4 DEF IInv, LimiterInv
<1>6. faults' = 0 => faults = 0 BY <1>1
<1>7. CounterExpires' BY <1>4, <1>6 DEF IInv, CounterExpires
<1>8. QED BY <1>5, <1>7

(* Neither the day nor a streak changes and nobody starts to write one. *)
LEMMA DayKept ==
    ASSUME IInv, ~LateNights, NEW r \in Requests, NEW t \in Task,
           task' = [task EXCEPT ![r] = t], UNCHANGED <<now, streak>>,
           t.pc # "write",
           t.pc \in {"attempt", "streak"} => t.day = now
    PROVE  DayInv'
<1>1. task \in [Requests -> Task] BY DEF IInv, TypeOK
<1>2. \A q \in Requests : q # r => task'[q] = task[q] BY <1>1
<1>3. task'[r] = t BY <1>1
<1>4. DayInv BY DEF IInv
<1>5. \A q \in Requests, u \in Users : Writes(q, u)' => Writes(q, u) /\ task'[q] = task[q]
  BY <1>2, <1>3 DEF Writes, At
<1>6. \A u \in Users : streak'[u].last <= now' BY <1>4 DEF DayInv
<1>7. \A q \in Requests : task'[q].pc \in {"attempt", "streak", "write"} => task'[q].day = now'
  BY <1>2, <1>3, <1>4 DEF DayInv
<1>8. QED BY <1>4, <1>5, <1>6, <1>7 DEF DayInv

LEMMA TypeKept ==
    ASSUME IInv, task' \in [Requests -> Task], \A r \in Requests : TaskInv(r)',
           now' \in Nat, failures' \in Nat, faults' \in Nat,
           counter' \in [Users -> [n : Nat, expires : BOOLEAN]],
           sandboxes' \subseteq Requests, attempts' \subseteq Attempt,
           streak' \in [Users -> Streak], solved' \subseteq Users \X Problems,
           passed' \in [Users -> Nat]
    PROVE  TypeOK'
<1>1. \A r \in Requests : At(r, "teardown")' => r \in sandboxes' BY DEF TaskInv, At
<1>2. QED BY <1>1 DEF TypeOK

(* A request takes a step that touches neither the counters nor the         *)
(* statistics and starts none of their statements.                          *)
LEMMA QuietStep ==
    ASSUME IInv, NEW r \in Requests, NEW t \in Task, task' = [task EXCEPT ![r] = t],
           UNCHANGED <<now, counter, passed, stats>>,
           failures' \in Nat, faults' \in Nat, faults' >= faults,
           sandboxes' \subseteq Requests, sandboxes' \ {r} = sandboxes \ {r},
           task[r].pc # "expire", t.pc \notin {"expire", "write"},
           task[r].pc \in AfterAttempt => t.pc \in AfterAttempt,
           t.pc = "streak" => task[r].pc = "streak",
           t.pc \in {"attempt", "streak"} => t.day = now,
           TaskInv(r)'
    PROVE  IInv'
<1>1. UNCHANGED <<attempts, streak, solved>> BY DEF stats
<1>2. task' \in [Requests -> Task] /\ \A q \in Requests : TaskInv(q)'
  BY <1>1, TasksKept
<1>3. TypeOK' BY <1>1, <1>2, TypeKept DEF IInv, TypeOK
<1>4. RecordInv' BY RecordKept
<1>5. LimiterInv' /\ CounterExpires' BY LimiterKept
<1>6. ~LateNights => DayInv' BY <1>1, DayKept
<1>7. QED BY <1>2, <1>3, <1>4, <1>5, <1>6 DEF IInv

LEMMA AnswerTask ==
    ASSUME IInv, NEW r \in Requests, NEW a \in Answers, Answer(r, a)
    PROVE  \E t \in Task : t.pc = "done" /\ t.answer = a /\ task' = [task EXCEPT ![r] = t]
BY AnsweredType DEF Answer

LEMMA GotoTask ==
    ASSUME IInv, NEW r \in Requests, NEW pc, Goto(r, pc),
           pc \in {"check", "expire", "load", "query", "solution", "done"}
    PROVE  \E t \in Task : t = [task[r] EXCEPT !.pc = pc] /\ task' = [task EXCEPT ![r] = t]
BY ZenonT(60) DEF Goto, IInv, TypeOK, Task, Recording

LEMMA LeaveTask ==
    ASSUME IInv, NEW r \in Requests, NEW a \in Answers, Leave(r, a),
           task[r].pc \in {"query"} \cup Recording
    PROVE  \E t \in Task : /\ task' = [task EXCEPT ![r] = t]
                           /\ t.pc \in {"teardown", "done"}
                           /\ t.pc = "teardown" <=> r \in sandboxes
<1>1. task[r].engine = "postgresql" <=> r \in sandboxes BY DEF IInv, TaskInv
<1>2. CASE task[r].engine = "postgresql"
  <2>1. PICK x \in Task : x = Answered(r, a) BY AnsweredType
  <2>2. PICK t \in Task : t = [x EXCEPT !.pc = "teardown"] BY DEF Task
  <2>3. t.pc = "teardown" BY <2>2 DEF Task
  <2>4. QED BY <1>1, <1>2, <2>1, <2>2, <2>3 DEF Leave, Drops
<1>3. CASE task[r].engine # "postgresql"
  BY <1>1, <1>3, AnswerTask DEF Leave, Drops
<1>4. QED BY <1>2, <1>3

(* A request that has ended knows nothing that could become untrue. *)
LEMMA EndedInv ==
    ASSUME IInv, NEW r \in Requests, NEW t \in Task, task' = [task EXCEPT ![r] = t],
           \/ t.pc = "teardown" /\ r \in sandboxes'
           \/ t.pc = "done" /\ (r \in sandboxes' => faults' > 0 /\ t.answer \in Unserved)
    PROVE  TaskInv(r)'
<1>1. task'[r] = t BY DEF IInv, TypeOK
<1>2. QED BY <1>1 DEF TaskInv, Recording

LEMMA FaultType ==
    ASSUME IInv, Sound \/ Faulty
    PROVE  faults' \in Nat /\ faults' >= faults /\ (Faulty => faults' > 0)
<1>1. faults \in Nat BY DEF IInv, TypeOK
<1>2. QED BY <1>1 DEF Sound, Faulty

LEMMA LeaveInv ==
    ASSUME IInv, NEW r \in Requests, NEW a \in Answers, Leave(r, a),
           task[r].pc \in {"query"} \cup Recording, Sound \/ Faulty,
           UNCHANGED <<now, redis, sandboxes, stats>>
    PROVE  IInv'
<1>1. PICK t \in Task : /\ task' = [task EXCEPT ![r] = t]
                        /\ t.pc \in {"teardown", "done"}
                        /\ t.pc = "teardown" <=> r \in sandboxes
  BY LeaveTask
<1>2. TaskInv(r)' BY <1>1, EndedInv
<1>3. faults' \in Nat /\ faults' >= faults BY FaultType
<1>4. failures' \in Nat /\ UNCHANGED <<counter, passed>> /\ sandboxes' \subseteq Requests
  BY DEF IInv, TypeOK, redis
<1>5. QED BY <1>1, <1>2, <1>3, <1>4, QuietStep DEF AfterAttempt, Recording

----------------------------------------------------------------------------
(* The actions *)

LEMMA InitInv == Init => IInv
<1> SUFFICES ASSUME Init PROVE IInv OBVIOUS
<1> USE DEF Init
<1>1. TypeOK
  BY NewTaskType DEF TypeOK, Streak, NoStreak, At
<1>2. \A r \in Requests : TaskInv(r) BY NewTaskType DEF TaskInv, Recording
<1>3. RecordInv
  <2>1. \A u \in Users : Seen(u) = {} BY DEF Seen, Accepted
  <2>2. \A u \in Users : streak[u].n <= Cardinality(Seen(u))
    <3>1. Cardinality({}) = 0 BY FS_EmptySet
    <3>2. \A u \in Users : streak[u].n = 0 BY DEF NoStreak
    <3>3. QED BY SMTT(30), <2>1, <3>1, <3>2
  <2>3. IsFiniteSet(attempts) BY FS_EmptySet
  <2>4. QED BY <2>2, <2>3 DEF RecordInv, SolvedWasAttempted
<1>4. LimiterInv BY NewTaskType, SubmissionAssumption DEF LimiterInv, At
<1>5. CounterExpires BY DEF CounterExpires
<1>6. DayInv BY NewTaskType DEF DayInv, Writes, At, NoStreak
<1>7. QED BY <1>1, <1>2, <1>3, <1>4, <1>5, <1>6 DEF IInv

LEMMA ArriveInv ==
    ASSUME IInv, NEW r \in Requests, NEW u \in Users \cup {Null}, NEW p \in Problems,
           NEW run \in BOOLEAN, NEW e \in Engines(p), Arrive(r, u, p, e, run)
    PROVE  IInv'
<1>1. task[r] \in Task /\ task[r].pc = "new" /\ r \notin sandboxes
  BY DEF IInv, TypeOK, TaskInv, Arrive, At
<1>2. e \in {"postgresql", "mysql", "python_dsa", "python"}
  BY SubmissionAssumption DEF Engines, Kinds
<1>3. PICK t \in Task : t = [task[r] EXCEPT !.pc = IF u = Null THEN "check" ELSE "incr",
                                            !.user = u, !.problem = p, !.engine = e,
                                            !.run = run]
  BY ZenonT(60), <1>1, <1>2 DEF Task
<1>4. t.pc = (IF u = Null THEN "check" ELSE "incr") /\ t.user = u /\ t.problem = p /\ t.engine = e
  BY <1>1, <1>3 DEF Task
<1>5. task' = [task EXCEPT ![r] = t] BY <1>1, <1>3 DEF Arrive
<1>6. task'[r] = t BY <1>5 DEF IInv, TypeOK
<1>7. UNCHANGED <<now, redis, sandboxes, stats, faults>> BY DEF Arrive
<1>8. TaskInv(r)' BY <1>1, <1>2, <1>4, <1>6, <1>7 DEF TaskInv, Recording
<1>9. faults' \in Nat /\ faults' >= faults /\ failures' \in Nat
  BY <1>7 DEF IInv, TypeOK, redis
<1>10. UNCHANGED <<counter, passed>> /\ sandboxes' \subseteq Requests
  BY <1>7 DEF IInv, TypeOK, redis
<1>11. QED BY <1>1, <1>4, <1>5, <1>7, <1>8, <1>9, <1>10, QuietStep DEF AfterAttempt

LEMMA RefuseInv ==
    ASSUME IInv, NEW r \in Requests, Refuse(r)
    PROVE  IInv'
<1>1. task[r].pc = "check" /\ r \notin sandboxes /\ task[r].pc \notin AfterAttempt
  BY DEF IInv, TaskInv, Refuse, At, AfterAttempt
<1>2. PICK t \in Task : t.pc = "done" /\ task' = [task EXCEPT ![r] = t]
  BY AnswerTask DEF Refuse, CaughtAs, Answers
<1>3. UNCHANGED <<now, redis, sandboxes, stats>> /\ Sound BY DEF Refuse
<1>4. TaskInv(r)' BY <1>1, <1>2, <1>3, EndedInv
<1>5. faults' \in Nat /\ faults' >= faults BY <1>3, FaultType
<1>6. failures' \in Nat /\ UNCHANGED <<counter, passed>> /\ sandboxes' \subseteq Requests
  BY <1>3 DEF IInv, TypeOK, redis
<1>7. QED BY <1>1, <1>2, <1>3, <1>4, <1>5, <1>6, QuietStep

LEMMA AcceptInv ==
    ASSUME IInv, NEW r \in Requests, Accept(r)
    PROVE  IInv'
<1>1. /\ task[r].pc = "check" /\ r \notin sandboxes /\ task[r].pc \notin AfterAttempt
      /\ task[r].problem \in Problems /\ task[r].engine # "none" /\ task[r] \in Task
  BY DEF IInv, TypeOK, TaskInv, Accept, At, AfterAttempt
<1>2. PICK pc \in {"load", "query"} :
         /\ Goto(r, pc)
         /\ \/ task[r].engine = "postgresql" /\ sandboxes' = sandboxes \cup {r}
            \/ task[r].engine # "postgresql" /\ UNCHANGED sandboxes
  BY DEF Accept
<1>3. PICK t \in Task : t = [task[r] EXCEPT !.pc = pc] /\ task' = [task EXCEPT ![r] = t]
  BY <1>2, GotoTask
<1>4. t.pc = pc /\ t.problem = task[r].problem /\ t.engine = task[r].engine
  BY <1>1, <1>3 DEF Task
<1>5. task'[r] = t BY <1>3 DEF IInv, TypeOK
<1>6. TaskInv(r)' BY <1>1, <1>2, <1>4, <1>5 DEF TaskInv, Recording
<1>7. UNCHANGED <<now, redis, stats>> /\ Sound BY DEF Accept
<1>8. faults' \in Nat /\ faults' >= faults BY <1>7, FaultType
<1>9. failures' \in Nat /\ UNCHANGED <<counter, passed>> BY <1>7 DEF IInv, TypeOK, redis
<1>10. sandboxes' \subseteq Requests /\ sandboxes' \ {r} = sandboxes \ {r}
  BY <1>2 DEF IInv, TypeOK
<1>11. QED BY <1>1, <1>3, <1>4, <1>6, <1>7, <1>8, <1>9, <1>10, QuietStep

LEMMA LoadInv ==
    ASSUME IInv, NEW r \in Requests, Load(r)
    PROVE  IInv'
<1>1. /\ task[r].pc = "load" /\ task[r].pc \notin AfterAttempt /\ task[r] \in Task
      /\ TaskInv(r)
  BY DEF IInv, TypeOK, Load, At, AfterAttempt
<1>2. UNCHANGED <<now, redis, sandboxes, stats>> /\ (Sound \/ Faulty) BY DEF Load
<1>3. faults' \in Nat /\ faults' >= faults BY <1>2, FaultType
<1>4. failures' \in Nat /\ UNCHANGED <<counter, passed>> /\ sandboxes' \subseteq Requests
  BY <1>2 DEF IInv, TypeOK, redis
<1>5. CASE Goto(r, "query")
  <2>1. PICK t \in Task : t = [task[r] EXCEPT !.pc = "query"] /\ task' = [task EXCEPT ![r] = t]
    BY <1>5, GotoTask
  <2>2. t.pc = "query" /\ t.problem = task[r].problem /\ t.engine = task[r].engine
    BY <1>1, <2>1 DEF Task
  <2>3. task'[r] = t BY <2>1 DEF IInv, TypeOK
  <2>4. TaskInv(r)' BY <1>1, <1>2, <2>2, <2>3 DEF TaskInv, Recording
  <2>5. QED BY <1>1, <1>2, <1>3, <1>4, <2>1, <2>2, <2>4, QuietStep
<1>6. CASE Answer(r, "400") /\ Faulty
  <2>1. PICK t \in Task : t.pc = "done" /\ t.answer = "400" /\ task' = [task EXCEPT ![r] = t]
    BY <1>6, AnswerTask DEF Answers
  <2>2. faults' > 0 BY <1>6, FaultType
  <2>3. TaskInv(r)' BY <2>1, <2>2, EndedInv DEF Unserved
  <2>4. QED BY <1>1, <1>2, <1>3, <1>4, <2>1, <2>3, QuietStep
<1>7. QED BY <1>5, <1>6 DEF Load

LEMMA TeardownInv ==
    ASSUME IInv, NEW r \in Requests, Teardown(r)
    PROVE  IInv'
<1>1. task[r].pc = "teardown" BY DEF Teardown, At
<1>2. UNCHANGED <<now, redis, stats>> /\ (Sound \/ Faulty) BY DEF Teardown
<1>3. faults' \in Nat /\ faults' >= faults BY <1>2, FaultType
<1>4. failures' \in Nat /\ UNCHANGED <<counter, passed>> BY <1>2 DEF IInv, TypeOK, redis
<1>5. sandboxes' \subseteq Requests /\ sandboxes' \ {r} = sandboxes \ {r}
  BY DEF IInv, TypeOK, Teardown
<1>6. PICK t \in Task : /\ t.pc = "done" /\ task' = [task EXCEPT ![r] = t]
                        /\ r \in sandboxes' => t.answer = "500"
  <2>1. CASE Goto(r, "done") /\ sandboxes' = sandboxes \ {r}
    BY <2>1, GotoTask DEF IInv, TypeOK, Task
  <2>2. CASE Answer(r, "500") BY <2>2, AnswerTask DEF Answers
  <2>3. QED BY <2>1, <2>2 DEF Teardown
<1>7. r \in sandboxes' => faults' > 0 BY FaultType DEF Teardown
<1>8. TaskInv(r)' BY <1>6, <1>7, EndedInv DEF Unserved
<1>9. QED BY <1>1, <1>2, <1>3, <1>4, <1>5, <1>6, <1>8, QuietStep DEF AfterAttempt

LEMMA JudgeInv ==
    ASSUME IInv, NEW r \in Requests, Judge(r)
    PROVE  IInv'
<1>1. /\ task[r].pc = "query" /\ task[r].pc \notin AfterAttempt /\ task[r] \in Task
      /\ TaskInv(r)
  BY DEF IInv, TypeOK, Judge, At, AfterAttempt
<1>2. UNCHANGED <<now, redis, sandboxes, stats>> /\ Sound BY DEF Judge
<1>3. CASE \E a \in Answers : Leave(r, a)
  BY <1>1, <1>2, <1>3, LeaveInv
<1>4. ASSUME NEW correct \in BOOLEAN, Recorded(task[r]),
             task' = [task EXCEPT ![r].pc = "attempt", ![r].correct = correct, ![r].day = now]
      PROVE  IInv'
  <2>1. now \in Nat BY DEF IInv, TypeOK
  <2>2. PICK t \in Task : t = [task[r] EXCEPT !.pc = "attempt", !.correct = correct, !.day = now]
    BY <1>1, <2>1 DEF Task, Recording
  <2>3. /\ t.pc = "attempt" /\ t.problem = task[r].problem /\ t.engine = task[r].engine
        /\ t.user = task[r].user /\ t.day = now
    BY <1>1, <2>2 DEF Task
  <2>4. task' = [task EXCEPT ![r] = t] BY <1>1, <1>4, <2>2
  <2>5. task'[r] = t BY <2>4 DEF IInv, TypeOK
  <2>6. task[r].user \in Users BY <1>1, <1>4 DEF Recorded, Task
  <2>7. TaskInv(r)' BY <1>1, <1>2, <2>3, <2>5, <2>6 DEF TaskInv, Recording
  <2>8. faults' \in Nat /\ faults' >= faults BY <1>2, FaultType
  <2>9. failures' \in Nat /\ UNCHANGED <<counter, passed>> /\ sandboxes' \subseteq Requests
    BY <1>2 DEF IInv, TypeOK, redis
  <2>10. QED BY <1>1, <1>2, <2>3, <2>4, <2>7, <2>8, <2>9, QuietStep
<1>5. QED BY <1>3, <1>4 DEF Judge, Verdict, Answers

LEMMA StatsFailInv ==
    ASSUME IInv, NEW r \in Requests, StatsFail(r)
    PROVE  IInv'
BY LeaveInv DEF StatsFail, SkipAll, Verdict, Answers, Recording

----------------------------------------------------------------------------
(* The limiter *)

(* A request gets past the limiter or is turned away. *)
LEMMA LimiterTask ==
    ASSUME IInv, NEW r \in Requests, NEW t \in Task, task' = [task EXCEPT ![r] = t],
           task[r].pc \in {"incr", "expire"},
           \/ t.pc \in {"expire", "check"} /\ t.user = task[r].user
              /\ t.problem = task[r].problem /\ t.engine = task[r].engine
           \/ t.pc = "done",
           counter' \in [Users -> [n : Nat, expires : BOOLEAN]], passed' \in [Users -> Nat],
           failures' \in Nat, faults' \in Nat, faults' >= faults,
           UNCHANGED <<now, sandboxes, stats>>
    PROVE  /\ TypeOK'
           /\ \A q \in Requests : TaskInv(q)'
           /\ RecordInv'
           /\ ~LateNights => DayInv'
<1>1. task[r] \in Task /\ TaskInv(r) BY DEF IInv, TypeOK
<1>2. task'[r] = t BY DEF IInv, TypeOK
<1>3. UNCHANGED <<attempts, streak, solved>> BY DEF stats
<1>4. TaskInv(r)' BY <1>1, <1>2 DEF TaskInv, Recording
<1>5. task' \in [Requests -> Task] /\ \A q \in Requests : TaskInv(q)'
  BY <1>3, <1>4, TasksKept
<1>6. TypeOK' BY <1>3, <1>5, TypeKept DEF IInv, TypeOK
<1>7. RecordInv' BY RecordKept DEF AfterAttempt
<1>8. ~LateNights => DayInv' BY <1>3, DayKept
<1>9. QED BY <1>5, <1>6, <1>7, <1>8

LEMMA LimitFacts == Limit \in Nat /\ Limit >= 1
BY SubmissionAssumption

LEMMA IncrInv ==
    ASSUME IInv, NEW r \in Requests, Incr(r)
    PROVE  IInv'
<1>0. task[r].user \in Users /\ counter \in [Users -> [n : Nat, expires : BOOLEAN]]
  BY DEF IInv, TypeOK, TaskInv, Incr, At
<1>u. PICK u \in Users : u = task[r].user BY <1>0
<1>n. PICK n \in Nat : n = counter[u].n + 1 BY <1>0
<1>1. /\ task[r].pc = "incr" /\ task[r] \in Task /\ u = task[r].user /\ n = counter[u].n + 1
      /\ counter[u] \in [n : Nat, expires : BOOLEAN] /\ passed[u] \in Nat
  BY <1>0, <1>u, <1>n DEF IInv, TypeOK, TaskInv, Incr, At
<1>2. UNCHANGED <<now, sandboxes, stats>> /\ Sound BY DEF Incr
<1>3. faults' \in Nat /\ faults' >= faults /\ faults' = faults
  BY <1>2, FaultType DEF Sound
<1>4. counter' = [counter EXCEPT ![u].n = n] BY <1>1 DEF Incr
<1>5. /\ counter' \in [Users -> [n : Nat, expires : BOOLEAN]]
      /\ \A v \in Users : v # u => counter'[v] = counter[v]
      /\ counter'[u].n = n /\ counter'[u].expires = counter[u].expires
  BY <1>1, <1>4 DEF IInv, TypeOK
<1>6. LimiterInv BY DEF IInv
<1>7. CASE FirstHit(n)
  <2>1. Goto(r, "expire") /\ UNCHANGED <<failures, passed>>
    BY <1>1, <1>7 DEF Incr, Decide, FirstHit
  <2>2. PICK t \in Task : t = [task[r] EXCEPT !.pc = "expire"] /\ task' = [task EXCEPT ![r] = t]
    BY <2>1, GotoTask
  <2>3. /\ t.pc = "expire" /\ t.user = u /\ t.problem = task[r].problem
        /\ t.engine = task[r].engine
    BY <1>1, <2>2 DEF Task
  <2>4. TypeOK' /\ (\A q \in Requests : TaskInv(q)') /\ RecordInv' /\ (~LateNights => DayInv')
    BY <1>1, <1>2, <1>3, <1>5, <2>1, <2>2, <2>3, LimiterTask DEF IInv, TypeOK
  <2>5. \A q \in Requests : task'[q] = IF q = r THEN t ELSE task[q]
    BY <2>2 DEF IInv, TypeOK
  <2>6. counter[u].n = 0 /\ passed[u] = 0 /\ ~counter[u].expires
    BY <1>1, <1>6, <1>7 DEF FirstHit, LimiterInv
  <2>7. \A q \in Requests : ~(At(q, "expire") /\ task[q].user = u)
    BY <1>1, <1>6, <2>6 DEF LimiterInv
  <2>8. LimiterInv'
    <3>1. \A v \in Users \ {u}, q \in Requests :
             (At(q, "expire") /\ task[q].user = v)' <=> At(q, "expire") /\ task[q].user = v
      BY <1>1, <2>3, <2>5 DEF At
    <3>2. \A q \in Requests : (At(q, "expire") /\ task[q].user = u)' => q = r
      BY <2>5, <2>7 DEF At
    <3>3. passed'[u] = 0 /\ counter'[u].n = 1 /\ ~counter'[u].expires
      BY <1>5, <1>7, <2>1, <2>6 DEF FirstHit
    <3>4. QED BY <1>5, <1>6, <2>1, <3>1, <3>2, <3>3, LimitFacts DEF LimiterInv
  <2>9. CounterExpires'
    <3> SUFFICES ASSUME NEW v \in Users, counter'[v].n > 0, ~counter'[v].expires, faults' = 0
                 PROVE  \E q \in Requests : task'[q].pc = "expire" /\ task'[q].user = v
      BY DEF CounterExpires, At
    <3>1. CASE v = u BY <3>1, <2>3, <2>5
    <3>2. CASE v # u
      <4>1. PICK q \in Requests : At(q, "expire") /\ task[q].user = v
        BY <1>3, <1>5, <3>2 DEF IInv, CounterExpires
      <4>2. QED BY <1>1, <2>5, <4>1 DEF At
    <3>3. QED BY <3>1, <3>2
  <2>10. QED BY <2>4, <2>8, <2>9 DEF IInv
<1>8. CASE ~FirstHit(n)
  <2>1. Decide(r, n) BY <1>1, <1>8 DEF Incr
  <2>2. n >= 2 BY <1>1, <1>8 DEF FirstHit
  <2>3. PICK t \in Task :
           /\ task' = [task EXCEPT ![r] = t]
           /\ \/ t.pc = "done" /\ UNCHANGED passed
              \/ /\ t.pc = "check" /\ t.user = u /\ t.problem = task[r].problem
                 /\ t.engine = task[r].engine
                 /\ n <= Limit /\ passed' = [passed EXCEPT ![u] = @ + 1]
    <3>1. CASE Over(n)
      BY <2>1, <3>1, AnswerTask DEF Decide, Answers
    <3>2. CASE ~Over(n)
      <4>1. PICK t \in Task : t = [task[r] EXCEPT !.pc = "check"]
                              /\ task' = [task EXCEPT ![r] = t]
        BY <2>1, <3>2, GotoTask DEF Decide
      <4>2. t.pc = "check" /\ t.user = u /\ t.problem = task[r].problem
            /\ t.engine = task[r].engine
        BY <1>1, <4>1 DEF Task
      <4>3. n <= Limit BY <1>1, <3>2, LimitFacts DEF Over
      <4>4. passed' = [passed EXCEPT ![u] = @ + 1] BY <1>1, <2>1, <3>2 DEF Decide
      <4>5. QED BY <4>1, <4>2, <4>3, <4>4
    <3>3. QED BY <3>1, <3>2
  <2>4. failures' \in Nat BY <2>1 DEF Decide
  <2>5. passed' \in [Users -> Nat] BY <1>1, <2>3 DEF IInv, TypeOK
  <2>6. TypeOK' /\ (\A q \in Requests : TaskInv(q)') /\ RecordInv' /\ (~LateNights => DayInv')
    BY <1>1, <1>2, <1>3, <1>5, <2>3, <2>4, <2>5, LimiterTask
  <2>7. \A q \in Requests : task'[q] = IF q = r THEN t ELSE task[q]
    BY <2>3 DEF IInv, TypeOK
  <2>8. \A v \in Users, q \in Requests :
           (At(q, "expire") /\ task[q].user = v)' <=> At(q, "expire") /\ task[q].user = v
    BY <1>1, <2>3, <2>7 DEF At
  <2>9. \A v \in Users : v # u => passed'[v] = passed[v]
    BY <2>3 DEF IInv, TypeOK
  <2>10. passed'[u] = passed[u] \/ (n <= Limit /\ passed'[u] = passed[u] + 1)
    BY <1>1, <2>3 DEF IInv, TypeOK
  <2>11. counter[u].n \in Nat /\ n = counter[u].n + 1 BY <1>1
  <2>12. LimiterInv'
    BY <1>1, <1>5, <1>6, <2>8, <2>9, <2>10, <2>11, LimitFacts DEF LimiterInv
  <2>13. CounterExpires'
    <3> SUFFICES ASSUME NEW v \in Users, counter'[v].n > 0, ~counter'[v].expires, faults' = 0
                 PROVE  \E q \in Requests : (At(q, "expire") /\ task[q].user = v)'
      BY DEF CounterExpires
    <3>1. counter[v].n > 0 /\ ~counter[v].expires /\ faults = 0
      BY <1>1, <1>3, <1>5, <2>2, <2>11
    <3>2. QED BY <2>8, <3>1 DEF IInv, CounterExpires
  <2>14. QED BY <2>6, <2>12, <2>13 DEF IInv
<1>9. QED BY <1>7, <1>8

LEMMA ExpireInv ==
    ASSUME IInv, NEW r \in Requests, Expire(r)
    PROVE  IInv'
<1>0. task[r].user \in Users /\ counter \in [Users -> [n : Nat, expires : BOOLEAN]]
  BY DEF IInv, TypeOK, TaskInv, Expire, At
<1>u. PICK u \in Users : u = task[r].user BY <1>0
<1>1. /\ task[r].pc = "expire" /\ task[r] \in Task /\ u = task[r].user
      /\ counter[u] \in [n : Nat, expires : BOOLEAN] /\ passed[u] \in Nat
  BY <1>0, <1>u DEF IInv, TypeOK, TaskInv, Expire, At
<1>2. UNCHANGED <<now, sandboxes, stats>> /\ Sound BY DEF Expire
<1>3. faults' \in Nat /\ faults' >= faults /\ faults' = faults
  BY <1>2, FaultType DEF Sound
<1>4. counter' = [counter EXCEPT ![u].expires = TRUE] BY <1>1 DEF Expire
<1>5. /\ counter' \in [Users -> [n : Nat, expires : BOOLEAN]]
      /\ \A v \in Users : v # u => counter'[v] = counter[v]
      /\ counter'[u].n = counter[u].n /\ counter'[u].expires
  BY <1>1, <1>4 DEF IInv, TypeOK
<1>6. /\ passed[u] < Limit /\ passed[u] < counter[u].n
      /\ \A q \in Requests : At(q, "expire") /\ task[q].user = u => q = r
  BY <1>1 DEF IInv, LimiterInv, At
<1>7. ~Over(1) BY LimitFacts DEF Over
<1>8. Goto(r, "check") /\ failures' = 0 /\ passed' = [passed EXCEPT ![u] = @ + 1]
  BY <1>1, <1>7 DEF Expire, Decide
<1>9. PICK t \in Task : t = [task[r] EXCEPT !.pc = "check"] /\ task' = [task EXCEPT ![r] = t]
  BY <1>8, GotoTask
<1>10. /\ t.pc = "check" /\ t.user = u /\ t.problem = task[r].problem
       /\ t.engine = task[r].engine
  BY <1>1, <1>9 DEF Task
<1>11. passed' \in [Users -> Nat] BY <1>1, <1>8 DEF IInv, TypeOK
<1>12. TypeOK' /\ (\A q \in Requests : TaskInv(q)') /\ RecordInv' /\ (~LateNights => DayInv')
  BY <1>1, <1>2, <1>3, <1>5, <1>8, <1>9, <1>10, <1>11, LimiterTask
<1>13. \A q \in Requests : task'[q] = IF q = r THEN t ELSE task[q]
  BY <1>9 DEF IInv, TypeOK
<1>14. \A v \in Users \ {u}, q \in Requests :
          (At(q, "expire") /\ task[q].user = v)' <=> At(q, "expire") /\ task[q].user = v
  BY <1>1, <1>10, <1>13 DEF At
<1>15. \A q \in Requests : ~(At(q, "expire") /\ task[q].user = u)'
  BY <1>6, <1>10, <1>13 DEF At
<1>16. passed'[u] = passed[u] + 1 /\ \A v \in Users : v # u => passed'[v] = passed[v]
  BY <1>8 DEF IInv, TypeOK
<1>17. LimiterInv'
  <2>1. passed'[u] <= Limit /\ passed'[u] <= counter'[u].n
    BY <1>1, <1>5, <1>6, <1>16, LimitFacts
  <2>2. counter'[u].n > 0 BY <1>1, <1>5, <1>6
  <2>3. QED BY <1>5, <1>14, <1>15, <1>16, <2>1, <2>2 DEF IInv, LimiterInv
<1>18. CounterExpires' BY <1>3, <1>5, <1>14 DEF IInv, CounterExpires
<1>19. QED BY <1>12, <1>17, <1>18 DEF IInv

LEMMA RedisFailsInv ==
    ASSUME IInv, NEW r \in Requests, RedisFails(r)
    PROVE  IInv'
<1>0. /\ task[r].user \in Users /\ counter \in [Users -> [n : Nat, expires : BOOLEAN]]
      /\ failures \in Nat
  BY DEF IInv, TypeOK, TaskInv, RedisFails, At
<1>u. PICK u \in Users : u = task[r].user BY <1>0
<1>1. /\ task[r].pc \in {"incr", "expire"} /\ task[r] \in Task /\ u = task[r].user
      /\ counter[u] \in [n : Nat, expires : BOOLEAN] /\ passed[u] \in Nat
  BY <1>0, <1>u DEF IInv, TypeOK, TaskInv, RedisFails, At
<1>2. UNCHANGED <<now, passed, sandboxes, stats>> /\ Faulty BY DEF RedisFails
<1>3. faults' \in Nat /\ faults' >= faults /\ faults' > 0 BY <1>2, FaultType
<1>4. \/ UNCHANGED counter
      \/ task[r].pc = "incr" /\ counter' = [counter EXCEPT ![u].n = @ + 1]
      \/ task[r].pc = "expire" /\ counter' = [counter EXCEPT ![u].expires = TRUE]
  BY <1>1 DEF RedisFails, At
<1>5. /\ counter' \in [Users -> [n : Nat, expires : BOOLEAN]]
      /\ \A v \in Users : v # u => counter'[v] = counter[v]
  <2>1. CASE UNCHANGED counter BY <1>0, <2>1
  <2>2. CASE counter' = [counter EXCEPT ![u].n = @ + 1] BY <1>0, <1>1, <2>2
  <2>3. CASE counter' = [counter EXCEPT ![u].expires = TRUE] BY <1>0, <1>1, <2>3
  <2>4. QED BY <1>4, <2>1, <2>2, <2>3
<1>6. \/ counter'[u] = counter[u]
      \/ /\ task[r].pc = "incr" /\ counter'[u].n = counter[u].n + 1
         /\ counter'[u].expires => counter[u].expires
      \/ /\ task[r].pc = "expire" /\ counter'[u].n = counter[u].n
  BY <1>0, <1>1, <1>4
<1>7. failures' \in Nat BY <1>0 DEF RedisFails
<1>8. PICK t \in Task :
         /\ task' = [task EXCEPT ![r] = t]
         /\ \/ t.pc = "done"
            \/ /\ t.pc = "check" /\ t.user = u /\ t.problem = task[r].problem
               /\ t.engine = task[r].engine
  <2>1. CASE Answer(r, "503") BY <2>1, AnswerTask DEF Answers
  <2>2. CASE Goto(r, "check")
    <3>1. PICK t \in Task : t = [task[r] EXCEPT !.pc = "check"] /\ task' = [task EXCEPT ![r] = t]
      BY <2>2, GotoTask
    <3>2. t.pc = "check" /\ t.user = u /\ t.problem = task[r].problem
          /\ t.engine = task[r].engine
      BY <1>1, <3>1 DEF Task
    <3>3. QED BY <3>1, <3>2
  <2>3. QED BY <2>1, <2>2 DEF RedisFails
<1>9. TypeOK' /\ (\A q \in Requests : TaskInv(q)') /\ RecordInv' /\ (~LateNights => DayInv')
  BY <1>1, <1>2, <1>3, <1>5, <1>7, <1>8, LimiterTask DEF IInv, TypeOK
<1>10. \A q \in Requests : task'[q] = IF q = r THEN t ELSE task[q]
  BY <1>8 DEF IInv, TypeOK
<1>11. \A q \in Requests : At(q, "expire")' => At(q, "expire") /\ task'[q] = task[q] /\ q # r
  BY <1>8, <1>10 DEF At
<1>12. LimiterInv'
  <2>1. LimiterInv BY DEF IInv
  <2>2. counter[u].n \in Nat /\ counter'[u].n \in Nat BY <1>0, <1>5
  <2>3. \A q \in Requests : At(q, "expire")' /\ task'[q].user = u => task[r].pc = "incr"
    BY <1>1, <1>11, <2>1 DEF LimiterInv, At
  <2>4. counter'[u].n >= counter[u].n BY <1>6, <2>2
  <2>5. task[r].pc = "expire" => counter[u].n > 0
    BY <1>1, <2>1, <2>2 DEF LimiterInv, At
  <2>6. counter'[u].expires => counter'[u].n > 0
    <3>1. counter[u].expires => counter[u].n > 0 BY <2>1 DEF LimiterInv
    <3>2. counter'[u].expires => counter[u].expires \/ task[r].pc = "expire" BY <1>6
    <3>3. counter'[u].expires => counter[u].n > 0 BY <2>5, <3>1, <3>2
    <3>4. counter[u].n > 0 => counter'[u].n > 0 BY <2>2, <2>4
    <3>5. QED BY <3>3, <3>4
  <2>7. passed[u] <= Limit /\ passed[u] <= counter'[u].n
    BY <1>1, <2>1, <2>2, <2>4 DEF LimiterInv
  <2>8. ASSUME NEW q \in Requests, At(q, "expire")', task'[q].user = u
        PROVE  /\ passed[u] < Limit /\ passed[u] < counter'[u].n /\ ~counter'[u].expires
               /\ \A x \in Requests : At(x, "expire")' /\ task'[x].user = u => x = q
    <3>1. At(q, "expire") /\ task[q].user = u /\ task[r].pc = "incr"
      BY <1>11, <2>3, <2>8
    <3>2. /\ passed[u] < Limit /\ passed[u] < counter[u].n /\ ~counter[u].expires
          /\ \A x \in Requests : At(x, "expire") /\ task[x].user = u => x = q
      BY <2>1, <3>1 DEF LimiterInv
    <3>3. passed[u] < counter'[u].n BY <1>1, <2>2, <2>4, <3>2
    <3>4. ~counter'[u].expires BY <1>6, <3>1, <3>2
    <3>5. QED BY <1>11, <3>2, <3>3, <3>4
  <2>9. ASSUME NEW v \in Users, v # u
        PROVE  /\ passed[v] <= Limit /\ passed[v] <= counter'[v].n
               /\ counter'[v].expires => counter'[v].n > 0
               /\ \A q \in Requests : At(q, "expire")' /\ task'[q].user = v =>
                     /\ passed[v] < Limit /\ passed[v] < counter'[v].n /\ ~counter'[v].expires
                     /\ \A x \in Requests : At(x, "expire")' /\ task'[x].user = v => x = q
    BY <1>5, <1>11, <2>1, <2>9 DEF LimiterInv
  <2>10. UNCHANGED passed BY <1>2
  <2>11. QED BY <2>6, <2>7, <2>8, <2>9, <2>10 DEF LimiterInv
<1>13. CounterExpires' BY <1>3 DEF CounterExpires
<1>14. QED BY <1>9, <1>12, <1>13 DEF IInv

----------------------------------------------------------------------------
(* The record of a submission *)

LEMMA RecordAttemptInv ==
    ASSUME IInv, NEW r \in Requests, RecordAttempt(r)
    PROVE  IInv'
<1>1. /\ task[r].pc = "attempt" /\ task[r] \in Task /\ task[r].user \in Users
      /\ task[r].problem \in Problems /\ now \in Nat /\ TaskInv(r)
  BY DEF IInv, TypeOK, TaskInv, RecordAttempt, At, Recording
<1>2. PICK a \in Attempt : a = [id |-> r, user |-> task[r].user, problem |-> task[r].problem,
                                day |-> task[r].day, correct |-> task[r].correct]
  BY <1>1 DEF Attempt, Task
<1>3. attempts' = attempts \cup {a} BY <1>2 DEF RecordAttempt
<1>4. PICK t \in Task : t = [task[r] EXCEPT !.pc = "streak", !.day = now]
  BY <1>1 DEF Task, Recording
<1>5. /\ t.pc = "streak" /\ t.user = task[r].user /\ t.problem = task[r].problem
      /\ t.engine = task[r].engine /\ t.correct = task[r].correct /\ t.day = now
  BY <1>1, <1>4 DEF Task
<1>6. task' = [task EXCEPT ![r] = t] BY <1>1, <1>4 DEF RecordAttempt
<1>7. \A q \in Requests : task'[q] = IF q = r THEN t ELSE task[q]
  BY <1>6 DEF IInv, TypeOK
<1>8. UNCHANGED <<now, redis, sandboxes, streak, solved>> /\ Sound BY DEF RecordAttempt
<1>9. faults' \in Nat /\ faults' >= faults BY <1>8, FaultType
<1>10. UNCHANGED <<counter, failures, passed>> BY <1>8 DEF redis
<1>11. TaskInv(r)' BY <1>1, <1>2, <1>3, <1>5, <1>7, <1>8 DEF TaskInv, Recording
<1>12. task' \in [Requests -> Task] /\ \A q \in Requests : TaskInv(q)'
  BY <1>3, <1>6, <1>8, <1>9, <1>11, TasksKept
<1>13. attempts' \subseteq Attempt BY <1>2, <1>3 DEF IInv, TypeOK
<1>14. TypeOK' BY <1>8, <1>9, <1>10, <1>12, <1>13, TypeKept DEF IInv, TypeOK
<1>15. \A b \in attempts : b.id # r BY <1>1 DEF IInv, RecordInv, AfterAttempt
<1>16. RecordInv'
  <2>1. IsFiniteSet(attempts') BY <1>3, FS_AddElement DEF IInv, RecordInv
  <2>2. \A b, c \in attempts' : b.id = c.id => b = c
    BY <1>2, <1>3, <1>15 DEF IInv, RecordInv
  <2>3. \A b \in attempts' : task'[b.id].pc \in AfterAttempt
    <3>1. a.id = r BY <1>2
    <3>2. \A b \in attempts : b.id \in Requests BY DEF IInv, TypeOK, Attempt
    <3>3. QED BY <1>3, <1>5, <1>7, <3>1, <3>2 DEF IInv, RecordInv, AfterAttempt
  <2>4. \A u \in Users : Seen(u) \subseteq Seen(u)'
    <3>1. \A b \in attempts : task'[b.id] = task[b.id]
      BY <1>7, <1>15 DEF IInv, TypeOK, Attempt
    <3>2. QED BY <1>3, <3>1 DEF Seen, Accepted
  <2>5. SolvedWasAttempted'
    BY <1>3, <1>8 DEF IInv, RecordInv, SolvedWasAttempted, Accepted
  <2>6. \A u \in Users : streak'[u].n <= Cardinality(Seen(u)')
    BY <1>8, <2>1, <2>4, SeenGrows
  <2>7. QED BY <2>1, <2>2, <2>3, <2>5, <2>6 DEF RecordInv
<1>17. LimiterInv' /\ CounterExpires' BY <1>1, <1>5, <1>6, <1>9, <1>10, LimiterKept
<1>18. ~LateNights => DayInv' BY <1>5, <1>6, <1>8, DayKept
<1>19. QED BY <1>12, <1>14, <1>16, <1>17, <1>18 DEF IInv

LEMMA ReadStreakInv ==
    ASSUME IInv, NEW r \in Requests, ReadStreak(r)
    PROVE  IInv'
<1>1. /\ task[r].pc = "streak" /\ task[r] \in Task /\ task[r].user \in Users
      /\ streak \in [Users -> Streak] /\ TaskInv(r)
  BY DEF IInv, TypeOK, TaskInv, ReadStreak, At, Recording
<1>2. UNCHANGED <<now, redis, sandboxes, stats>> /\ Sound BY DEF ReadStreak
<1>3. CASE Leave(r, "incorrect") BY <1>1, <1>2, <1>3, LeaveInv DEF Answers, Recording
<1>4. CASE Counts(task[r]) /\ ~Leave(r, "incorrect")
  <2>1. PICK u \in Users : u = task[r].user BY <1>1
  <2>2. PICK t \in Task : t = [task[r] EXCEPT !.pc = "write", !.row = streak[u]]
    BY <1>1, <2>1 DEF Task, Recording
  <2>3. /\ t.pc = "write" /\ t.user = u /\ t.problem = task[r].problem
        /\ t.engine = task[r].engine /\ t.correct = task[r].correct /\ t.day = task[r].day
        /\ t.row = streak[u]
    BY <1>1, <2>1, <2>2 DEF Task
  <2>4. task' = [task EXCEPT ![r] = t] BY <1>1, <1>4, <2>1, <2>2 DEF ReadStreak
  <2>5. \A q \in Requests : task'[q] = IF q = r THEN t ELSE task[q]
    BY <2>4 DEF IInv, TypeOK
  <2>6. UNCHANGED <<attempts, streak, solved, counter, failures, passed>>
    BY <1>2 DEF stats, redis
  <2>7. faults' \in Nat /\ faults' >= faults BY <1>2, FaultType
  <2>8. TaskInv(r)'
    BY ZenonT(60), <1>1, <1>2, <1>4, <2>1, <2>3, <2>5, <2>6 DEF TaskInv, Recording, Counts
  <2>9. task' \in [Requests -> Task] /\ \A q \in Requests : TaskInv(q)'
    BY <1>2, <2>4, <2>6, <2>7, <2>8, TasksKept
  <2>10. TypeOK' BY <1>2, <2>6, <2>7, <2>9, TypeKept DEF IInv, TypeOK
  <2>11. RecordInv' BY <1>1, <1>2, <2>3, <2>4, RecordKept DEF AfterAttempt
  <2>12. LimiterInv' /\ CounterExpires' BY <1>1, <2>3, <2>4, <2>6, <2>7, LimiterKept
  <2>13. ASSUME ~LateNights PROVE DayInv'
    <3>1. DayInv BY <2>13 DEF IInv
    <3>2. UNCHANGED <<now, streak>> BY <1>2, <2>6
    <3>3. \A v \in Users : streak[v].last <= now BY <3>1 DEF DayInv
    <3>4. \A q \in Requests :
             task'[q].pc \in {"attempt", "streak", "write"} => task'[q].day = now
      BY <1>1, <2>3, <2>5, <3>1 DEF DayInv
    <3>5. \A v \in Users, q \in Requests :
             Writes(q, v)' <=> IF q = r THEN v = u ELSE Writes(q, v)
      BY <2>3, <2>5 DEF Writes, At
    <3>6. now \in Nat /\ \A v \in Users : streak[v].last \in Nat
      BY DEF IInv, TypeOK, Streak
    <3>7. ASSUME NEW v \in Users, NEW q \in Requests, Writes(q, v)'
          PROVE  /\ task'[q].row.last <= now
                 /\ \/ streak[v] = task'[q].row
                    \/ /\ streak[v].last = now
                       /\ task'[q].row.n > 0 /\ task'[q].row.last < now - 1 => streak[v].n = 1
      <4>1. CASE q = r BY <2>3, <2>5, <3>3, <3>5, <3>7, <4>1
      <4>2. CASE q # r BY <2>5, <3>1, <3>5, <3>7, <4>2 DEF DayInv
      <4>3. QED BY <4>1, <4>2
    <3>8. ASSUME NEW v \in Users, NEW q \in Requests, NEW x \in Requests,
                 Writes(q, v)', Writes(x, v)', task'[q].row.last < now, task'[x].row.last < now
          PROVE  task'[x].row = task'[q].row
      <4>1. CASE v = u /\ (q = r \/ x = r)
        <5>1. streak[u].last < now BY <2>3, <2>5, <3>8, <4>1
        <5>2. \A y \in Requests : Writes(y, u)' => task'[y].row = streak[u]
          BY <3>6, <3>7, <5>1
        <5>3. QED BY <3>8, <4>1, <5>2
      <4>2. CASE ~(v = u /\ (q = r \/ x = r))
        BY <2>5, <3>1, <3>5, <3>8, <4>2 DEF DayInv
      <4>3. QED BY <4>1, <4>2
    <3>9. QED BY <3>2, <3>3, <3>4, <3>7, <3>8 DEF DayInv
  <2>14. QED BY <2>9, <2>10, <2>11, <2>12, <2>13 DEF IInv
<1>5. QED BY <1>3, <1>4 DEF ReadStreak

LEMMA RecordSolutionInv ==
    ASSUME IInv, NEW r \in Requests, RecordSolution(r)
    PROVE  IInv'
<1>1. /\ task[r].pc = "solution" /\ task[r] \in Task /\ task[r].user \in Users
      /\ task[r].problem \in Problems /\ TaskInv(r)
  BY DEF IInv, TypeOK, TaskInv, RecordSolution, At, Recording
<1>2. UNCHANGED <<now, redis, sandboxes, attempts, streak>> /\ Sound BY DEF RecordSolution
<1>3. PICK t \in Task : /\ task' = [task EXCEPT ![r] = t]
                        /\ t.pc \in {"teardown", "done"}
                        /\ t.pc = "teardown" <=> r \in sandboxes
  BY <1>1, LeaveTask DEF RecordSolution, Recording, Answers
<1>4. TaskInv(r)' BY <1>2, <1>3, EndedInv
<1>5. faults' \in Nat /\ faults' >= faults BY <1>2, FaultType
<1>6. UNCHANGED <<counter, failures, passed>> BY <1>2 DEF redis
<1>7. task' \in [Requests -> Task] /\ \A q \in Requests : TaskInv(q)'
  BY <1>2, <1>3, <1>4, <1>5, TasksKept
<1>8. solved' = solved \cup {<<task[r].user, task[r].problem>>} BY DEF RecordSolution
<1>9. solved' \subseteq Users \X Problems BY <1>1, <1>8 DEF IInv, TypeOK
<1>10. TypeOK' BY <1>2, <1>5, <1>6, <1>7, <1>9, TypeKept DEF IInv, TypeOK
<1>11. SolvedWasAttempted'
  <2>1. \E a \in attempts : a.user = task[r].user /\ a.problem = task[r].problem /\ a.correct
    BY <1>1 DEF TaskInv
  <2>2. SolvedWasAttempted BY DEF IInv, RecordInv
  <2>3. \A u \in Users, p \in Problems : <<u, p>> \in solved' =>
           <<u, p>> \in solved \/ (u = task[r].user /\ p = task[r].problem)
    BY <1>8
  <2>4. QED BY <1>2, <2>1, <2>2, <2>3 DEF SolvedWasAttempted, Accepted
<1>12. RecordInv' BY <1>1, <1>2, <1>3, <1>11, SeenKept DEF RecordInv, AfterAttempt
<1>13. LimiterInv' /\ CounterExpires' BY <1>1, <1>3, <1>5, <1>6, LimiterKept
<1>14. ~LateNights => DayInv' BY <1>2, <1>3, DayKept
<1>15. QED BY <1>7, <1>10, <1>12, <1>13, <1>14 DEF IInv

(* What a write makes of the streak s: the row it read decides. *)
Written(row, day, s, new) ==
    \/ row.n > 0 /\ row.last = day /\ new = s
    \/ row.n = 0 /\ s.n = 0 /\ new = [n |-> 1, last |-> day]
    \/ row.n > 0 /\ row.last = day - 1 /\ new = [n |-> s.n + 1, last |-> day]
    \/ row.n > 0 /\ row.last \notin {day, day - 1} /\ new = [n |-> 1, last |-> day]

LEMMA WriteFacts ==
    ASSUME IInv, NEW r \in Requests, NEW u \in Users, u = task[r].user, WriteStreak(r)
    PROVE  \/ Leave(r, "correct") /\ UNCHANGED streak
           \/ /\ Goto(r, "solution")
              /\ \E s \in Streak : /\ streak' = [streak EXCEPT ![u] = s]
                                   /\ Written(task[r].row, task[r].day, streak[u], s)
                                   /\ s.n \in Nat /\ s.n <= streak[u].n + 1
<1>1. /\ streak \in [Users -> Streak] /\ task[r].day \in Nat /\ task[r].row.n \in Nat
      /\ streak[u] \in Streak
  BY DEF IInv, TypeOK, Task, Streak
<1>2. streak[u].n \in Nat BY <1>1 DEF Streak
<1> DEFINE New(m) == [n |-> m, last |-> task[r].day]
<1>3. \A m \in Nat : New(m) \in Streak /\ New(m).n = m BY <1>1 DEF Streak
<1>4. CASE /\ task[r].row.n = 0 /\ streak[u].n = 0
           /\ streak' = [streak EXCEPT ![u] = New(1)] /\ Goto(r, "solution")
  <2>1. PICK s \in Streak : s = New(1) /\ s.n = 1 BY <1>3
  <2>2. streak' = [streak EXCEPT ![u] = s] BY <1>4, <2>1
  <2>3. Written(task[r].row, task[r].day, streak[u], s) BY <1>4, <2>1 DEF Written
  <2>4. s.n <= streak[u].n + 1 BY <1>2, <2>1
  <2>5. QED BY <1>4, <2>1, <2>2, <2>3, <2>4
<1>5. CASE task[r].row.n > 0 /\ Goto(r, "solution") /\ CountedToday(task[r]) /\ UNCHANGED streak
  <2>1. streak' = [streak EXCEPT ![u] = streak[u]] BY <1>1, <1>5
  <2>2. QED BY <1>1, <1>2, <1>5, <2>1 DEF Written, CountedToday
<1>6. CASE /\ task[r].row.n > 0 /\ Goto(r, "solution") /\ Yesterday(task[r])
           /\ streak' = [streak EXCEPT ![u] = New(streak[u].n + 1)]
  <2>1. streak[u].n + 1 \in Nat BY <1>2
  <2>2. PICK s \in Streak : s = New(streak[u].n + 1) /\ s.n = streak[u].n + 1
    BY <1>3, <2>1
  <2>3. streak' = [streak EXCEPT ![u] = s] BY <1>6, <2>2
  <2>4. Written(task[r].row, task[r].day, streak[u], s)
    BY <1>6, <2>2 DEF Written, Yesterday
  <2>5. s.n \in Nat /\ s.n <= streak[u].n + 1 BY <1>2, <2>1, <2>2
  <2>6. QED BY <1>6, <2>3, <2>4, <2>5
<1>7. CASE /\ task[r].row.n > 0 /\ Goto(r, "solution")
           /\ ~CountedToday(task[r]) /\ ~Yesterday(task[r])
           /\ streak' = [streak EXCEPT ![u] = New(1)]
  <2>1. PICK s \in Streak : s = New(1) /\ s.n = 1 BY <1>3
  <2>2. streak' = [streak EXCEPT ![u] = s] BY <1>7, <2>1
  <2>3. Written(task[r].row, task[r].day, streak[u], s)
    BY <1>7, <2>1 DEF Written, CountedToday, Yesterday
  <2>4. s.n <= streak[u].n + 1 BY <1>2, <2>1
  <2>5. QED BY <1>7, <2>1, <2>2, <2>3, <2>4
<1>8. CASE Leave(r, "correct") /\ UNCHANGED streak BY <1>8
<1>9. QED
  <2>1. CASE task[r].row.n = 0 BY <1>4, <1>8, <2>1 DEF WriteStreak
  <2>2. CASE task[r].row.n > 0 /\ CountedToday(task[r])
    <3>1. ~Yesterday(task[r]) BY <1>1, <2>2 DEF CountedToday, Yesterday
    <3>2. QED BY <1>5, <2>2, <3>1 DEF WriteStreak
  <2>3. CASE task[r].row.n > 0 /\ ~CountedToday(task[r]) /\ Yesterday(task[r])
    BY <1>6, <2>3 DEF WriteStreak
  <2>4. CASE task[r].row.n > 0 /\ ~CountedToday(task[r]) /\ ~Yesterday(task[r])
    BY <1>7, <2>4 DEF WriteStreak
  <2>5. QED BY <1>1, <2>1, <2>2, <2>3, <2>4

LEMMA WriteStreakInv ==
    ASSUME IInv, NEW r \in Requests, WriteStreak(r)
    PROVE  IInv'
<1>1. /\ task[r].pc = "write" /\ task[r] \in Task /\ task[r].user \in Users
      /\ streak \in [Users -> Streak] /\ TaskInv(r)
  BY DEF IInv, TypeOK, TaskInv, WriteStreak, At, Recording
<1>2. UNCHANGED <<now, redis, sandboxes, attempts, solved>> /\ Sound BY DEF WriteStreak
<1>u. PICK u \in Users : u = task[r].user BY <1>1
<1>3. CASE Leave(r, "correct") /\ UNCHANGED streak
  BY <1>1, <1>2, <1>3, LeaveInv DEF Answers, Recording, stats
<1>4. ASSUME Goto(r, "solution"), NEW s \in Streak, streak' = [streak EXCEPT ![u] = s],
             Written(task[r].row, task[r].day, streak[u], s),
             s.n \in Nat, s.n <= streak[u].n + 1
      PROVE  IInv'
  <2>1. PICK t \in Task : t = [task[r] EXCEPT !.pc = "solution"] /\ task' = [task EXCEPT ![r] = t]
    BY <1>4, GotoTask
  <2>2. /\ t.pc = "solution" /\ t.user = u /\ t.problem = task[r].problem
        /\ t.engine = task[r].engine /\ t.correct = task[r].correct
    BY <1>1, <1>u, <2>1 DEF Task
  <2>3. \A q \in Requests : task'[q] = IF q = r THEN t ELSE task[q]
    BY <2>1 DEF IInv, TypeOK
  <2>4. UNCHANGED <<counter, failures, passed>> BY <1>2 DEF redis
  <2>5. faults' \in Nat /\ faults' >= faults BY <1>2, FaultType
  <2>6. TaskInv(r)' BY <1>1, <1>2, <1>u, <2>2, <2>3 DEF TaskInv, Recording
  <2>7. task' \in [Requests -> Task] /\ \A q \in Requests : TaskInv(q)'
    BY <1>2, <2>1, <2>5, <2>6, TasksKept
  <2>8. streak' \in [Users -> Streak] /\ \A v \in Users : streak'[v] = IF v = u THEN s ELSE streak[v]
    BY <1>1, <1>4
  <2>9. TypeOK' BY <1>2, <2>4, <2>5, <2>7, <2>8, TypeKept DEF IInv, TypeOK
  <2>10. RecordInv'
    <3>1. /\ IsFiniteSet(attempts) /\ IsFiniteSet(attempts') /\ attempts \subseteq Attempt
          /\ \A a, b \in attempts' : a.id = b.id => a = b
      BY <1>2 DEF IInv, TypeOK, RecordInv
    <3>2. \A a \in attempts' : task'[a.id].pc \in AfterAttempt
      BY <1>2, <2>2, <2>3, <3>1 DEF IInv, RecordInv, AfterAttempt, Attempt
    <3>3. SolvedWasAttempted'
      BY <1>2 DEF IInv, RecordInv, SolvedWasAttempted, Accepted
    <3>4. \A v \in Users : Seen(v) \subseteq Seen(v)'
      BY <1>2, <2>2, <2>3, <3>1 DEF Seen, Accepted, Attempt
    <3>5. ASSUME NEW v \in Users, v # u PROVE streak'[v].n <= Cardinality(Seen(v)')
      BY <2>8, <3>1, <3>4, <3>5, SeenGrows
    <3>6. streak'[u].n <= Cardinality(Seen(u)')
      <4>1. PICK a \in attempts : a.id = r /\ a.user = u /\ a.correct
        BY <1>1, <1>u DEF TaskInv
      <4>2. a \notin Seen(u) /\ a \in Seen(u)'
        BY <1>1, <1>2, <2>2, <2>3, <4>1 DEF Seen, Accepted
      <4>3. IsFiniteSet(Seen(u)) /\ IsFiniteSet(Seen(u)')
        <5>1. Seen(u) \subseteq attempts /\ Seen(u)' \subseteq attempts' BY DEF Seen, Accepted
        <5>2. QED BY <3>1, <5>1, FS_Subset
      <4>4. PICK S : S = Seen(u) OBVIOUS
      <4>5. PICK T : T = Seen(u)' OBVIOUS
      <4>6. Cardinality(S \cup {a}) = Cardinality(S) + 1
        BY <4>2, <4>3, <4>4, FS_AddElement
      <4>7. Cardinality(S \cup {a}) <= Cardinality(T)
        <5>1. S \cup {a} \subseteq T BY <3>4, <4>2, <4>4, <4>5
        <5>2. QED BY <4>3, <4>5, <5>1, FS_Subset
      <4>8. Cardinality(S) \in Nat /\ Cardinality(T) \in Nat
        BY <4>3, <4>4, <4>5, FS_CardinalityType
      <4>9. streak[u].n <= Cardinality(S) BY <4>4 DEF IInv, RecordInv
      <4>10. streak[u].n \in Nat BY <1>1 DEF Streak
      <4>11. streak'[u].n <= Cardinality(T)
        BY <1>4, <2>8, <4>6, <4>7, <4>8, <4>9, <4>10
      <4>12. QED BY <4>5, <4>11
    <3>7. QED BY <3>1, <3>2, <3>3, <3>5, <3>6 DEF RecordInv
  <2>11. LimiterInv' /\ CounterExpires' BY <1>1, <2>1, <2>2, <2>4, <2>5, LimiterKept
  <2>12. ASSUME ~LateNights PROVE DayInv'
    <3>1. DayInv BY <2>12 DEF IInv
    <3>2. now' = now /\ now \in Nat BY <1>2 DEF IInv, TypeOK
    <3>3. task[r].day = now /\ Writes(r, u)
      BY <1>1, <1>u, <3>1 DEF DayInv, Writes, At
    <3>4. streak[u].n \in Nat /\ streak[u].last \in Nat BY <1>1 DEF Streak
    <3>5. Written(task[r].row, now, streak[u], s) BY <1>4, <3>3
    <3>6. s = streak[u] \/ s.last = now BY <3>5 DEF Written
    <3>7. \A v \in Users : streak'[v].last <= now'
      BY <2>8, <3>1, <3>2, <3>6 DEF DayInv
    <3>8. \A q \in Requests :
             task'[q].pc \in {"attempt", "streak", "write"} => task'[q].day = now'
      BY <2>2, <2>3, <3>1, <3>2 DEF DayInv
    <3>9. \A v \in Users, q \in Requests :
             Writes(q, v)' => Writes(q, v) /\ task'[q] = task[q] /\ q # r
      BY <2>2, <2>3 DEF Writes, At
    <3>10. ASSUME NEW q \in Requests, Writes(q, u), q # r
           PROVE  \/ s = task[q].row
                  \/ /\ s.last = now
                     /\ task[q].row.n > 0 /\ task[q].row.last < now - 1 => s.n = 1
      <4>1. /\ task[q].row.last <= now /\ task[r].row.last <= now
            /\ \/ streak[u] = task[q].row
               \/ /\ streak[u].last = now
                  /\ task[q].row.n > 0 /\ task[q].row.last < now - 1 => streak[u].n = 1
            /\ task[q].row.last < now /\ task[r].row.last < now => task[q].row = task[r].row
        BY <3>1, <3>3, <3>10 DEF DayInv
      <4>2. /\ task[q].row.n \in Nat /\ task[q].row.last \in Nat
            /\ task[r].row.n \in Nat /\ task[r].row.last \in Nat
        BY DEF IInv, TypeOK, Task, Streak
      <4>3. CASE s = streak[u] BY <4>1, <4>3
      <4>4. CASE s # streak[u] /\ task[q].row.n > 0 /\ task[q].row.last < now - 1
        <5>1. task[r].row.last < now \/ task[r].row.last = now BY <3>2, <4>1, <4>2
        <5>2. CASE task[r].row.last < now
          <6>1. task[q].row = task[r].row BY <3>2, <4>1, <4>2, <4>4, <5>2
          <6>2. s = [n |-> 1, last |-> now] BY <3>2, <3>5, <4>2, <4>4, <6>1 DEF Written
          <6>3. QED BY <6>2
        <5>3. CASE task[r].row.last = now
          BY <3>2, <3>5, <4>2, <4>4, <5>3, <4>1, <3>4, <1>4 DEF Written
        <5>4. QED BY <5>1, <5>2, <5>3
      <4>5. CASE s # streak[u] /\ ~(task[q].row.n > 0 /\ task[q].row.last < now - 1)
        BY <3>6, <4>5
      <4>6. QED BY <4>3, <4>4, <4>5
    <3>11. ASSUME NEW v \in Users, NEW q \in Requests, Writes(q, v)'
           PROVE  /\ task'[q].row.last <= now'
                  /\ \/ streak'[v] = task'[q].row
                     \/ /\ streak'[v].last = now'
                        /\ task'[q].row.n > 0 /\ task'[q].row.last < now' - 1 => streak'[v].n = 1
      <4>1. Writes(q, v) /\ task'[q] = task[q] /\ q # r BY <3>9, <3>11
      <4>2. CASE v = u
        <5>1. task[q].row.last <= now BY <3>1, <4>1 DEF DayInv
        <5>2. QED BY <2>8, <3>2, <3>10, <4>1, <4>2, <5>1
      <4>3. CASE v # u BY <2>8, <3>1, <3>2, <4>1, <4>3 DEF DayInv
      <4>4. QED BY <4>2, <4>3
    <3>12. \A v \in Users, q \in Requests, x \in Requests :
              /\ Writes(q, v)' /\ Writes(x, v)'
              /\ task'[q].row.last < now' /\ task'[x].row.last < now'
              => task'[x].row = task'[q].row
      BY <3>1, <3>2, <3>9 DEF DayInv
    <3>13. QED BY <3>7, <3>8, <3>11, <3>12 DEF DayInv
  <2>13. QED BY <2>7, <2>9, <2>10, <2>11, <2>12 DEF IInv
<1>5. QED BY <1>u, <1>3, <1>4, WriteFacts

----------------------------------------------------------------------------
(* The environment *)

LEMMA LapseInv ==
    ASSUME IInv, NEW u \in Users, Lapse(u)
    PROVE  IInv'
<1>1. /\ UNCHANGED <<now, failures, sandboxes, task, faults>>
      /\ UNCHANGED <<attempts, streak, solved>>
  BY DEF Lapse, stats
<1>2. /\ counter' \in [Users -> [n : Nat, expires : BOOLEAN]]
      /\ passed' \in [Users -> Nat]
      /\ \A v \in Users : v # u => counter'[v] = counter[v] /\ passed'[v] = passed[v]
      /\ counter'[u] = [n |-> 0, expires |-> FALSE] /\ passed'[u] = 0
  BY DEF IInv, TypeOK, Lapse
<1>3. TypeOK' BY <1>1, <1>2 DEF IInv, TypeOK, At
<1>4. \A r \in Requests : TaskInv(r)' BY <1>1 DEF IInv, TaskInv
<1>5. RecordInv'
  <2>1. \A v \in Users : Seen(v)' = Seen(v) BY <1>1 DEF Seen, Accepted
  <2>2. SolvedWasAttempted' BY <1>1 DEF IInv, RecordInv, SolvedWasAttempted, Accepted
  <2>3. QED BY <1>1, <2>1, <2>2 DEF IInv, RecordInv
<1>6. LimiterInv'
  <2>1. \A q \in Requests : ~(At(q, "expire") /\ task[q].user = u)
    BY DEF IInv, LimiterInv, Lapse
  <2>2. QED BY <1>1, <1>2, <2>1, LimitFacts DEF IInv, LimiterInv, At
<1>7. CounterExpires' BY <1>1, <1>2 DEF IInv, CounterExpires, At
<1>8. DayInv => DayInv' BY <1>1 DEF DayInv, Writes, At
<1>9. QED BY <1>3, <1>4, <1>5, <1>6, <1>7, <1>8 DEF IInv

LEMMA CrashInv ==
    ASSUME IInv, Crash
    PROVE  IInv'
<1>1. /\ UNCHANGED <<now, counter, passed, sandboxes>> /\ failures' = 0
      /\ UNCHANGED <<attempts, streak, solved>>
  BY DEF Crash, stats
<1>2. faults' \in Nat /\ faults' > 0 /\ faults' >= faults BY FaultType DEF Crash
<1>3. \A r \in Requests : /\ task'[r] \in Task /\ task'[r].pc \in {"new", "done"}
                          /\ \/ task'[r] = task[r]
                             \/ task'[r].pc = "done" /\ task'[r].answer = "none"
                          /\ task[r].pc # "new" => task'[r].pc = "done"
  BY AnsweredType DEF IInv, TypeOK, Crash, Answers
<1>4. task' \in [Requests -> Task] BY <1>3 DEF Crash
<1>5. \A r \in Requests : TaskInv(r)'
  <2> TAKE r \in Requests
  <2>1. CASE task'[r].pc = "done"
    BY <1>1, <1>2, <1>3, <2>1 DEF IInv, TaskInv, Recording, Unserved
  <2>2. CASE task'[r].pc = "new"
    BY <1>1, <1>3, <2>2 DEF IInv, TaskInv, Recording
  <2>3. QED BY <1>3, <2>1, <2>2
<1>6. TypeOK' BY <1>1, <1>2, <1>4, <1>5, TypeKept DEF IInv, TypeOK
<1>7. RecordInv'
  <2>1. /\ IsFiniteSet(attempts') /\ attempts \subseteq Attempt
        /\ \A a, b \in attempts' : a.id = b.id => a = b
    BY <1>1 DEF IInv, TypeOK, RecordInv
  <2>2. \A a \in attempts' : task'[a.id].pc \in AfterAttempt
    BY <1>1, <1>3, <2>1 DEF IInv, RecordInv, AfterAttempt, Attempt
  <2>3. \A v \in Users : Seen(v) \subseteq Seen(v)'
    BY <1>1, <1>3, <2>1 DEF Seen, Accepted, Attempt
  <2>4. SolvedWasAttempted' BY <1>1 DEF IInv, RecordInv, SolvedWasAttempted, Accepted
  <2>5. \A v \in Users : streak'[v].n <= Cardinality(Seen(v)')
    BY <1>1, <2>1, <2>3, SeenGrows
  <2>6. QED BY <2>1, <2>2, <2>4, <2>5 DEF RecordInv
<1>8. LimiterInv' BY <1>1, <1>3 DEF IInv, LimiterInv, At
<1>9. CounterExpires' BY <1>2 DEF CounterExpires
<1>10. DayInv => DayInv' BY <1>1, <1>3 DEF DayInv, Writes, At
<1>11. QED BY <1>5, <1>6, <1>7, <1>8, <1>9, <1>10 DEF IInv

LEMMA TickInv ==
    ASSUME IInv, Tick
    PROVE  IInv'
<1>1. /\ UNCHANGED <<counter, failures, passed, sandboxes, task, faults>>
      /\ UNCHANGED <<attempts, streak, solved>>
  BY DEF Tick, stats, redis
<1>2. now \in Nat /\ now' = now + 1 BY DEF IInv, TypeOK, Tick
<1>3. TypeOK' BY <1>1, <1>2 DEF IInv, TypeOK, At
<1>4. \A r \in Requests : TaskInv(r)' BY <1>1 DEF IInv, TaskInv
<1>5. RecordInv'
  <2>1. \A v \in Users : Seen(v)' = Seen(v) BY <1>1 DEF Seen, Accepted
  <2>2. SolvedWasAttempted' BY <1>1 DEF IInv, RecordInv, SolvedWasAttempted, Accepted
  <2>3. QED BY <1>1, <2>1, <2>2 DEF IInv, RecordInv
<1>6. LimiterInv' BY <1>1 DEF IInv, LimiterInv, At
<1>7. CounterExpires' BY <1>1 DEF IInv, CounterExpires, At
<1>8. ASSUME ~LateNights PROVE DayInv'
  <2>1. \A r \in Requests : task'[r].pc \notin {"attempt", "streak", "write"}
    BY <1>1, <1>8 DEF Tick
  <2>2. \A u \in Users : streak[u].last \in Nat /\ streak[u].last <= now
    BY <1>8 DEF IInv, TypeOK, Streak, DayInv
  <2>3. \A u \in Users : streak'[u].last <= now' BY <1>1, <1>2, <2>2
  <2>4. QED BY <2>1, <2>3 DEF DayInv, Writes, At
<1>9. QED BY <1>3, <1>4, <1>5, <1>6, <1>7, <1>8 DEF IInv

LEMMA StutterInv == ASSUME IInv, UNCHANGED vars PROVE IInv'
<1>1. /\ UNCHANGED <<now, counter, failures, passed, sandboxes, task, faults>>
      /\ UNCHANGED <<attempts, streak, solved>>
  BY DEF vars
<1>2. TypeOK' BY <1>1 DEF IInv, TypeOK, At
<1>3. \A r \in Requests : TaskInv(r)' BY <1>1 DEF IInv, TaskInv
<1>4. RecordInv'
  <2>1. \A v \in Users : Seen(v)' = Seen(v) BY <1>1 DEF Seen, Accepted
  <2>2. SolvedWasAttempted' BY <1>1 DEF IInv, RecordInv, SolvedWasAttempted, Accepted
  <2>3. QED BY <1>1, <2>1, <2>2 DEF IInv, RecordInv
<1>5. LimiterInv' /\ CounterExpires' BY <1>1 DEF IInv, LimiterInv, CounterExpires, At
<1>6. DayInv => DayInv' BY <1>1 DEF DayInv, Writes, At
<1>7. QED BY <1>2, <1>3, <1>4, <1>5, <1>6 DEF IInv

LEMMA StepInv ==
    ASSUME IInv, NEW r \in Requests, Step(r)
    PROVE  IInv'
<1>1. CASE \E u \in Users \cup {Null}, p \in Problems, run \in BOOLEAN :
             \E e \in Engines(p) : Arrive(r, u, p, e, run)
  BY <1>1, ArriveInv
<1>2. CASE Incr(r) BY <1>2, IncrInv
<1>3. CASE Expire(r) BY <1>3, ExpireInv
<1>4. CASE RedisFails(r) BY <1>4, RedisFailsInv
<1>5. CASE Refuse(r) BY <1>5, RefuseInv
<1>6. CASE Accept(r) BY <1>6, AcceptInv
<1>7. CASE Load(r) BY <1>7, LoadInv
<1>8. CASE Judge(r) BY <1>8, JudgeInv
<1>9. CASE RecordAttempt(r) BY <1>9, RecordAttemptInv
<1>10. CASE ReadStreak(r) BY <1>10, ReadStreakInv
<1>11. CASE WriteStreak(r) BY <1>11, WriteStreakInv
<1>12. CASE RecordSolution(r) BY <1>12, RecordSolutionInv
<1>13. CASE StatsFail(r) BY <1>13, StatsFailInv
<1>14. CASE Teardown(r) BY <1>14, TeardownInv
<1>15. QED
  BY <1>1, <1>2, <1>3, <1>4, <1>5, <1>6, <1>7, <1>8, <1>9, <1>10, <1>11, <1>12, <1>13, <1>14
  DEF Step

----------------------------------------------------------------------------
(* The theorems *)

(* The invariant is inductive, whatever the number of requests, users and   *)
(* failures.                                                                *)
THEOREM Inductive == Spec => []IInv
<1>1. Init => IInv BY InitInv
<1>2. IInv /\ [Next]_vars => IInv'
  <2> SUFFICES ASSUME IInv, [Next]_vars PROVE IInv' OBVIOUS
  <2>1. CASE \E r \in Requests : Step(r) BY <2>1, StepInv
  <2>2. CASE \E u \in Users : Lapse(u) BY <2>2, LapseInv
  <2>3. CASE Crash BY <2>3, CrashInv
  <2>4. CASE Tick BY <2>4, TickInv
  <2>5. CASE UNCHANGED vars BY <2>5, StutterInv
  <2>6. QED BY <2>1, <2>2, <2>3, <2>4, <2>5 DEF Next
<1>3. QED BY <1>1, <1>2, PTL DEF Spec

(* Every table and request keeps its shape.                                 *)
THEOREM TypeCorrect == Spec => []TypeOK
<1>1. IInv => TypeOK BY DEF IInv
<1>2. QED BY <1>1, Inductive, PTL

(* A problem shown as solved has an accepted attempt behind it.             *)
THEOREM SolvedAreAttempted == Spec => []SolvedWasAttempted
<1>1. IInv => SolvedWasAttempted BY DEF IInv, RecordInv
<1>2. QED BY <1>1, Inductive, PTL

(* A sandbox only outlives its request when something failed.               *)
THEOREM SandboxesDropped == Spec => []SandboxDropped
<1>1. IInv => SandboxDropped
  BY DEF IInv, TypeOK, TaskInv, SandboxDropped, At
<1>2. QED BY <1>1, Inductive, PTL

(* A counter is going to expire unless a call failed.                       *)
THEOREM CountersExpire == Spec => []CounterExpires
<1>1. IInv => CounterExpires BY DEF IInv
<1>2. QED BY <1>1, Inductive, PTL

(* No user gets more than Limit requests past a counter that answers.       *)
THEOREM LimitHolds == Spec => []WithinLimit
<1>1. IInv => WithinLimit BY DEF IInv, LimiterInv, WithinLimit
<1>2. QED BY <1>1, Inductive, PTL

(* Every day of a streak is paid for by an accepted attempt of its own.     *)
THEOREM StreaksPaid == Spec => []StreakPaid
<1>1. IInv => StreakPaid
  <2> SUFFICES ASSUME IInv, NEW u \in Users
               PROVE  streak[u].n <= Cardinality(Accepted(u))
    BY DEF StreakPaid
  <2>1. Seen(u) \subseteq Accepted(u) /\ Accepted(u) \subseteq attempts BY DEF Seen, Accepted
  <2>2. IsFiniteSet(Accepted(u)) BY <2>1, FS_Subset DEF IInv, RecordInv
  <2>3. /\ IsFiniteSet(Seen(u))
        /\ Cardinality(Seen(u)) <= Cardinality(Accepted(u))
    BY <2>1, <2>2, FS_Subset
  <2>4. Cardinality(Seen(u)) \in Nat /\ Cardinality(Accepted(u)) \in Nat
    BY <2>2, <2>3, FS_CardinalityType
  <2>5. streak[u].n \in Nat /\ streak[u].n <= Cardinality(Seen(u))
    BY DEF IInv, TypeOK, Streak, RecordInv
  <2>6. QED BY <2>3, <2>4, <2>5
<1>2. QED BY <1>1, Inductive, PTL

(* Unless the day ends while a submission is being recorded, a streak is    *)
(* only lost by a day off and its last day never moves back.                *)
THEOREM StreaksKept == ~LateNights /\ Spec => StreakKept
<1> SUFFICES ASSUME ~LateNights PROVE Spec => StreakKept OBVIOUS
<1> DEFINE Kept(u) == /\ streak'[u].last >= streak[u].last
                      /\ streak'[u].n < streak[u].n => streak[u].last < streak'[u].last - 1
<1>1. ASSUME IInv, NEW r \in Requests, WriteStreak(r)
      PROVE  \A u \in Users : Kept(u)
  <2>1. /\ task[r].pc = "write" /\ task[r].user \in Users /\ streak \in [Users -> Streak]
        /\ now \in Nat /\ task[r].row.n \in Nat /\ task[r].row.last \in Nat
    BY <1>1 DEF IInv, TypeOK, TaskInv, WriteStreak, At, Recording, Task, Streak
  <2>2. \A u \in Users : streak[u].n \in Nat /\ streak[u].last \in Nat
    BY <2>1 DEF Streak
  <2>3. PICK u \in Users : u = task[r].user BY <2>1
  <2>4. CASE UNCHANGED streak BY <2>2, <2>4
  <2>5. ASSUME NEW s \in Streak, streak' = [streak EXCEPT ![u] = s],
               Written(task[r].row, task[r].day, streak[u], s)
        PROVE  \A v \in Users : Kept(v)
    <3>1. /\ task[r].day = now /\ streak[u].last <= now /\ task[r].row.last <= now
          /\ \/ streak[u] = task[r].row
             \/ /\ streak[u].last = now
                /\ task[r].row.n > 0 /\ task[r].row.last < now - 1 => streak[u].n = 1
      BY <1>1, <2>1, <2>3 DEF IInv, DayInv, Writes, At
    <3>2. \A v \in Users : streak'[v] = IF v = u THEN s ELSE streak[v] BY <2>1, <2>5
    <3>3. Written(task[r].row, now, streak[u], s) BY <2>5, <3>1
    <3>4. s.last >= streak[u].last /\ (s.n < streak[u].n => streak[u].last < s.last - 1)
      <4>1. CASE s = streak[u] BY <2>2, <4>1
      <4>2. CASE streak[u].n = 0 /\ s = [n |-> 1, last |-> now]
        BY <2>1, <2>2, <3>1, <4>2
      <4>3. CASE s = [n |-> streak[u].n + 1, last |-> now]
        BY <2>1, <2>2, <3>1, <4>3
      <4>4. CASE /\ task[r].row.n > 0 /\ task[r].row.last \notin {now, now - 1}
                 /\ s = [n |-> 1, last |-> now]
        BY <2>1, <2>2, <3>1, <4>4
      <4>5. QED BY <3>3, <4>1, <4>2, <4>3, <4>4 DEF Written
    <3>5. QED BY <2>2, <3>2, <3>4
  <2>6. QED BY <1>1, <2>3, <2>4, <2>5, WriteFacts
<1>2. IInv /\ [Next]_vars => [\A u \in Users : Kept(u)]_streak
  <2> SUFFICES ASSUME IInv, [Next]_vars, ~UNCHANGED streak
               PROVE  \A u \in Users : Kept(u)
    OBVIOUS
  <2>1. CASE \E r \in Requests : WriteStreak(r) BY <1>1, <2>1
  <2>2. ASSUME NEW r \in Requests, Step(r) PROVE WriteStreak(r)
    <3>1. /\ ~Incr(r) /\ ~Expire(r) /\ ~RedisFails(r) /\ ~Refuse(r) /\ ~Accept(r)
          /\ ~Load(r) /\ ~Judge(r)
      BY DEF stats, Incr, Expire, RedisFails, Refuse, Accept, Load, Judge
    <3>2. /\ ~RecordAttempt(r) /\ ~ReadStreak(r) /\ ~RecordSolution(r)
          /\ ~StatsFail(r) /\ ~Teardown(r)
      BY DEF stats, RecordAttempt, ReadStreak, RecordSolution, StatsFail, Teardown
    <3>3. \A u \in Users \cup {Null}, p \in Problems, run \in BOOLEAN :
             \A e \in Engines(p) : ~Arrive(r, u, p, e, run)
      BY DEF stats, Arrive
    <3>4. QED BY <2>2, <3>1, <3>2, <3>3 DEF Step
  <2>3. ~(\E u \in Users : Lapse(u)) /\ ~Crash /\ ~Tick /\ ~UNCHANGED vars
    BY DEF stats, vars, Lapse, Crash, Tick
  <2>4. QED BY <2>1, <2>2, <2>3 DEF Next
<1>3. QED BY <1>2, Inductive, PTL DEF Spec, StreakKept

=============================================================================
