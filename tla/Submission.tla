----------------------------- MODULE Submission -----------------------------
(***************************************************************************)
(* POST /execute: rate limit, checks, sandbox schema, verdict, attempt,    *)
(* streak and solution (execution/router.py, schema_manager.py,            *)
(* rate_limit/limiter.py, attempts/service.py, streaks/service.py).        *)
(*                                                                         *)
(* Every statement of a request is autocommitted and there is an await     *)
(* between any two, so requests of one user interleave everywhere.         *)
(***************************************************************************)
EXTENDS Integers, FiniteSets

CONSTANTS
    Requests,       \* every request there will be
    Users,
    Problems,
    Kind,           \* challenge_type of each problem: "sql", "python_dsa" or "python"
    Gated,          \* problems that need a paid plan
    Subscribers,    \* users with access to them
    Limit,          \* requests a user may make in a window
    Threshold,      \* _REDIS_FAIL_THRESHOLD
    LateNights,     \* the day may end while a submission is being recorded
    MaxDay,         \* bound on the clock
    MaxFaults,      \* bound on failing statements and crashes
    Null

Kinds == {"sql", "python_dsa", "python"}

ASSUME SubmissionAssumption ==
    /\ Kind \in [Problems -> Kinds]
    /\ Gated \subseteq Problems /\ Subscribers \subseteq Users
    /\ Limit \in Nat \ {0} /\ Threshold \in Nat /\ MaxDay \in Nat /\ MaxFaults \in Nat
    /\ LateNights \in BOOLEAN
    /\ Null \notin Users /\ Null \notin Problems

VARIABLES
    now,        \* app_today()
    counter,    \* Redis: rate:<user>, its value and whether it expires
    failures,   \* _redis_failure_count
    sandboxes,  \* Postgres schemas, each named after its request
    attempts,   \* core.attempts
    streak,     \* core.streaks: current_streak and last_active_date, n = 0 for no row
    solved,     \* keys of core.user_solutions
    task,       \* the requests
    passed,     \* requests let through since the counter of a user started (history)
    faults      \* what has failed so far (bound)

vars == <<now, counter, failures, sandboxes, attempts, streak, solved, task, passed, faults>>

redis == <<counter, failures, passed>>
stats == <<attempts, streak, solved>>

----------------------------------------------------------------------------
NoStreak == [n |-> 0, last |-> 0]

NewTask == [pc |-> "new", user |-> Null, problem |-> Null, engine |-> "none", run |-> FALSE,
            correct |-> FALSE, day |-> 0, row |-> NoStreak, answer |-> "none"]

At(r, pc)   == task[r].pc = pc
Goto(r, pc) == task' = [task EXCEPT ![r].pc = pc]

(* The handler returns or raises before there is a sandbox to drop. *)
Answered(r, a) == [NewTask EXCEPT !.pc = "done", !.user = task[r].user, !.run = task[r].run,
                                  !.answer = a]
Answer(r, a)   == task' = [task EXCEPT ![r] = Answered(r, a)]

(* The handler returns or raises; its finally clause drops the sandbox it  *)
(* has the name of.  Mutated form: only after a verdict.                   *)
DropsAfterVerdict(r, a) == task[r].engine = "postgresql" /\ a \in {"correct", "incorrect"}
Drops(r, a)             == task[r].engine = "postgresql"
Leave(r, a) ==
    IF Drops(r, a) THEN task' = [task EXCEPT ![r] = [Answered(r, a) EXCEPT !.pc = "teardown"]]
    ELSE Answer(r, a)

Sound  == UNCHANGED faults
Faulty == faults < MaxFaults /\ faults' = faults + 1

Init ==
    /\ now = 1
    /\ counter = [u \in Users |-> [n |-> 0, expires |-> FALSE]]
    /\ failures = 0
    /\ sandboxes = {}
    /\ attempts = {}
    /\ streak = [u \in Users |-> NoStreak]
    /\ solved = {}
    /\ task = [r \in Requests |-> NewTask]
    /\ passed = [u \in Users |-> 0]
    /\ faults = 0

----------------------------------------------------------------------------
(* rate_limit *)

Engines(p) == IF Kind[p] = "sql" THEN {"postgresql", "mysql"} ELSE {Kind[p]}

Arrive(r, u, p, e, run) ==
    /\ At(r, "new")
    /\ e \in Engines(p)
    /\ run => e = "python_dsa"
    /\ task' = [task EXCEPT ![r].pc = IF u = Null THEN "check" ELSE "incr", ![r].user = u,
                            ![r].problem = p, ![r].engine = e, ![r].run = run]
    /\ UNCHANGED <<now, redis, sandboxes, stats, faults>>

(* Mutated forms: the expiry is only set by the next request; one request  *)
(* too many is let through.                                                *)
SecondHit(n) == n = 2
FirstHit(n)  == n = 1
OverByTwo(n) == n > Limit + 1
Over(n)      == n > Limit

(* What follows the reply of Redis. *)
Decide(r, n) ==
    LET u == task[r].user IN
    /\ failures' = 0
    /\ \/ Over(n) /\ Answer(r, "429") /\ UNCHANGED passed
       \/ ~Over(n) /\ Goto(r, "check") /\ passed' = [passed EXCEPT ![u] = @ + 1]

Incr(r) ==
    LET u == task[r].user
        n == counter[u].n + 1
    IN
    /\ At(r, "incr")
    /\ counter' = [counter EXCEPT ![u].n = n]
    /\ \/ FirstHit(n) /\ Goto(r, "expire") /\ UNCHANGED <<failures, passed>>
       \/ ~FirstHit(n) /\ Decide(r, n)
    /\ Sound
    /\ UNCHANGED <<now, sandboxes, stats>>

Expire(r) ==
    LET u == task[r].user IN
    /\ At(r, "expire")
    /\ counter' = [counter EXCEPT ![u].expires = TRUE]
    /\ Decide(r, 1)
    /\ Sound
    /\ UNCHANGED <<now, sandboxes, stats>>

(* Redis does not answer; it may have counted the request all the same. *)
RedisFails(r) ==
    LET u == task[r].user IN
    /\ At(r, "incr") \/ At(r, "expire")
    /\ \/ UNCHANGED counter
       \/ At(r, "incr") /\ counter' = [counter EXCEPT ![u].n = @ + 1]
       \/ At(r, "expire") /\ counter' = [counter EXCEPT ![u].expires = TRUE]
    /\ failures' = failures + 1
    /\ \/ failures' >= Threshold /\ Answer(r, "503")
       \/ failures' < Threshold /\ Goto(r, "check")
    /\ Faulty
    /\ UNCHANGED <<now, passed, sandboxes, stats>>

----------------------------------------------------------------------------
(* execute_query up to the verdict *)

(* The status of an HTTPException that the handler's own catch-all sees. *)
CaughtAs(status) == "400"

Refuse(r) ==
    LET t == task[r] IN
    /\ At(r, "check")
    /\ \/ t.problem \in Gated /\ t.user \notin Subscribers /\ Answer(r, CaughtAs("403"))
       \/ Answer(r, "400")                          \* unknown problem, forbidden code
       \/ t.user # Null /\ Answer(r, "error")       \* PROFILE_REQUIRED
    /\ Sound
    /\ UNCHANGED <<now, redis, sandboxes, stats>>

(* CREATE SCHEMA; the other engines need no schema. *)
Accept(r) ==
    LET t == task[r] IN
    /\ At(r, "check")
    /\ t.problem \in Gated => t.user \in Subscribers
    /\ \/ /\ t.engine = "postgresql"
          /\ sandboxes' = sandboxes \cup {r}
          /\ Goto(r, "load")
       \/ t.engine # "postgresql" /\ Goto(r, "query") /\ UNCHANGED sandboxes
    /\ Sound
    /\ UNCHANGED <<now, redis, stats>>

Load(r) ==
    /\ At(r, "load")
    /\ \/ Goto(r, "query") /\ Sound
       \/ Answer(r, "400") /\ Faulty       \* the name of the schema is lost
    /\ UNCHANGED <<now, redis, sandboxes, stats>>

(* Submissions of a logged-in user are recorded, dry runs are not.         *)
Recorded(t) == t.user # Null /\ ~t.run

Verdict(correct) == IF correct THEN "correct" ELSE "incorrect"

(* The query fails or has no reference, or the verdict is in. *)
Judge(r) ==
    LET t == task[r] IN
    /\ At(r, "query")
    /\ \/ Leave(r, "error")
       \/ \E correct \in BOOLEAN :
            IF Recorded(t)
            THEN task' = [task EXCEPT ![r].pc = "attempt", ![r].correct = correct, ![r].day = now]
            ELSE Leave(r, IF t.run THEN "run_result" ELSE Verdict(correct))
    /\ Sound
    /\ UNCHANGED <<now, redis, sandboxes, stats>>

----------------------------------------------------------------------------
(* The record of a submission; an exception ends it and is swallowed. *)

RecordAttempt(r) ==
    LET t == task[r] IN
    /\ At(r, "attempt")
    /\ attempts' = attempts \cup {[id |-> r, user |-> t.user, problem |-> t.problem,
                                   day |-> t.day, correct |-> t.correct]}
    /\ task' = [task EXCEPT ![r].pc = "streak", ![r].day = now]
    /\ Sound
    /\ UNCHANGED <<now, redis, sandboxes, streak, solved>>

(* update_streak reads the row; only accepted submissions count.  Mutated  *)
(* form: all of them do.                                                   *)
AllCount(t) == TRUE
Counts(t)   == t.correct

ReadStreak(r) ==
    LET t == task[r] IN
    /\ At(r, "streak")
    /\ \/ Counts(t) /\ task' = [task EXCEPT ![r].pc = "write", ![r].row = streak[t.user]]
       \/ ~Counts(t) /\ Leave(r, "incorrect")
    /\ Sound
    /\ UNCHANGED <<now, redis, sandboxes, stats>>

(* Mutated form of CountedToday: the day is not looked at. *)
Uncounted(t)    == FALSE
CountedToday(t) == t.row.last = t.day
Yesterday(t)    == t.row.last = t.day - 1

(* update_streak writes what the row it read calls for. *)
WriteStreak(r) ==
    LET t == task[r]
        u == t.user
    IN
    /\ At(r, "write")
    /\ \/ /\ t.row.n = 0 /\ streak[u].n = 0
          /\ streak' = [streak EXCEPT ![u] = [n |-> 1, last |-> t.day]]
          /\ Goto(r, "solution")
       \/ /\ t.row.n = 0 /\ streak[u].n > 0         \* the primary key is taken
          /\ Leave(r, "correct")
          /\ UNCHANGED streak
       \/ /\ t.row.n > 0
          /\ CASE CountedToday(t) -> UNCHANGED streak
               [] Yesterday(t) ->
                    streak' = [streak EXCEPT ![u] = [n |-> @.n + 1, last |-> t.day]]
               [] OTHER -> streak' = [streak EXCEPT ![u] = [n |-> 1, last |-> t.day]]
          /\ Goto(r, "solution")
    /\ Sound
    /\ UNCHANGED <<now, redis, sandboxes, attempts, solved>>

RecordSolution(r) ==
    /\ At(r, "solution")
    /\ solved' = solved \cup {<<task[r].user, task[r].problem>>}
    /\ Leave(r, "correct")
    /\ Sound
    /\ UNCHANGED <<now, redis, sandboxes, attempts, streak>>

(* A statement failed: none of the rest is recorded.  Mutated form: the    *)
(* rest is.                                                                *)
SkipOne(r) ==
    IF At(r, "attempt") /\ task[r].correct THEN Goto(r, "solution")
    ELSE Leave(r, Verdict(task[r].correct))
SkipAll(r) == Leave(r, Verdict(task[r].correct))

StatsFail(r) ==
    /\ task[r].pc \in {"attempt", "streak", "write", "solution"}
    /\ SkipAll(r)
    /\ Faulty
    /\ UNCHANGED <<now, redis, sandboxes, stats>>

Teardown(r) ==
    /\ At(r, "teardown")
    /\ \/ sandboxes' = sandboxes \ {r} /\ Goto(r, "done") /\ Sound
       \/ UNCHANGED sandboxes /\ Answer(r, "500") /\ Faulty
    /\ UNCHANGED <<now, redis, stats>>

----------------------------------------------------------------------------
(* The user's counter expires. *)
Lapse(u) ==
    /\ counter[u].expires
    /\ counter' = [counter EXCEPT ![u] = [n |-> 0, expires |-> FALSE]]
    /\ passed' = [passed EXCEPT ![u] = 0]
    /\ UNCHANGED <<now, failures, sandboxes, stats, task, faults>>

(* The server stops: no request gets any further. *)
Crash ==
    /\ \E r \in Requests : task[r].pc \notin {"new", "done"}
    /\ task' = [r \in Requests |->
                  IF task[r].pc \in {"new", "done"} THEN task[r]
                  ELSE Answered(r, "none")]
    /\ failures' = 0
    /\ Faulty
    /\ UNCHANGED <<now, counter, passed, sandboxes, stats>>

Tick ==
    /\ now < MaxDay
    /\ LateNights \/ \A r \in Requests : task[r].pc \notin {"attempt", "streak", "write"}
    /\ now' = now + 1
    /\ UNCHANGED <<redis, sandboxes, stats, task, faults>>

Step(r) ==
    \/ \E u \in Users \cup {Null}, p \in Problems, run \in BOOLEAN :
          \E e \in Engines(p) : Arrive(r, u, p, e, run)
    \/ Incr(r) \/ Expire(r) \/ RedisFails(r)
    \/ Refuse(r) \/ Accept(r) \/ Load(r) \/ Judge(r)
    \/ RecordAttempt(r) \/ ReadStreak(r) \/ WriteStreak(r) \/ RecordSolution(r)
    \/ StatsFail(r) \/ Teardown(r)

Next ==
    \/ \E r \in Requests : Step(r)
    \/ \E u \in Users : Lapse(u)
    \/ Crash
    \/ Tick

Spec == Init /\ [][Next]_vars

----------------------------------------------------------------------------
(* Properties *)

Streak == [n : Nat, last : Nat]

Recording == {"attempt", "streak", "write", "solution"}

Task == [pc : {"new", "incr", "expire", "check", "load", "query", "teardown", "done"} \cup Recording,
         user : Users \cup {Null}, problem : Problems \cup {Null},
         engine : {"none", "postgresql", "mysql", "python_dsa", "python"}, run : BOOLEAN,
         correct : BOOLEAN, day : Nat, row : Streak,
         answer : {"none", "400", "403", "429", "500", "503", "error", "correct", "incorrect",
                   "run_result"}]

Attempt == [id : Requests, user : Users, problem : Problems, day : Nat, correct : BOOLEAN]

(* Every table and request has its shape, and DROP SCHEMA is only run on a  *)
(* schema that exists.                                                      *)
TypeOK ==
    /\ now \in Nat /\ failures \in Nat /\ faults \in Nat
    /\ counter \in [Users -> [n : Nat, expires : BOOLEAN]]
    /\ sandboxes \subseteq Requests
    /\ attempts \subseteq Attempt
    /\ streak \in [Users -> Streak]
    /\ solved \subseteq Users \X Problems
    /\ task \in [Requests -> Task]
    /\ passed \in [Users -> Nat]
    /\ \A r \in Requests : At(r, "teardown") => r \in sandboxes

Accepted(u) == {a \in attempts : a.user = u /\ a.correct}

(* A problem shown as solved has an accepted attempt behind it, whatever    *)
(* statement of the record failed and whatever requests ran at once         *)
(* (execute_query).                                                         *)
SolvedWasAttempted ==
    \A u \in Users, p \in Problems :
        <<u, p>> \in solved => \E a \in Accepted(u) : a.problem = p

(* Only the set-up or the DROP of the sandbox itself failing or the server  *)
(* stopping lets a sandbox outlive its request: no other failure does (the  *)
(* finally clause of execute_query).                                        *)
Unserved == {"400", "500", "none"}
SandboxDropped ==
    \A r \in sandboxes : At(r, "done") => faults > 0 /\ task[r].answer \in Unserved

(* Every day of a streak is paid for by an accepted attempt of its own,     *)
(* however many submissions race and whatever fails (update_streak).        *)
StreakPaid == \A u \in Users : streak[u].n <= Cardinality(Accepted(u))

(* A streak is only lost by a day off, and its last day never moves back    *)
(* (update_streak).                                                         *)
StreakKept ==
    [][\A u \in Users :
         /\ streak'[u].last >= streak[u].last
         /\ streak'[u].n < streak[u].n => streak[u].last < streak'[u].last - 1]_streak

(* A streak counts days: it is no longer than the days with an accepted     *)
(* attempt (update_streak: "already counted today").                        *)
StreakCountsDays ==
    \A u \in Users : streak[u].n <= Cardinality({a.day : a \in Accepted(u)})

(* A counter that limits a user is going to expire, or the request that     *)
(* started it is about to see to it, or a call failed (rate_limit).         *)
CounterExpires ==
    \A u \in Users : counter[u].n > 0 /\ ~counter[u].expires /\ faults = 0 =>
        \E r \in Requests : At(r, "expire") /\ task[r].user = u

(* As long as Redis answers, no more than Limit requests of a user pass     *)
(* between two expiries of the counter (rate_limit).                        *)
WithinLimit == \A u \in Users : passed[u] <= Limit

----------------------------------------------------------------------------
(* The inductive invariant behind the safety properties *)

AfterAttempt == {"streak", "write", "solution", "teardown", "done"}

(* What a request knows: its user and problem, its sandbox, its attempt. *)
TaskInv(r) ==
    LET t == task[r] IN
    /\ t.pc \notin {"new", "teardown", "done"} => t.problem \in Problems /\ t.engine # "none"
    /\ t.pc \in {"incr", "expire"} \cup Recording => t.user \in Users
    /\ t.pc \in {"new", "incr", "expire", "check"} => r \notin sandboxes
    /\ t.pc \in {"load", "query"} \cup Recording => (t.engine = "postgresql" <=> r \in sandboxes)
    /\ t.pc = "teardown" => r \in sandboxes
    /\ t.pc = "done" /\ r \in sandboxes => faults > 0 /\ t.answer \in Unserved
    /\ t.pc \in {"write", "solution"} => t.correct
    /\ t.pc \in {"streak", "write", "solution"} =>
          \E a \in attempts : /\ a.id = r /\ a.user = t.user /\ a.problem = t.problem
                              /\ a.correct = t.correct

(* Accepted attempts that the streak of their user has already seen. *)
Seen(u) == {a \in Accepted(u) : task[a.id].pc \notin {"streak", "write"}}

RecordInv ==
    /\ IsFiniteSet(attempts)
    /\ \A a, b \in attempts : a.id = b.id => a = b
    /\ \A a \in attempts : task[a.id].pc \in AfterAttempt
    /\ \A u \in Users : streak[u].n <= Cardinality(Seen(u))
    /\ SolvedWasAttempted

(* The request that started a counter has not been let through yet and no   *)
(* other one started it.                                                    *)
LimiterInv ==
    \A u \in Users :
        /\ passed[u] <= Limit /\ passed[u] <= counter[u].n
        /\ counter[u].expires => counter[u].n > 0
        /\ \A r \in Requests : At(r, "expire") /\ task[r].user = u =>
              /\ passed[u] < Limit /\ passed[u] < counter[u].n
              /\ ~counter[u].expires
              /\ \A q \in Requests : At(q, "expire") /\ task[q].user = u => q = r

(* Who writes a streak read it today.  Rows read before the first write of  *)
(* the day are all alike, and a write from one of them that is neither of   *)
(* today nor of yesterday starts the streak anew.                           *)
Writes(r, u) == At(r, "write") /\ task[r].user = u

DayInv ==
    /\ \A u \in Users : streak[u].last <= now
    /\ \A r \in Requests : task[r].pc \in {"attempt", "streak", "write"} => task[r].day = now
    /\ \A u \in Users, r \in Requests : Writes(r, u) =>
          LET row == task[r].row IN
          /\ row.last <= now
          /\ \/ streak[u] = row
             \/ /\ streak[u].last = now
                /\ row.n > 0 /\ row.last < now - 1 => streak[u].n = 1
          /\ \A q \in Requests :
                Writes(q, u) /\ row.last < now /\ task[q].row.last < now => task[q].row = row

IInv ==
    /\ TypeOK
    /\ \A r \in Requests : TaskInv(r)
    /\ RecordInv
    /\ LimiterInv
    /\ CounterExpires
    /\ ~LateNights => DayInv
=============================================================================
