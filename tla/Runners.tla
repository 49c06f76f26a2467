------------------------------ MODULE Runners ------------------------------
(***************************************************************************)
(* Where a submission's code runs: the PySpark service, whose threads      *)
(* share one Spark session and its temporary views; the Python service,    *)
(* one process for each request; the MySQL engine, one database for each   *)
(* run (runners/, execution/engines). Time-outs, a JVM that dies and a     *)
(* backend that stops come at any moment.                                  *)
(***************************************************************************)
EXTENDS Platform

CONSTANTS
    Jobs,       \* requests of the PySpark service
    Tables,
    DataOf,     \* [Jobs -> SUBSET Tables]: the tables of the problem of a job
    Threads,    \* ThreadPoolExecutor(max_workers = 2)
    Runs,       \* requests of the Python service and runs of the MySQL engine
    MaxSession  \* bound: Spark sessions created

ASSUME RunnersAssumption ==
    /\ DataOf \in [Jobs -> SUBSET Tables] /\ Threads \in Nat \ {0} /\ MaxSession \in Nat
    /\ IsFiniteSet(Jobs) /\ Null \notin Jobs

VARIABLES
    spark,      \* the session `spark` holds: its number, 0 for None
    sessions,   \* sessions created
    broken,     \* the JVM of that session died
    views,      \* the job that made a temporary view
    saved,      \* jobs whose rows some code saved as a table, global view or file
    job,        \* a job: where its thread is, its session, whose data it read
    shared,     \* jobs that were not alone in the pool all the time (history)
    proc,       \* processes of the Python service
    database,   \* databases of the MySQL engine
    run,        \* where a run is
    spoiled     \* runs cut off, or whose process or database was not taken down (history)

sparkVars   == <<spark, sessions, broken, views, saved, job, shared>>
sandboxVars == <<proc, database, run, spoiled>>
runnerVars  == <<spark, sessions, broken, views, saved, job, shared,
                 proc, database, run, spoiled>>

----------------------------------------------------------------------------
NewJob == [pc |-> "new", sess |-> 0, left |-> {}, read |-> {}]
OnThread == {"check", "stop", "create", "load", "run", "clean"}
Busy   == {j \in Jobs : job[j].pc \in OnThread}
Usable(j) == job[j].sess = spark /\ ~broken
NoViews == [t \in Tables |-> Null]

RunnersInit ==
    /\ spark = 0 /\ sessions = 0 /\ broken = FALSE
    /\ views = NoViews /\ saved = {}
    /\ job = [j \in Jobs |-> NewJob]
    /\ shared = {}
    /\ proc = {} /\ database = {}
    /\ run = [r \in Runs |-> "new"]
    /\ spoiled = {}

(* What a request is answered is left out: no step reads it. *)
Goto(j, pc) == job' = [job EXCEPT ![j].pc = pc]
Ends(j) == job' = [job EXCEPT ![j] = [pc |-> "done", sess |-> 0, left |-> {}, read |-> @.read]]

Submit(j) ==
    /\ job[j].pc = "new"
    /\ Goto(j, "queued")
    /\ UNCHANGED <<spark, sessions, broken, views, shared, saved>>

Start(j) ==
    /\ job[j].pc = "queued" /\ Cardinality(Busy) < Threads
    /\ Goto(j, "check")
    /\ shared' = IF Busy = {} THEN shared ELSE shared \cup Busy \cup {j}
    /\ UNCHANGED <<spark, sessions, broken, views, saved>>

(* wait_for gives up after 30 s, and answers: a job still queued is         *)
(* cancelled, a thread that runs goes on running, whoever waits for it.    *)
Timeout(j) ==
    /\ job[j].pc = "queued"
    /\ Ends(j)
    /\ UNCHANGED <<spark, sessions, broken, views, shared, saved>>

JvmDies ==
    /\ spark # 0 /\ ~broken
    /\ broken' = TRUE
    /\ UNCHANGED <<spark, sessions, views, job, shared, saved>>

(* get_spark: no lock between the health check, the tear-down of whatever  *)
(* `spark` holds by then, and the creation.                                *)
Check(j) ==
    /\ job[j].pc = "check"
    /\ job' = IF spark # 0 /\ ~broken THEN [job EXCEPT ![j].pc = "load", ![j].sess = spark,
                                                       ![j].left = DataOf[j]]
              ELSE [job EXCEPT ![j].pc = IF spark = 0 THEN "create" ELSE "stop"]
    /\ UNCHANGED <<spark, sessions, broken, views, shared, saved>>

StopSpark(j) ==
    /\ job[j].pc = "stop"
    /\ broken' = TRUE
    /\ Goto(j, "create")
    /\ UNCHANGED <<spark, sessions, views, shared, saved>>

(* getOrCreate takes a session that is alive. *)
CreateSpark(j) ==
    /\ job[j].pc = "create"
    /\ IF spark # 0 /\ ~broken THEN UNCHANGED <<spark, sessions, broken, views>>
       ELSE /\ sessions < MaxSession
            /\ sessions' = sessions + 1 /\ spark' = sessions' /\ broken' = FALSE
            /\ views' = NoViews
    /\ job' = [job EXCEPT ![j].pc = "load", ![j].sess = spark', ![j].left = DataOf[j]]
    /\ UNCHANGED <<shared, saved>>

(* An exception of get_spark is raised before anything is to clean up.     *)
CreateFails(j) ==
    /\ job[j].pc = "create"
    /\ Ends(j)
    /\ UNCHANGED <<spark, sessions, broken, views, shared, saved>>

(* createOrReplaceTempView, one table after the other. *)
Load(j, t) ==
    /\ job[j].pc = "load" /\ t \in job[j].left /\ Usable(j)
    /\ views' = [views EXCEPT ![t] = j]
    /\ job' = [job EXCEPT ![j].left = @ \ {t}]
    /\ UNCHANGED <<spark, sessions, broken, shared, saved>>

(* The code of the user has the session.  What it makes a view of, and may  *)
(* save, is its own rows and those it has read.                             *)
InCode(j) == job[j].pc \in {"load", "run"} /\ job[j].left = {} /\ Usable(j)
SeenBy(j) == {j} \cup job[j].read

ReadRows(j, k) == job' = [job EXCEPT ![j].pc = "run", ![j].read = @ \cup {k}]

(* It asks for any table; a view that is not there is an error: Leave.     *)
Query(j, t) ==
    /\ InCode(j) /\ views[t] # Null
    /\ \E k \in SeenBy(views[t]) : ReadRows(j, k)
    /\ UNCHANGED <<spark, sessions, broken, views, shared, saved>>

(* What was saved is found by whoever looks for it, in a later session too. *)
ReadSaved(j, k) ==
    /\ InCode(j) /\ k \in saved
    /\ ReadRows(j, k)
    /\ UNCHANGED <<spark, sessions, broken, views, shared, saved>>

(* createOrReplaceTempView, of any name. *)
MakeView(j, t) ==
    /\ InCode(j)
    /\ views' = [views EXCEPT ![t] = j]
    /\ Goto(j, "run")
    /\ UNCHANGED <<spark, sessions, broken, shared, saved>>

(* saveAsTable, createGlobalTempView, df.write: no clean-up looks there.   *)
SaveRows(j) ==
    /\ InCode(j)
    /\ \E k \in SeenBy(j) : saved' = saved \cup {k}
    /\ Goto(j, "run")
    /\ UNCHANGED <<spark, sessions, broken, views, shared>>

(* The result is collected, the session is gone, or the code raises. *)
Leave(j) ==
    /\ job[j].pc \in {"load", "run"}
    /\ Goto(j, "clean")
    /\ UNCHANGED <<spark, sessions, broken, views, shared, saved>>

(* cleanup_spark drops every temporary view of the session, whoever made   *)
(* it, and nothing else; with the session gone it fails and nobody hears of *)
(* it.                                                                      *)
(* Mutated form: the memory is freed, the views stay.                      *)
GcOnly(j) == views
Cleaned(j) == IF Usable(j) THEN NoViews ELSE views

Cleanup(j) ==
    /\ job[j].pc = "clean"
    /\ views' = Cleaned(j)
    /\ Ends(j)
    /\ UNCHANGED <<spark, sessions, broken, shared, saved>>

SparkNext ==
    \/ \E j \in Jobs : \/ Submit(j) \/ Start(j) \/ Timeout(j) \/ Check(j) \/ StopSpark(j)
                       \/ CreateSpark(j) \/ CreateFails(j) \/ SaveRows(j)
                       \/ Leave(j) \/ Cleanup(j)
    \/ \E j \in Jobs, t \in Tables : Load(j, t) \/ Query(j, t) \/ MakeView(j, t)
    \/ \E j, k \in Jobs : ReadSaved(j, k)
    \/ JvmDies

----------------------------------------------------------------------------
(* The Python service: a process that is waited for, or killed after 10 s. *)
Spawn(r) ==
    /\ run[r] = "new"
    /\ proc' \in {proc, proc \cup {r}}
    /\ run' = [run EXCEPT ![r] = IF r \in proc' THEN "process" ELSE "done"]
    /\ UNCHANGED <<database, spoiled>>

(* communicate() returns, or the time is up; any other exception answers   *)
(* and leaves the process to itself.                                       *)
EndProcess(r) ==
    /\ run[r] = "process"
    /\ \/ proc' = proc \ {r} /\ UNCHANGED spoiled
       \/ UNCHANGED proc /\ spoiled' = spoiled \cup {r}
    /\ run' = [run EXCEPT ![r] = "done"]
    /\ UNCHANGED database

ProcessExits(r) ==
    /\ run[r] = "done" /\ r \in proc
    /\ proc' = proc \ {r}
    /\ UNCHANGED <<database, run, spoiled>>

(* MySQLEngine.run: CREATE DATABASE may fail after the fact; schema, seed  *)
(* and query may fail; the database is dropped in every case.              *)
CreateDatabase(r) ==
    /\ run[r] = "new"
    /\ database' \in {database, database \cup {r}}
    /\ run' = [run EXCEPT ![r] = IF r \in database' THEN "loaded" ELSE "drop"]
    /\ UNCHANGED <<proc, spoiled>>

RunQuery(r) ==
    /\ run[r] = "loaded"
    /\ run' = [run EXCEPT ![r] = "drop"]
    /\ UNCHANGED <<proc, database, spoiled>>

DropDatabase(r) ==
    /\ run[r] = "drop"
    /\ \/ database' = database \ {r} /\ UNCHANGED spoiled
       \/ UNCHANGED database /\ spoiled' = spoiled \cup {r}
    /\ run' = [run EXCEPT ![r] = "done"]
    /\ UNCHANGED proc

(* The backend stops: what its runs had in MySQL stays there. *)
BackendStops ==
    /\ spoiled' = spoiled \cup {r \in Runs : run[r] \in {"loaded", "drop"}}
    /\ run' = [r \in Runs |-> IF run[r] \in {"loaded", "drop"} THEN "done" ELSE run[r]]
    /\ UNCHANGED <<proc, database>>

SandboxNext ==
    \/ \E r \in Runs : \/ Spawn(r) \/ EndProcess(r) \/ ProcessExits(r) \/ CreateDatabase(r) \/ RunQuery(r)
                       \/ DropDatabase(r)
    \/ BackendStops

RunnersNext == \/ SparkNext /\ UNCHANGED sandboxVars
               \/ SandboxNext /\ UNCHANGED sparkVars

RunnersSpec == RunnersInit /\ [][RunnersNext]_runnerVars

----------------------------------------------------------------------------
RunnersTypeOK ==
    /\ spark \in 0..sessions /\ sessions \in 0..MaxSession /\ broken \in BOOLEAN
    /\ views \in [Tables -> Jobs \cup {Null}]
    /\ job \in [Jobs -> [pc : OnThread \cup {"new", "queued", "done"}, sess : 0..sessions,
                         left : SUBSET Tables, read : SUBSET Jobs]]
    /\ shared \subseteq Jobs /\ saved \subseteq Jobs
    /\ proc \subseteq Runs /\ database \subseteq Runs /\ spoiled \subseteq Runs
    /\ run \in [Runs -> {"new", "process", "loaded", "drop", "done"}]

(* The session outlives its jobs, and a thread outlives its request when   *)
(* the time is up; still, code that had the pool for itself has met nobody  *)
(* else's rows, whatever views it or an earlier job made, whichever jobs    *)
(* came before it and however they ended, but rows that some code saved     *)
(* where no clean-up looks (cleanup_spark, get_spark).                      *)
NothingInherited == \A j \in Jobs \ shared : job[j].read \subseteq {j} \cup saved

(* Neither a process nor a database outlives the request it was made for,  *)
(* unless waiting for the process failed, the backend stopped or MySQL     *)
(* refused to drop it.                                                      *)
NothingLeftBehind ==
    \A r \in Runs : run[r] = "done" /\ r \in proc \cup database => r \in spoiled

(* An execution with the pool, a process or a database for itself meets     *)
(* nothing that another one left there, save what code saved on purpose or  *)
(* the services failed to take down.                                        *)
RunsApart == NothingInherited /\ NothingLeftBehind
=============================================================================
