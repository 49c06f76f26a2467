------------------------------ MODULE Content ------------------------------
(***************************************************************************)
(* The problems of the CMS: their life, their datasets, test cases and     *)
(* reference solutions, the daily schedule that publishes them, and who    *)
(* may open them (admin/router.py, user/router.py,                         *)
(* payments/dependencies.py, seed_curriculum.py).                          *)
(*                                                                         *)
(* The twelve columns of a day of the schedule are three slots, told apart *)
(* by what the code does with them; python and pyspark are one kind; of a  *)
(* dataset only its version counts, and of the dialects one.               *)
(***************************************************************************)
EXTENDS Platform

CONSTANTS
    MaxProblems,    \* bound: rows core.problems will ever have
    FreeLimit,      \* FREE_TIER_SQL_LIMIT, 30 in the code
    Keep,           \* days of history the schedule keeps, 7 in the code
    LastDate,       \* bound on the calendar
    MaxVersions,    \* bound: versions of a problem's datasets
    Codes           \* reference codes

Ids   == 1..MaxProblems     \* in the order of created_at
Dates == 0..LastDate
Kinds == {"sql", "pandas", "dsa"}
Slots == Kinds              \* the columns named for each kind hold any problem

ASSUME ContentAssumption ==
    /\ MaxProblems \in Nat /\ FreeLimit \in Nat /\ Keep \in Nat \ {0} /\ LastDate \in Nat
    /\ MaxVersions \in Nat
    /\ Null \notin Ids /\ Null \notin Kinds /\ Null \notin Codes /\ Null \notin Nat
    /\ Null \notin [Slots -> Ids \cup {Null}]

VARIABLES
    problems,   \* core.problems
    made,       \* how many problems were created
    serial,     \* the sequence of problems.row_number
    schedule,   \* core.daily_practice: a row for a date, or Null
    data,       \* version of the rows of core.problem_datasets, 0 where there is none
    cases,      \* rows of core.problem_test_cases
    solutions,  \* rows of core.problem_solutions, which has no primary key
    editor,     \* what the request a worker serves has read or, uncommitted, done
    today,
    withdrawn,  \* problems an admin took back from publication (history)
    retyped,    \* problems whose challenge_type was edited (history)
    backdated   \* dates written too late for the publication before a cleaning (history)

contentVars == <<problems, made, serial, schedule, data, cases, solutions, editor, today,
                 withdrawn, retyped, backdated>>
material    == <<data, cases, solutions>>
calendar    == <<schedule, today, backdated>>

----------------------------------------------------------------------------
NoProblem == [kind |-> Null, active |-> FALSE, num |-> 0]
NoOutput  == [code |-> Null, data |-> 0]
BlankRow  == [code |-> Null, output |-> NoOutput]
NoEditor  == [pc |-> "idle", p |-> Null, op |-> Null, kind |-> Null, row |-> BlankRow,
              locked |-> {}, late |-> FALSE, since |-> 0]

Exists(p)     == problems[p].kind # Null
InRow(p, d)   == schedule[d] # Null /\ \E s \in Slots : schedule[d][s] = p
Scheduled(p)  == {d \in Dates : InRow(p, d)}
Due(p)        == \E d \in Scheduled(p) : d <= today
Visible(p)    == Exists(p) /\ (problems[p].active \/ Due(p))

Deleting(p)   == {w \in Workers : editor[w].pc = "deleting" /\ editor[w].p = p}
RowLocked(d)  == \E w \in Workers : editor[w].pc = "deleting" /\ d \in editor[w].locked
(* A row is inserted for a problem that others are deleting. *)
MarkLate(p)   == [w \in Workers |-> IF w \in Deleting(p) THEN [editor[w] EXCEPT !.late = TRUE]
                                    ELSE editor[w]]

Serving(w, e) == editor[w].pc = "idle" /\ editor' = [editor EXCEPT ![w] = e]
Goto(w, pc)   == editor' = [editor EXCEPT ![w].pc = pc]
Close(w)      == editor' = [editor EXCEPT ![w] = NoEditor]

ContentInit ==
    /\ problems = [p \in Ids |-> NoProblem]
    /\ made = 0 /\ serial = 0
    /\ schedule = [d \in Dates |-> Null]
    /\ data = [p \in Ids |-> 0]
    /\ cases = [p \in Ids |-> 0]
    /\ solutions = [p \in Ids |-> {}]
    /\ editor = [w \in Workers |-> NoEditor]
    /\ today = 0
    /\ withdrawn = {} /\ retyped = {} /\ backdated = {}

----------------------------------------------------------------------------
(* create_problem: row_number is a SERIAL column. *)
CreateProblem(kind, active) ==
    /\ made < MaxProblems
    /\ made' = made + 1 /\ serial' = serial + 1
    /\ problems' = [problems EXCEPT ![made'] = [kind |-> kind, active |-> active, num |-> serial']]
    /\ UNCHANGED <<editor, withdrawn, retyped>> /\ UNCHANGED material /\ UNCHANGED calendar

(* edit_problem. *)
EditActive(p, active) ==
    /\ Exists(p)
    /\ problems' = [problems EXCEPT ![p].active = active]
    /\ withdrawn' = IF active THEN withdrawn \ {p} ELSE withdrawn \cup {p}
    /\ UNCHANGED <<made, serial, editor, retyped>> /\ UNCHANGED material /\ UNCHANGED calendar

EditKind(p, kind) ==
    /\ Exists(p) /\ kind # problems[p].kind
    /\ problems' = [problems EXCEPT ![p].kind = kind]
    /\ retyped' = retyped \cup {p}
    /\ UNCHANGED <<made, serial, editor, withdrawn>> /\ UNCHANGED material /\ UNCHANGED calendar

(* delete_problem, one transaction: it clears every reference it finds,    *)
(* holding the rows it touches, and deletes the problem last; a foreign    *)
(* key that finds a row inserted since then undoes all of it.              *)
BeginDelete(w, p) ==
    /\ Exists(p) /\ Deleting(p) = {}
    /\ \A d \in Scheduled(p) : ~RowLocked(d)
    /\ Serving(w, [NoEditor EXCEPT !.pc = "deleting", !.p = p, !.locked = Scheduled(p)])
    /\ UNCHANGED <<problems, made, serial, withdrawn, retyped>>
    /\ UNCHANGED material /\ UNCHANGED calendar

(* Mutated form: tables without REFERENCES. *)
NeverRefused(w) == FALSE
Refused(w)      == editor[w].late \/ Scheduled(editor[w].p) \ editor[w].locked # {}

CommitDelete(w) ==
    LET p == editor[w].p IN
    /\ editor[w].pc = "deleting"
    /\ Close(w)
    /\ IF Refused(w) THEN UNCHANGED <<problems, schedule, data, cases, solutions>>
       ELSE /\ problems' = [problems EXCEPT ![p] = NoProblem]
            /\ schedule' = [d \in Dates |->
                   IF d \in editor[w].locked
                   THEN [s \in Slots |-> IF schedule[d][s] = p THEN Null ELSE schedule[d][s]]
                   ELSE schedule[d]]
            /\ data' = [data EXCEPT ![p] = 0]
            /\ cases' = [cases EXCEPT ![p] = 0]
            /\ solutions' = [solutions EXCEPT ![p] = {}]
    /\ UNCHANGED <<made, serial, today, withdrawn, retyped, backdated>>

----------------------------------------------------------------------------
(* schedule_daily_practice: the row of a date, whole, of any date: of one   *)
(* so far back that a request which has published what was due before it   *)
(* may yet clean it away, too.                                             *)
Cleaning     == \E w \in Workers : editor[w].pc = "clean"
FarBack(d)   == d + Keep <= today

Schedule(d, row) ==
    /\ ~RowLocked(d)
    /\ \A s \in Slots : row[s] # Null => Exists(row[s])
    /\ schedule' = [schedule EXCEPT ![d] = row]
    /\ backdated' = IF Cleaning /\ FarBack(d) THEN backdated \cup {d} ELSE backdated \ {d}
    /\ UNCHANGED <<problems, made, serial, editor, today, withdrawn, retyped>> /\ UNCHANGED material

(* Mutated form: only the day itself is published. *)
TodayIn(p, S) == schedule[today] # Null /\ \E s \in S : schedule[today][s] = p
DueIn(p, S) == \E d \in Dates : d <= today /\ schedule[d] # Null /\ \E s \in S : schedule[d][s] = p

PublishDue(S) ==
    LET due == {p \in Ids : Exists(p) /\ DueIn(p, S)} IN
    /\ problems' = [p \in Ids |-> [problems[p] EXCEPT !.active = @ \/ p \in due]]
    /\ withdrawn' = withdrawn \ due

(* list_problems of the CMS, which overlooks the dsa columns. *)
AdminList ==
    /\ PublishDue(Slots \ {"dsa"})
    /\ UNCHANGED <<made, serial, editor, retyped>> /\ UNCHANGED material /\ UNCHANGED calendar

(* get_today_practice: publishes what is due, then clears the history. *)
PublishToday(w) ==
    /\ Serving(w, [NoEditor EXCEPT !.pc = "clean", !.since = today])
    /\ PublishDue(Slots)
    /\ backdated' = {}
    /\ UNCHANGED <<made, serial, schedule, today, retyped>> /\ UNCHANGED material

Old(d) == d < today - Keep

CleanHistory(w) ==
    /\ editor[w].pc = "clean"
    /\ \A d \in Dates : Old(d) => ~RowLocked(d)
    /\ schedule' = [d \in Dates |-> IF Old(d) THEN Null ELSE schedule[d]]
    /\ Close(w)
    /\ backdated' = IF \E v \in Workers \ {w} : editor[v].pc = "clean" THEN backdated ELSE {}
    /\ UNCHANGED <<problems, made, serial, today, withdrawn, retyped>> /\ UNCHANGED material

(* Bound: midnight strikes at most once between the two statements. *)
NextDay ==
    /\ today < LastDate
    /\ \A w \in Workers : editor[w].pc = "clean" => editor[w].since = today
    /\ today' = today + 1
    /\ UNCHANGED <<problems, made, serial, schedule, editor, withdrawn, retyped, backdated>>
    /\ UNCHANGED material

----------------------------------------------------------------------------
(* add_dataset. *)
AddDataset(p) ==
    /\ Exists(p) /\ data[p] < MaxVersions
    /\ data' = [data EXCEPT ![p] = @ + 1]
    /\ editor' = MarkLate(p)
    /\ UNCHANGED <<problems, made, serial, cases, solutions, withdrawn, retyped>>
    /\ UNCHANGED calendar

(* edit_dataset: the cached reference_output stays as it was. Rows that    *)
(* are being deleted are waited for, here and in the next two.             *)
EditDataset(p) ==
    /\ Exists(p) /\ Deleting(p) = {}
    /\ data[p] # 0 /\ data[p] < MaxVersions
    /\ data' = [data EXCEPT ![p] = @ + 1]
    /\ UNCHANGED <<problems, made, serial, cases, solutions, editor, withdrawn, retyped>>
    /\ UNCHANGED calendar

(* delete_dataset, of the last one or of one among others. *)
DeleteDataset(p, last) ==
    /\ data[p] # 0 /\ Deleting(p) = {}
    /\ last \/ data[p] < MaxVersions
    /\ data' = [data EXCEPT ![p] = IF last THEN 0 ELSE @ + 1]
    /\ UNCHANGED <<problems, made, serial, cases, solutions, editor, withdrawn, retyped>>
    /\ UNCHANGED calendar

(* add_test_case, in bulk or one at a time, and delete_test_case; the type *)
(* read may be a former one. ON DELETE CASCADE: a deletion takes them.     *)
ChangeCases(p, n) ==
    /\ Exists(p) /\ n # cases[p]
    /\ n > cases[p] => problems[p].kind = "dsa" \/ p \in retyped
    /\ n < cases[p] => Deleting(p) = {}
    /\ cases' = [cases EXCEPT ![p] = n]
    /\ UNCHANGED <<problems, made, serial, data, solutions, editor, withdrawn, retyped>>
    /\ UNCHANGED calendar

(* add_solution ("add") and edit_solution ("edit", with or without a new   *)
(* reference code): read the type.                                         *)
OpenSave(w, p, op, code) ==
    LET kind == problems[p].kind IN
    /\ Exists(p)
    /\ op = "add" /\ kind # "sql" => code # Null
    /\ Serving(w, [NoEditor EXCEPT
                     !.pc = IF kind # "sql" /\ code # Null THEN "run" ELSE "look",
                     !.p = p, !.op = op, !.kind = kind, !.row = [BlankRow EXCEPT !.code = code]])
    /\ UNCHANGED <<problems, made, serial, withdrawn, retyped>>
    /\ UNCHANGED material /\ UNCHANGED calendar

(* Only python and pyspark have an output: that of the code on the data.   *)
Produced(e) == [e.row EXCEPT !.output = IF e.kind = "pandas"
                                        THEN [code |-> e.row.code, data |-> data[e.p]]
                                        ELSE NoOutput]

(* The reference code runs on the datasets, or on the test cases, it reads *)
(* now; add_solution needs some of the latter. A failing run is refused.   *)
RunReference(w, fails) ==
    LET e == editor[w] IN
    /\ e.pc = "run"
    /\ IF fails \/ (e.kind = "dsa" /\ e.op = "add" /\ cases[e.p] = 0) THEN Close(w)
       ELSE editor' = [editor EXCEPT ![w] = [e EXCEPT !.pc = "look", !.row = Produced(e)]]
    /\ UNCHANGED <<problems, made, serial, withdrawn, retyped>>
    /\ UNCHANGED material /\ UNCHANGED calendar

LookUp(w) ==
    /\ editor[w].pc = "look"
    /\ Goto(w, IF solutions[editor[w].p] = {} THEN "insert" ELSE "update")
    /\ UNCHANGED <<problems, made, serial, withdrawn, retyped>>
    /\ UNCHANGED material /\ UNCHANGED calendar

(* An edit inserts an empty row and then updates it. *)
InsertSolution(w) ==
    LET e == editor[w]
        marked == MarkLate(e.p) IN
    /\ e.pc = "insert"
    /\ IF ~Exists(e.p) THEN Close(w) /\ UNCHANGED solutions
       ELSE /\ solutions' = [solutions EXCEPT ![e.p] = @ \cup {IF e.op = "add" THEN e.row ELSE BlankRow}]
            /\ editor' = [marked EXCEPT ![w] = IF e.op = "add" THEN NoEditor
                                               ELSE [e EXCEPT !.pc = "update"]]
    /\ UNCHANGED <<problems, made, serial, data, cases, withdrawn, retyped>>
    /\ UNCHANGED calendar

(* What an UPDATE leaves of a row: an edit sets the code when it has one,  *)
(* and the output when the reference ran or the type read was dsa. Mutated *)
(* form: an edit of the code keeps the output.                             *)
KeepOutput(e, old) ==
    IF e.op = "add" THEN e.row
    ELSE [old EXCEPT !.code = IF e.row.code # Null THEN e.row.code ELSE @]
Merged(e, old) ==
    IF e.op = "add" THEN e.row
    ELSE [code   |-> IF e.row.code # Null THEN e.row.code ELSE old.code,
          output |-> IF e.kind = "dsa" \/ (e.kind = "pandas" /\ e.row.code # Null)
                     THEN e.row.output ELSE old.output]

UpdateSolution(w) ==
    LET e == editor[w] IN
    /\ e.pc = "update" /\ Deleting(e.p) = {}
    /\ solutions' = [solutions EXCEPT ![e.p] = {Merged(e, old) : old \in @}]
    /\ Close(w)
    /\ UNCHANGED <<problems, made, serial, data, cases, withdrawn, retyped>>
    /\ UNCHANGED calendar

(* The server stops: transactions roll back, the rest stays as it is.      *)
Restart ==
    /\ \E w \in Workers : editor[w].pc # "idle"
    /\ editor' = [w \in Workers |-> NoEditor]
    /\ backdated' = {}
    /\ UNCHANGED <<problems, made, serial, schedule, today, withdrawn, retyped>>
    /\ UNCHANGED material

----------------------------------------------------------------------------
OneSlot(s, p) == [t \in Slots |-> IF t = s THEN p ELSE Null]

LifeNext ==
    \/ \E kind \in Kinds, active \in BOOLEAN : CreateProblem(kind, active)
    \/ \E w \in Workers, p \in Ids : BeginDelete(w, p)
    \/ \E w \in Workers : CommitDelete(w)
    \/ Restart

ScheduleNext ==
    \/ LifeNext
    \/ \E p \in Ids, active \in BOOLEAN : EditActive(p, active)
    \/ \E d \in Dates, s \in Slots, p \in Ids \cup {Null} : Schedule(d, OneSlot(s, p))
    \/ AdminList
    \/ \E w \in Workers : PublishToday(w) \/ CleanHistory(w)
    \/ NextDay

AuthorNext ==
    \/ LifeNext
    \/ \E p \in Ids, kind \in Kinds : EditKind(p, kind)
    \/ \E p \in Ids : AddDataset(p) \/ EditDataset(p)
    \/ \E p \in Ids, last \in BOOLEAN : DeleteDataset(p, last)
    \/ \E p \in Ids, n \in 0..1 : ChangeCases(p, n)
    \/ \E w \in Workers, p \in Ids, op \in {"add", "edit"}, code \in Codes \cup {Null} :
           OpenSave(w, p, op, code)
    \/ \E w \in Workers, fails \in BOOLEAN : RunReference(w, fails)
    \/ \E w \in Workers : LookUp(w) \/ InsertSolution(w) \/ UpdateSolution(w)

ContentNext == ScheduleNext \/ AuthorNext

ContentSpec == ContentInit /\ [][ContentNext]_contentVars

----------------------------------------------------------------------------
(* The free tier: the three SQL columns of the day, and SQL problems whose *)
(* number is small. A problem without a number counts from the first one;  *)
(* the list of problems counts visible ones only.                          *)
FreeToday(p) == schedule[today] # Null /\ schedule[today]["sql"] = p

CountBefore(p) == Cardinality({q \in Ids : problems[q].kind = "sql" /\ q <= p})
Number(p)      == IF problems[p].num = 0 /\ problems[p].kind = "sql"
                  THEN CountBefore(p) ELSE problems[p].num
NeedsPaid(p)   == (problems[p].kind # "sql" \/ Number(p) > FreeLimit) /\ ~FreeToday(p)

ListIndex(p)   == Cardinality({q \in Ids : problems[q].kind = "sql" /\ Visible(q) /\ q <= p})
(* Mutated form: the list goes by its own index. *)
IndexOnly(p)   == IF problems[p].kind = "sql" THEN ListIndex(p) ELSE problems[p].num
ListNumber(p)  == IF problems[p].kind = "sql" /\ problems[p].num = 0
                  THEN ListIndex(p) ELSE problems[p].num
Locked(p, paid) ==
    ~paid /\ (problems[p].kind # "sql" \/ ListNumber(p) > FreeLimit) /\ ~FreeToday(p)

(* What is answered to a member with a paid plan, or without one: the      *)
(* problem itself, its data, its expected output, and a member's solution. *)
(* Only the first asks whether the problem is published.                   *)
Admits(p, paid) == paid \/ ~NeedsPaid(p)

OpensProblem(p, paid)  == Visible(p) /\ Admits(p, paid)
OpensDatasets(p, paid) == (Exists(p) => Admits(p, paid)) /\ data[p] # 0
OpensExpected(p, paid) ==
    /\ Exists(p) /\ Admits(p, paid)
    /\ \/ problems[p].kind = "sql" /\ solutions[p] # {}
       \/ problems[p].kind = "pandas" /\ \E row \in solutions[p] : row.output # NoOutput
OpensSolution(p, paid) == Exists(p) => Admits(p, paid)

----------------------------------------------------------------------------
Rows == [code : Codes \cup {Null}, output : [code : Codes \cup {Null}, data : 0..MaxVersions]]

ContentTypeOK ==
    /\ problems \in [Ids -> [kind : Kinds \cup {Null}, active : BOOLEAN, num : 0..MaxProblems]]
    /\ made \in 0..MaxProblems /\ serial \in 0..MaxProblems
    /\ schedule \in [Dates -> [Slots -> Ids \cup {Null}] \cup {Null}]
    /\ data \in [Ids -> 0..MaxVersions]
    /\ cases \in [Ids -> Nat]
    /\ solutions \in [Ids -> SUBSET Rows]
    /\ editor \in [Workers -> [pc : {"idle", "deleting", "clean", "run", "look", "insert", "update"},
                               p : Ids \cup {Null}, op : {"add", "edit", Null},
                               kind : Kinds \cup {Null}, row : Rows, locked : SUBSET Dates,
                               late : BOOLEAN, since : Dates]]
    /\ today \in Dates
    /\ withdrawn \subseteq Ids /\ retyped \subseteq Ids /\ backdated \subseteq Dates

(* Whatever is scheduled, added or saved while a problem is being deleted, *)
(* nothing is left that belongs to a problem no longer on record, neither  *)
(* after a deletion nor after one that was refused (delete_problem).       *)
NothingDangles ==
    \A p \in Ids : ~Exists(p) => /\ data[p] = 0 /\ cases[p] = 0 /\ solutions[p] = {}
                                 /\ Scheduled(p) = {}

(* A cached expected output is the output of the reference code it is      *)
(* stored with, never another save's, as long as the type of the problem   *)
(* is not edited (add_solution, edit_solution: the judge of python and     *)
(* pyspark compares with it).                                              *)
OutputOfCode ==
    \A p \in Ids \ retyped : \A row \in solutions[p] :
        row.output # NoOutput => row.output.code = row.code

(* The list locks what the problem itself refuses, and nothing else, and   *)
(* of what it locks no other route gives the data, the expected output or  *)
(* a solution: they count differently, and agree because every problem has *)
(* a number (list_problems, get_problem, get_problem_datasets,             *)
(* get_expected_output and get_public_solution of user/router.py).         *)
ListMatchesGate ==
    \A p \in Ids, paid \in BOOLEAN : Visible(p) =>
        /\ Locked(p, paid) <=> ~OpensProblem(p, paid)
        /\ Locked(p, paid) => /\ ~OpensDatasets(p, paid) /\ ~OpensExpected(p, paid)
                              /\ ~OpensSolution(p, paid)

(* "Permanently publish": what the public has seen is hidden by an admin    *)
(* who deletes it, withdraws it or schedules something else for its day,   *)
(* and never by the calendar. The cleaning of the schedule hides one thing: *)
(* a problem that an admin put on a day long gone, between the statement   *)
(* of get_today_practice that publishes what is due and the one that       *)
(* deletes the history.                                                    *)
VisibleStays ==
    [][\A p \in Ids : Visible(p) /\ ~Visible(p)' =>
          \/ ~Exists(p)' \/ p \in withdrawn'
          \/ \E d \in Dates : schedule'[d] # Null /\ schedule'[d] # schedule[d]
          \/ \E d \in backdated : InRow(p, d)]_contentVars
=============================================================================
