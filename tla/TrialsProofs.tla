---------------------------- MODULE TrialsProofs ----------------------------
(***************************************************************************)
(* Theorems about Trials, for every set of accounts, mailboxes, sign-ups   *)
(* and admins at work at once.                                             *)
(***************************************************************************)
EXTENDS Trials, TLAPS

----------------------------------------------------------------------------
(* Operators *)

LEMMA NullFacts == Null \notin Nat /\ Null \notin Accounts /\ Null \notin {"global_trial", "new_signup"}
BY TrialsAssumption

LEMMA AbsentType == Absent \in UserRow /\ Absent.type = Null /\ Absent.exp = Null
BY DEF Absent, UserRow, Day

LEMMA NoTaskType ==
    /\ NoTask \in TaskRow
    /\ NoTask.pc = "idle" /\ NoTask.rows = {} /\ NoTask.user = Null
BY DEF NoTask, TaskRow

LEMMA EndTrialType ==
    ASSUME NEW exp \in Day, NEW d \in Nat
    PROVE  EndTrial(exp, d) \in Day /\ (EndTrial(exp, d) = Null <=> exp = Null)
BY NullFacts DEF EndTrial, Day

LEMMA MissedType == IInv => missed \subseteq Accounts
BY DEF IInv, TypeOK

----------------------------------------------------------------------------
(* A step that gives no user a signup trial, revives no account and hands   *)
(* no sign-up another user keeps what sign-ups and saves rely on.           *)

LEMMA UsersOnly ==
    ASSUME IInv, UNCHANGED task,
           \A u \in Accounts : /\ users[u].exists => users'[u].exists
                               /\ users'[u].type = "new_signup" => users[u].type = "new_signup"
                               /\ ~users'[u].exists => users'[u].type = Null
    PROVE  SignupInFlight' /\ RowsHeld'
<1>1. SignupInFlight' BY NullFacts DEF IInv, SignupInFlight, Idle
<1>2. \A w \in Admins : task[w].rows \subseteq Accounts
  BY DEF IInv, TypeOK, TaskRow, Workers
<1>3. RowsHeld' BY <1>2 DEF IInv, RowsHeld
<1>4. QED BY <1>1, <1>3

LEMMA DoneInv ==
    ASSUME IInv, NEW w \in Workers, Done(w), UNCHANGED users
    PROVE  SignupInFlight' /\ RowsHeld' /\ task' \in [Workers -> TaskRow]
<1>1. task \in [Workers -> TaskRow] BY DEF IInv, TypeOK
<1>2. task' \in [Workers -> TaskRow] BY <1>1, NoTaskType DEF Done
<1>3. \A v \in Workers : task'[v] = IF v = w THEN NoTask ELSE task[v]
  BY <1>1 DEF Done
<1>4. SignupInFlight'
  BY <1>3, NoTaskType, NullFacts DEF IInv, SignupInFlight, Idle, Workers
<1>5. RowsHeld' BY <1>3, NoTaskType DEF IInv, RowsHeld, Workers
<1>6. QED BY <1>2, <1>4, <1>5

----------------------------------------------------------------------------
(* The actions *)

LEMMA InitInv == Init => IInv
<1> SUFFICES ASSUME Init PROVE IInv OBVIOUS
<1> USE DEF Init
<1>1. \A u \in Accounts : users[u] \in UserRow
  BY TrialsAssumption, AbsentType DEF UserRow, Day, Absent
<1>2. users \in [Accounts -> UserRow] BY <1>1
<1>3. cfg \in [active : BOOLEAN, start : Day, end : Day]
  BY TrialsAssumption DEF Day
<1>4. task \in [Workers -> TaskRow] BY NoTaskType
<1>5. \A u \in Accounts : users[u].type = Null <=> users[u].exp = Null
  BY TrialsAssumption DEF Absent
<1>6. TypeOK BY <1>2, <1>3, <1>4, <1>5 DEF TypeOK
<1>7. SignupInFlight BY NoTaskType DEF SignupInFlight, Idle, Workers
<1>8. \A u \in Accounts : ~users[u].exists => users[u].type = Null
  BY DEF Absent
<1>9. RowsHeld BY <1>8, NoTaskType DEF RowsHeld, Workers
<1>10. QED BY <1>6, <1>7, <1>9 DEF IInv

LEMMA InsertUserInv ==
    ASSUME IInv, NEW w \in Signups, NEW u \in Accounts, InsertUser(w, u)
    PROVE  IInv'
<1> DEFINE row == [Absent EXCEPT !.exists = TRUE, !.created = now]
           t   == [NoTask EXCEPT !.pc = "config", !.user = u]
<1>1. row \in UserRow /\ row.type = Null /\ row.exp = Null /\ row.exists
  BY DEF IInv, TypeOK, Absent, UserRow, Day
<1>2. t \in TaskRow /\ t.user = u /\ t.rows = {} /\ t.pc = "config" BY DEF NoTask, TaskRow
<1> HIDE DEF row, t
<1>3. users' = [users EXCEPT ![u] = row] /\ task' = [task EXCEPT ![w] = t]
  BY DEF InsertUser, row, t
<1>4. TypeOK'
  <2>1. users' \in [Accounts -> UserRow] BY <1>1, <1>3 DEF IInv, TypeOK
  <2>2. task' \in [Workers -> TaskRow] BY <1>2, <1>3 DEF IInv, TypeOK, Workers
  <2>3. \A v \in Accounts : users'[v].type = Null <=> users'[v].exp = Null
    BY <1>1, <1>3 DEF IInv, TypeOK
  <2>4. now' \in Nat /\ cfg' \in [active : BOOLEAN, start : Day, end : Day]
    BY DEF IInv, TypeOK, InsertUser
  <2>5. missed' \subseteq Accounts BY MissedType DEF InsertUser
  <2>6. QED BY <2>1, <2>2, <2>3, <2>4, <2>5 DEF TypeOK
<1>5. \A v \in Signups : task'[v] = IF v = w THEN t ELSE task[v]
  BY <1>3 DEF IInv, TypeOK, Workers
<1>6. \A v \in Accounts : users'[v] = IF v = u THEN row ELSE users[v]
  BY <1>3 DEF IInv, TypeOK
<1>8. \A v \in Signups : task[v].user # u
  BY NullFacts DEF IInv, SignupInFlight, InsertUser
<1>9. SignupInFlight'
  <2> SUFFICES ASSUME NEW v \in Signups
               PROVE  \/ Idle(v)' /\ task'[v].user = Null
                      \/ /\ ~Idle(v)' /\ task'[v].user \in Accounts
                         /\ users'[task'[v].user].exists
                         /\ users'[task'[v].user].type # "new_signup"
                         /\ \A x \in Signups : task'[x].user = task'[v].user => x = v
    BY DEF SignupInFlight
  <2>1. CASE v = w
    BY <2>1, <1>1, <1>2, <1>5, <1>6, <1>8, NullFacts DEF Idle
  <2>2. CASE v # w
    BY <2>2, <1>2, <1>5, <1>6, <1>8, NullFacts DEF IInv, SignupInFlight, Idle
  <2>3. QED BY <2>1, <2>2
<1>10. RowsHeld'
  <2>1. \A v \in Admins : task'[v].rows = task[v].rows
    BY <1>3, TrialsAssumption DEF IInv, TypeOK, Workers
  <2>2. \A v \in Admins : task[v].rows \subseteq Accounts
    BY DEF IInv, TypeOK, TaskRow, Workers
  <2>3. QED BY <2>1, <2>2, <1>1, <1>6, NullFacts DEF IInv, RowsHeld
<1>11. QED BY <1>4, <1>9, <1>10 DEF IInv

(* A worker goes on with its request and writes no user. *)
LEMMA TaskMoves ==
    ASSUME IInv, NEW w \in Workers, NEW t \in TaskRow, UNCHANGED users,
           task' = [task EXCEPT ![w] = t],
           w \in Signups => ~Idle(w) /\ t.pc # "idle" /\ t.user = task[w].user,
           w \in Admins => \A u \in t.rows : users[u].exists /\ users[u].type # "new_signup"
    PROVE  SignupInFlight' /\ RowsHeld' /\ task' \in [Workers -> TaskRow]
<1>1. task \in [Workers -> TaskRow] BY DEF IInv, TypeOK
<1>2. task' \in [Workers -> TaskRow] BY <1>1
<1>3. \A v \in Workers : task'[v] = IF v = w THEN t ELSE task[v] BY <1>1
<1>4. \A v \in Signups : task'[v].user = task[v].user
  BY <1>3 DEF Workers
<1>5. \A v \in Signups : Idle(v)' <=> Idle(v)
  BY <1>3 DEF Workers, Idle
<1>6. SignupInFlight' BY <1>4, <1>5 DEF IInv, SignupInFlight
<1>7. RowsHeld' BY <1>3 DEF IInv, RowsHeld, Workers
<1>8. QED BY <1>2, <1>6, <1>7

LEMMA TypeStutter ==
    ASSUME IInv, task' \in [Workers -> TaskRow], UNCHANGED <<now, cfg, users>>,
           missed' \subseteq Accounts
    PROVE  TypeOK'
BY DEF IInv, TypeOK

LEMMA ReadConfigInv ==
    ASSUME IInv, NEW w \in Signups, ReadConfig(w)
    PROVE  IInv'
<1>1. UNCHANGED users /\ w \in Workers /\ missed' \subseteq Accounts
  BY MissedType DEF ReadConfig, Workers
<1>2. CASE Done(w)
  BY <1>1, <1>2, DoneInv, TypeStutter DEF IInv, ReadConfig
<1>3. CASE ~Done(w)
  <2>1. task[w] \in TaskRow /\ now \in Nat /\ task[w].pc = "config"
    BY <1>1 DEF IInv, TypeOK, ReadConfig
  <2>2. PICK t \in TaskRow : t = [task[w] EXCEPT !.pc = "mailbox", !.at = now]
    BY <2>1 DEF TaskRow
  <2>3. t.pc = "mailbox" /\ t.user = task[w].user BY <2>1, <2>2 DEF TaskRow
  <2>4. task' = [task EXCEPT ![w] = t] BY <1>3, <2>2 DEF ReadConfig
  <2>5. w \notin Admins BY TrialsAssumption
  <2>6. QED
    BY <1>1, <2>1, <2>3, <2>4, <2>5, TaskMoves, TypeStutter DEF IInv, ReadConfig, Idle
<1>4. QED BY <1>2, <1>3

LEMMA CheckMailboxInv ==
    ASSUME IInv, NEW w \in Signups, CheckMailbox(w)
    PROVE  IInv'
<1>1. UNCHANGED users /\ w \in Workers BY DEF CheckMailbox, Workers
<1>2. missed' \subseteq Accounts
  <2>1. task[w].user \in Accounts BY DEF IInv, SignupInFlight, CheckMailbox, Idle
  <2>2. QED BY <2>1, MissedType DEF CheckMailbox
<1>3. CASE Done(w)
  BY <1>1, <1>2, <1>3, DoneInv, TypeStutter DEF IInv, CheckMailbox
<1>4. CASE ~Done(w)
  <2>1. task[w] \in TaskRow /\ task[w].pc = "mailbox"
    BY <1>1 DEF IInv, TypeOK, CheckMailbox
  <2>2. PICK t \in TaskRow : t = [task[w] EXCEPT !.pc = "grant"]
    BY <2>1 DEF TaskRow
  <2>3. t.pc = "grant" /\ t.user = task[w].user BY <2>1, <2>2 DEF TaskRow
  <2>4. task' = [task EXCEPT ![w] = t] BY <1>4, <2>2 DEF CheckMailbox
  <2>5. w \notin Admins BY TrialsAssumption
  <2>6. QED
    BY <1>1, <1>2, <2>1, <2>3, <2>4, <2>5, TaskMoves, TypeStutter
    DEF IInv, CheckMailbox, Idle
<1>5. QED BY <1>3, <1>4

(* The trial goes to a user whose row no save holds and which no other      *)
(* sign-up serves.                                                          *)
LEMMA GrantTrialInv ==
    ASSUME IInv, NEW w \in Signups, GrantTrial(w)
    PROVE  IInv'
<1> DEFINE u == task[w].user
<1>1. u \in Accounts /\ users[u].exists /\ ~RowLocked(u) /\ w \in Workers
  BY DEF IInv, SignupInFlight, GrantTrial, Idle, Workers
<1>2. \A v \in Signups : task[v].user = u => v = w
  BY DEF IInv, SignupInFlight, GrantTrial, Idle
<1>3. task \in [Workers -> TaskRow] /\ users \in [Accounts -> UserRow]
  BY DEF IInv, TypeOK
<1>4. CASE StillFree(u)
  <2>1. task[w] \in TaskRow BY <1>1, <1>3
  <2>2. task[w].at + SignupDays \in Nat BY <2>1, TrialsAssumption DEF TaskRow
  <2>3. PICK row \in UserRow : row = [users[u] EXCEPT !.type = "new_signup",
                                                      !.exp = task[w].at + SignupDays]
    BY ZenonT(60), <1>1, <1>3, <2>2 DEF UserRow, Day
  <2>4. row.type = "new_signup" /\ row.exp # Null /\ row.exists
    BY <1>1, <1>3, <2>2, <2>3, NullFacts DEF UserRow
  <2>5. users' = [users EXCEPT ![u] = row]
    BY <1>4, <1>1, <1>3, <2>3 DEF GrantTrial
  <2>6. Done(w) BY DEF GrantTrial
  <2>7. task' \in [Workers -> TaskRow] BY <1>3, <2>6, NoTaskType DEF Done
  <2>8. \A v \in Workers : task'[v] = IF v = w THEN NoTask ELSE task[v]
    BY <1>3, <2>6 DEF Done
  <2>9. \A v \in Accounts : users'[v] = IF v = u THEN row ELSE users[v]
    BY <1>3, <2>5
  <2> HIDE DEF u
  <2>10. TypeOK'
    <3>1. users' \in [Accounts -> UserRow] BY <1>3, <2>5
    <3>2. \A v \in Accounts : users'[v].type = Null <=> users'[v].exp = Null
      BY <2>4, <2>9, NullFacts DEF IInv, TypeOK
    <3>3. QED BY <2>7, <3>1, <3>2 DEF IInv, TypeOK, GrantTrial
  <2>11. SignupInFlight'
    <3> SUFFICES ASSUME NEW v \in Signups
                 PROVE  \/ Idle(v)' /\ task'[v].user = Null
                        \/ /\ ~Idle(v)' /\ task'[v].user \in Accounts
                           /\ users'[task'[v].user].exists
                           /\ users'[task'[v].user].type # "new_signup"
                           /\ \A x \in Signups : task'[x].user = task'[v].user => x = v
      BY DEF SignupInFlight
    <3>1. CASE v = w BY <3>1, <1>1, <2>8, NoTaskType DEF Idle
    <3>2. CASE v # w
      BY <3>2, <1>2, <2>8, <2>9, NoTaskType, NullFacts DEF IInv, SignupInFlight, Idle, Workers
    <3>3. QED BY <3>1, <3>2
  <2>12. RowsHeld'
    <3>1. \A v \in Admins : task'[v].rows \subseteq Accounts \ {u}
      BY <1>1, <1>3, <2>8, NoTaskType DEF RowLocked, TaskRow, Workers
    <3>2. \A v \in Admins : task'[v].rows \subseteq task[v].rows
      BY <2>8, NoTaskType DEF Workers
    <3>3. QED BY <3>1, <3>2, <2>4, <2>9 DEF IInv, RowsHeld
  <2>13. QED BY <2>10, <2>11, <2>12 DEF IInv
<1>5. CASE ~StillFree(u)
  <2>1. UNCHANGED <<now, cfg, users>> /\ Done(w) /\ missed' \subseteq Accounts
    BY <1>5, MissedType DEF GrantTrial
  <2>2. QED BY <1>1, <2>1, DoneInv, TypeStutter DEF IInv
<1>6. QED BY <1>4, <1>5

LEMMA BeginSaveInv ==
    ASSUME IInv, NEW w \in Admins, NEW on \in BOOLEAN, NEW days \in WindowDays,
           BeginSave(w, on, days)
    PROVE  IInv'
<1> DEFINE start == IF Extends(on) THEN cfg.start ELSE now
           save  == IF Extends(on) THEN (IF start + days = cfg.end THEN "keep" ELSE "extend")
                    ELSE IF on THEN "open" ELSE "close"
<1>1. start \in Nat
  BY DEF IInv, TypeOK, Extends, Running, Day
<1>2. start + days \in Nat /\ now \in Nat BY <1>1, TrialsAssumption DEF IInv, TypeOK
<1>3. save \in {"open", "extend", "keep", "close"} OBVIOUS
<1>4. task' = [task EXCEPT ![w] = [NoTask EXCEPT !.pc = "write", !.save = save, !.at = now,
                                       !.start = start, !.end = start + days]]
  BY DEF BeginSave
<1> HIDE DEF start, save
<1>5. PICK t \in TaskRow : t = [NoTask EXCEPT !.pc = "write", !.save = save, !.at = now,
                                              !.start = start, !.end = start + days]
  BY <1>1, <1>2, <1>3 DEF NoTask, TaskRow
<1>6. t.rows = {} BY <1>5 DEF NoTask
<1>7. w \in Workers /\ w \notin Signups BY TrialsAssumption DEF Workers
<1>8. UNCHANGED <<now, cfg, users>> /\ missed' \subseteq Accounts BY MissedType DEF BeginSave
<1>9. QED BY <1>4, <1>5, <1>6, <1>7, <1>8, TaskMoves, TypeStutter DEF IInv

LEMMA LockConfigInv ==
    ASSUME IInv, NEW w \in Admins, LockConfig(w)
    PROVE  IInv'
<1>1. w \in Workers /\ w \notin Signups BY TrialsAssumption DEF Workers
<1>2. task[w] \in TaskRow BY <1>1 DEF IInv, TypeOK
<1>3. PICK t \in TaskRow : t = [task[w] EXCEPT !.pc = "users"] BY <1>2 DEF TaskRow
<1>4. t.rows = task[w].rows BY <1>2, <1>3 DEF TaskRow
<1>5. /\ task' = [task EXCEPT ![w] = t] /\ UNCHANGED <<now, cfg, users>>
      /\ missed' \subseteq Accounts
  BY <1>3, MissedType DEF LockConfig
<1>6. \A u \in t.rows : users[u].exists /\ users[u].type # "new_signup"
  BY <1>4 DEF IInv, RowsHeld
<1>7. QED BY <1>1, <1>5, <1>6, TaskMoves, TypeStutter DEF IInv

(* No save takes the row of a user with a signup trial. *)
LEMMA AffectedRows ==
    ASSUME IInv, NEW t \in TaskRow
    PROVE  Affected(t) \subseteq {u \in Accounts : users[u].exists /\ users[u].type # "new_signup"}
<1>1. \A u \in Accounts : GetsTrial(u) => users[u].exists /\ users[u].type # "new_signup"
  BY NullFacts DEF GetsTrial
<1>2. \A u \in Accounts : LiveGlobalTrial(u, t.at) =>
         users[u].exists /\ users[u].type # "new_signup"
  BY NullFacts DEF LiveGlobalTrial, IInv, RowsHeld
<1>3. QED BY <1>1, <1>2 DEF Affected

LEMMA UpdateUsersInv ==
    ASSUME IInv, NEW w \in Admins, UpdateUsers(w)
    PROVE  IInv'
<1>1. w \in Workers /\ w \notin Signups BY TrialsAssumption DEF Workers
<1>2. task[w] \in TaskRow BY <1>1 DEF IInv, TypeOK
<1>3. \A u \in Affected(task[w]) :
         u \in Accounts /\ users[u].exists /\ users[u].type # "new_signup"
  BY <1>2, AffectedRows
<1>4. Affected(task[w]) \in SUBSET Accounts BY <1>3
<1>5. PICK t \in TaskRow : t = [task[w] EXCEPT !.pc = "commit", !.rows = Affected(task[w])]
  BY <1>2, <1>4 DEF TaskRow
<1>6. t.rows = Affected(task[w]) BY <1>2, <1>5 DEF TaskRow
<1>7. /\ task' = [task EXCEPT ![w] = t] /\ UNCHANGED <<now, cfg, users>>
      /\ missed' \subseteq Accounts
  BY <1>5, MissedType DEF UpdateUsers
<1>8. QED BY <1>1, <1>3, <1>6, <1>7, TaskMoves, TypeStutter DEF IInv

LEMMA CommitSaveInv ==
    ASSUME IInv, NEW w \in Admins, CommitSave(w)
    PROVE  IInv'
<1>1. w \in Workers /\ w \notin Signups BY TrialsAssumption DEF Workers
<1>2. PICK t \in TaskRow : t = task[w] BY <1>1 DEF IInv, TypeOK
<1>3. /\ t.at \in Nat /\ t.start \in Nat /\ t.end \in Nat /\ t.rows \subseteq Accounts
  BY DEF TaskRow
<1>4. PICK e \in Nat : e = IF t.save = "close" THEN t.at ELSE t.end BY <1>3
<1>5. users' = [u \in Accounts |-> IF u \notin t.rows THEN users[u]
                                   ELSE [users[u] EXCEPT !.exp = e, !.type = "global_trial"]]
  BY <1>2, <1>4 DEF CommitSave
<1>6. \A u \in t.rows : users[u].exists /\ users[u].type # "new_signup"
  BY <1>2 DEF IInv, RowsHeld
<1>7. \A u \in t.rows : /\ [users[u] EXCEPT !.exp = e, !.type = "global_trial"] \in UserRow
                        /\ users'[u].exists
                        /\ users'[u].type = "global_trial" /\ users'[u].exp = e
  BY <1>3, <1>5, <1>6 DEF IInv, TypeOK, UserRow, Day
<1>8. \A u \in Accounts \ t.rows : users'[u] = users[u] BY <1>5
<1>9. users' \in [Accounts -> UserRow]
  BY <1>5, <1>7 DEF IInv, TypeOK
<1>10. cfg' \in [active : BOOLEAN, start : Day, end : Day]
  <2>1. CASE t.save = "open"
    BY <2>1, <1>2, <1>3 DEF CommitSave, Day
  <2>2. CASE t.save = "close"
    BY <2>2, <1>2 DEF CommitSave, IInv, TypeOK
  <2>3. CASE t.save \notin {"open", "close"}
    BY <2>3, <1>2, <1>3 DEF CommitSave, IInv, TypeOK, Day
  <2>4. QED BY <2>1, <2>2, <2>3
<1>11. Done(w) /\ now' = now /\ missed' = missed BY DEF CommitSave
<1>12. task' \in [Workers -> TaskRow]
  BY <1>11, NoTaskType DEF Done, IInv, TypeOK
<1>13. \A v \in Workers : task'[v] = IF v = w THEN NoTask ELSE task[v]
  BY <1>11 DEF Done, IInv, TypeOK
<1>14. TypeOK'
  <2>1. \A u \in Accounts : users'[u].type = Null <=> users'[u].exp = Null
    BY <1>7, <1>8, NullFacts DEF IInv, TypeOK
  <2>2. QED BY <1>9, <1>10, <1>11, <1>12, <2>1 DEF IInv, TypeOK
<1>15. SignupInFlight'
  <2>1. \A v \in Signups : task'[v] = task[v] BY <1>1, <1>13 DEF Workers
  <2>2. \A u \in Accounts : /\ users[u].exists => users'[u].exists
                            /\ users'[u].type = "new_signup" => users[u].type = "new_signup"
    BY <1>7, <1>8
  <2>3. QED BY <2>1, <2>2 DEF IInv, SignupInFlight, Idle
<1>16. RowsHeld'
  <2>1. \A v \in Admins : task'[v].rows \subseteq task[v].rows /\ task[v].rows \subseteq Accounts
    BY <1>13, NoTaskType DEF Workers, IInv, TypeOK, TaskRow
  <2>2. QED BY <2>1, <1>7, <1>8 DEF IInv, RowsHeld
<1>17. QED BY <1>14, <1>15, <1>16 DEF IInv

(* A purchase or its end writes one existing row and no trial type. *)
LEMMA PlanStepInv ==
    ASSUME IInv, NEW u \in Accounts, NEW row \in UserRow,
           users' = [users EXCEPT ![u] = row],
           row.exists = users[u].exists, row.type = users[u].type,
           row.exp = Null <=> users[u].exp = Null,
           UNCHANGED <<now, cfg, task, missed>>
    PROVE  IInv'
<1>1. \A v \in Accounts : users'[v] = IF v = u THEN row ELSE users[v]
  BY DEF IInv, TypeOK
<1>2. TypeOK' BY <1>1 DEF IInv, TypeOK
<1>3. \A v \in Accounts : users'[v].exists = users[v].exists /\ users'[v].type = users[v].type
  BY <1>1
<1>4. SignupInFlight' /\ RowsHeld'
  BY <1>3, UsersOnly DEF IInv, RowsHeld
<1>5. QED BY <1>2, <1>4 DEF IInv

LEMMA StartPlanInv ==
    ASSUME IInv, NEW u \in Accounts, StartPlan(u)
    PROVE  IInv'
<1>1. users[u] \in UserRow /\ now \in Nat BY DEF IInv, TypeOK
<1>2. users[u].exp \in Day BY <1>1 DEF UserRow
<1>3. PICK e \in Day : e = EndTrial(users[u].exp, now) BY <1>1, <1>2, EndTrialType
<1>4. e = Null <=> users[u].exp = Null BY <1>1, <1>2, <1>3, EndTrialType
<1>5. PICK row \in UserRow : row = [users[u] EXCEPT !.plan = "paid", !.exp = e]
  BY <1>1 DEF UserRow
<1>6. /\ row.exists = users[u].exists /\ row.type = users[u].type /\ row.exp = e
  BY <1>1, <1>5 DEF UserRow
<1>7. users' = [users EXCEPT ![u] = row]
  BY <1>3, <1>5 DEF StartPlan, IInv, TypeOK
<1>8. QED BY <1>4, <1>6, <1>7, PlanStepInv DEF StartPlan

LEMMA RevokeAccessInv ==
    ASSUME IInv, NEW u \in Accounts, RevokeAccess(u)
    PROVE  IInv'
<1>1. users[u] \in UserRow /\ now \in Nat BY DEF IInv, TypeOK
<1>2. users[u].exp \in Day BY <1>1 DEF UserRow
<1>3. PICK e \in Day : e = EndTrial(users[u].exp, now) BY <1>1, <1>2, EndTrialType
<1>4. e = Null <=> users[u].exp = Null BY <1>1, <1>2, <1>3, EndTrialType
<1>5. PICK row \in UserRow : row = [users[u] EXCEPT !.plan = "free", !.exp = e]
  BY <1>1 DEF UserRow
<1>6. /\ row.exists = users[u].exists /\ row.type = users[u].type /\ row.exp = e
  BY <1>1, <1>5 DEF UserRow
<1>7. users' = [users EXCEPT ![u] = row]
  BY <1>3, <1>5 DEF RevokeAccess, IInv, TypeOK
<1>8. QED BY <1>4, <1>6, <1>7, PlanStepInv DEF RevokeAccess

LEMMA EndPlanInv ==
    ASSUME IInv, NEW u \in Accounts, NEW how \in {"free", "lapsed"}, EndPlan(u, how)
    PROVE  IInv'
<1>1. users[u] \in UserRow BY DEF IInv, TypeOK
<1>2. PICK row \in UserRow : row = [users[u] EXCEPT !.plan = how]
  BY <1>1 DEF UserRow
<1>3. /\ row.exists = users[u].exists /\ row.type = users[u].type /\ row.exp = users[u].exp
  BY <1>1, <1>2 DEF UserRow
<1>4. users' = [users EXCEPT ![u] = row]
  BY <1>2 DEF EndPlan, IInv, TypeOK
<1>5. QED BY ZenonT(60), <1>3, <1>4, PlanStepInv DEF EndPlan

LEMMA CrashInv ==
    ASSUME IInv, NEW w \in Workers, Crash(w)
    PROVE  IInv'
<1>1. Done(w) /\ UNCHANGED <<now, cfg, users>> /\ missed' \subseteq Accounts
  BY MissedType DEF Crash
<1>2. QED BY <1>1, DoneInv, TypeStutter DEF IInv

LEMMA TickInv == IInv /\ Tick => IInv'
BY DEF IInv, TypeOK, SignupInFlight, RowsHeld, Idle, Tick

LEMMA NextInv == IInv /\ [Next]_vars => IInv'
<1> SUFFICES ASSUME IInv, [Next]_vars PROVE IInv' OBVIOUS
<1>1. ASSUME NEW w \in Signups, Signup(w) PROVE IInv'
  BY <1>1, InsertUserInv, ReadConfigInv, CheckMailboxInv, GrantTrialInv DEF Signup
<1>2. ASSUME NEW w \in Admins, Save(w) PROVE IInv'
  BY <1>2, BeginSaveInv, LockConfigInv, UpdateUsersInv, CommitSaveInv DEF Save
<1>3. ASSUME NEW w \in Workers, Crash(w) PROVE IInv' BY <1>3, CrashInv
<1>4. ASSUME NEW u \in Accounts,
             StartPlan(u) \/ RevokeAccess(u) \/ EndPlan(u, "free") \/ EndPlan(u, "lapsed")
      PROVE IInv'
  BY <1>4, StartPlanInv, RevokeAccessInv, EndPlanInv
<1>5. CASE UNCHANGED vars
  BY <1>5 DEF vars, IInv, TypeOK, SignupInFlight, RowsHeld, Idle
<1>6. QED BY <1>1, <1>2, <1>3, <1>4, <1>5, TickInv DEF Next

(* No save holds the row of a signup trial, and none is about to get one    *)
(* there.                                                                   *)
THEOREM Inductive == Spec => []IInv
<1>1. Init => IInv BY InitInv
<1>2. IInv /\ [Next]_vars => IInv' BY NextInv
<1>3. QED BY <1>1, <1>2, PTL DEF Spec

(* Every reachable state is well typed, and every trial on record keeps its *)
(* end.                                                                     *)
THEOREM TypeCorrect == Spec => []TypeOK
<1>1. IInv => TypeOK BY DEF IInv
<1>2. QED BY <1>1, Inductive, PTL

----------------------------------------------------------------------------
(* SignupTrialHonoured *)

LEMMA StepHonours ==
    ASSUME IInv, Next, NEW u \in Accounts
    PROVE  TrialHonoured(u)
<1> SUFFICES ASSUME users[u].type = "new_signup"
             PROVE  /\ users'[u].type = "new_signup"
                    /\ users'[u].exp # users[u].exp =>
                          users'[u].exp = now /\ UNCHANGED <<cfg, task>>
  BY DEF TrialHonoured
<1>1. users[u].exists BY NullFacts DEF IInv, RowsHeld
<1>2. users[u] \in UserRow /\ users \in [Accounts -> UserRow] BY DEF IInv, TypeOK
<1>3. ASSUME NEW w \in Signups, Signup(w) PROVE users'[u] = users[u]
  <2>1. CASE \E v \in Accounts : InsertUser(w, v)
    BY <2>1, <1>1, <1>2 DEF InsertUser
  <2>2. CASE GrantTrial(w)
    <3>1. task[w].user # u BY <2>2 DEF GrantTrial, IInv, SignupInFlight, Idle
    <3>2. QED BY <2>2, <3>1, <1>2 DEF GrantTrial
  <2>3. QED BY <1>3, <2>1, <2>2 DEF Signup, ReadConfig, CheckMailbox
<1>4. ASSUME NEW w \in Admins, Save(w) PROVE users'[u] = users[u]
  <2>1. CASE CommitSave(w)
    <3>1. u \notin task[w].rows BY DEF IInv, RowsHeld
    <3>2. QED BY <2>1, <3>1 DEF CommitSave
  <2>2. QED BY <1>4, <2>1 DEF Save, BeginSave, LockConfig, UpdateUsers
<1>5. ASSUME NEW v \in Accounts, StartPlan(v) \/ RevokeAccess(v)
      PROVE  /\ users'[u].type = "new_signup"
             /\ users'[u].exp # users[u].exp =>
                   users'[u].exp = now /\ UNCHANGED <<cfg, task>>
  <2>1. CASE v = u BY <2>1, <1>2, <1>5 DEF StartPlan, RevokeAccess, UserRow, EndTrial
  <2>2. CASE v # u BY <2>2, <1>2, <1>5 DEF StartPlan, RevokeAccess
  <2>3. QED BY <2>1, <2>2
<1>6. ASSUME NEW v \in Accounts, NEW how \in {"free", "lapsed"}, EndPlan(v, how)
      PROVE  users'[u].type = users[u].type /\ users'[u].exp = users[u].exp
  <2>1. CASE v = u BY <2>1, <1>2, <1>6 DEF EndPlan, UserRow
  <2>2. CASE v # u BY <2>2, <1>2, <1>6 DEF EndPlan
  <2>3. QED BY <2>1, <2>2
<1>7. CASE Tick \/ \E w \in Workers : Crash(w) BY <1>7 DEF Tick, Crash
<1>8. QED BY <1>3, <1>4, <1>5, <1>6, <1>7 DEF Next

(* However many saves of the launch window and sign-ups race, a signup      *)
(* trial is changed by nothing but the billing, which ends it that day      *)
(* (set_launch_config).                                                     *)
THEOREM SignupTrialsKept == Spec => SignupTrialHonoured
<1>1. IInv /\ [Next]_vars => [\A u \in Accounts : TrialHonoured(u)]_vars
  BY StepHonours
<1>2. QED BY <1>1, Inductive, PTL DEF Spec, SignupTrialHonoured

(* No launch window, opened, extended or closed at whatever moment, gives   *)
(* access to a user whose signup trial has ended                            *)
(* (has_active_subscription).                                               *)
THEOREM SignupTrialsEnd == Spec => EndedStaysEnded
<1>1. ASSUME IInv, Next PROVE now' >= now /\ now \in Nat /\ now' \in Nat
  <2>1. now \in Nat BY <1>1 DEF IInv, TypeOK
  <2>2. ASSUME NEW w \in Signups, Signup(w) PROVE now' = now
    BY <2>2, Zenon DEF Signup, InsertUser, ReadConfig, CheckMailbox, GrantTrial
  <2>3. ASSUME NEW w \in Admins, Save(w) PROVE now' = now
    BY <2>3, Zenon DEF Save, BeginSave, LockConfig, UpdateUsers, CommitSave
  <2>4. ASSUME NEW w \in Workers, Crash(w) PROVE now' = now BY <2>4 DEF Crash
  <2>5. ASSUME NEW u \in Accounts,
               StartPlan(u) \/ RevokeAccess(u) \/ EndPlan(u, "free") \/ EndPlan(u, "lapsed")
        PROVE  now' = now
    BY <2>5 DEF StartPlan, RevokeAccess, EndPlan
  <2>6. Tick => now' = now + 1 BY DEF Tick
  <2>7. now' = now \/ now' = now + 1
    BY <1>1, <2>2, <2>3, <2>4, <2>5, <2>6 DEF Next
  <2>8. QED BY <2>1, <2>7
<1>2. ASSUME IInv, Next, NEW u \in Accounts PROVE TrialStaysEnded(u)
  <2> SUFFICES ASSUME users[u].type = "new_signup", ~LiveTrial(u), users'[u].plan # "paid"
               PROVE  ~HasAccess(u)'
    BY DEF TrialStaysEnded
  <2>1. TrialHonoured(u) BY <1>2, StepHonours
  <2>2. users'[u].type = "new_signup" /\ users'[u].exp \in {users[u].exp, now}
    BY <2>1 DEF TrialHonoured
  <2>3. users[u].exp \in Day BY <1>2 DEF IInv, TypeOK, UserRow
  <2>4. ~LiveTrial(u)'
    BY <1>1, <1>2, <2>2, <2>3 DEF LiveTrial, Day
  <2>5. ~EligibleForGlobalTrial(u)' BY <2>2, NullFacts DEF EligibleForGlobalTrial
  <2>6. QED BY <2>4, <2>5 DEF HasAccess
<1>3. ASSUME IInv, UNCHANGED vars, NEW u \in Accounts PROVE TrialStaysEnded(u)
  <2>1. users[u].type # Null \/ users[u].type # "new_signup" BY NullFacts
  <2>2. QED
    BY <1>3, <2>1, NullFacts
    DEF TrialStaysEnded, HasAccess, LiveTrial, EligibleForGlobalTrial, vars
<1>4. IInv /\ [Next]_vars => [\A u \in Accounts : TrialStaysEnded(u)]_vars
  BY <1>2, <1>3
<1>5. QED BY <1>4, Inductive, PTL DEF Spec, EndedStaysEnded

----------------------------------------------------------------------------
(* What the theorems on mailboxes, paid plans and the window need. *)

(* Hypotheses: one sign-up, one save at a time. *)
OneSignup == \A v, w \in Signups : v = w
OneAdmin  == \A v, w \in Admins : v = w

(* One signup trial for each mailbox, and the sign-up about to give one    *)
(* gives the first, unless its lookup failed.                              *)
FirstOfMailbox ==
    \A w \in Signups : task[w].pc = "grant" /\ task[w].user \notin missed =>
        \A v \in Accounts \ {task[w].user} :
            Mailbox[v] = Mailbox[task[w].user] => users[v].type # "new_signup"

MailboxInv == OneTrialPerMailbox /\ FirstOfMailbox

Global(u) == users[u].type = "global_trial" /\ LiveTrial(u)

(* A save read the clock some time ago and holds rows only when it is about *)
(* to commit; it waits for every other save before it touches a row.        *)
SavesBegun ==
    \A w \in Admins : /\ task[w].pc \in {"idle", "write", "users", "commit"}
                      /\ task[w].at <= now

RowsAtCommit == \A w \in Admins : task[w].rows # {} => task[w].pc = "commit"

SavesExclusive ==
    \A v, w \in Admins :
        task[v].pc \in {"users", "commit"} /\ task[w].pc \in {"users", "commit"} => v = w

(* Who is on a plan and in the rows of a save had a trial when it began.   *)
RowsSeen ==
    \A w \in Admins : \A u \in task[w].rows :
        \/ users[u].plan = "free"
        \/ users[u].exp # Null /\ users[u].exp > task[w].at

PaidInv == SavesBegun /\ RowsAtCommit /\ SavesExclusive /\ RowsSeen

(* What a save in flight knows of the window: nobody else changes it.      *)
SaveInv(t) ==
    /\ t.pc # "idle" => t.save \in {"open", "extend", "keep", "close"}
    /\ t.pc # "idle" /\ t.save = "open" => ~Running(cfg, t.at)
    /\ t.pc # "idle" /\ t.save \in {"extend", "keep"} => Running(cfg, t.at) /\ t.start = cfg.start
    /\ t.pc # "idle" /\ t.save = "keep" => t.end = cfg.end
    /\ t.pc = "commit" /\ t.save \in {"extend", "close"} =>
          t.rows = {u \in Accounts : LiveGlobalTrial(u, t.at)}
    /\ t.pc = "commit" /\ t.save = "keep" => t.rows = {}

WindowInv ==
    /\ SavesBegun /\ RowsAtCommit
    /\ \A w \in Admins : SaveInv(task[w])
    /\ cfg.active => cfg.start # Null /\ cfg.end # Null
    /\ GlobalTrialsFollowWindow

----------------------------------------------------------------------------
(* What a step does to a save, to a user, to the window and to the clock.  *)

Saves(v) ==
    \/ \E on \in BOOLEAN, days \in WindowDays : BeginSave(v, on, days)
    \/ LockConfig(v) \/ UpdateUsers(v)

LEMMA AdminSteps ==
    ASSUME IInv, Next, NEW v \in Admins
    PROVE  task'[v] = task[v] \/ task'[v] = NoTask \/ Saves(v)
<1> DEFINE Goal == task'[v] = task[v] \/ task'[v] = NoTask \/ Saves(v)
<1>1. task \in [Workers -> TaskRow] /\ v \in Workers /\ v \notin Signups
  BY TrialsAssumption DEF IInv, TypeOK, Workers
<1>2. ASSUME NEW w \in Workers, Done(w) PROVE Goal BY <1>1, <1>2 DEF Done
<1>3. ASSUME NEW w \in Signups, Signup(w) PROVE Goal
  <2>1. CASE \E u \in Accounts : InsertUser(w, u) BY <1>1, <2>1 DEF InsertUser
  <2>2. CASE ReadConfig(w) BY <1>1, <1>2, <2>2 DEF ReadConfig, Workers
  <2>3. CASE CheckMailbox(w) BY <1>1, <1>2, <2>3 DEF CheckMailbox, Workers
  <2>4. CASE GrantTrial(w) BY <1>1, <1>2, <2>4 DEF GrantTrial, Workers
  <2>5. QED BY <1>3, <2>1, <2>2, <2>3, <2>4 DEF Signup
<1>4. ASSUME NEW w \in Admins, Save(w) PROVE Goal
  <2>1. CASE \E on \in BOOLEAN, days \in WindowDays : BeginSave(w, on, days)
    <3>1. CASE v = w BY <2>1, <3>1 DEF Saves
    <3>2. CASE v # w BY <1>1, <2>1, <3>2 DEF BeginSave
    <3>3. QED BY <3>1, <3>2
  <2>2. CASE LockConfig(w) \/ UpdateUsers(w)
    <3>1. CASE v = w BY <2>2, <3>1 DEF Saves
    <3>2. CASE v # w BY <1>1, <2>2, <3>2 DEF LockConfig, UpdateUsers
    <3>3. QED BY <3>1, <3>2
  <2>3. CASE CommitSave(w) BY <1>2, <2>3 DEF CommitSave, Workers
  <2>4. QED BY <1>4, <2>1, <2>2, <2>3 DEF Save
<1>5. ASSUME NEW w \in Workers, Crash(w) PROVE Goal BY <1>2, <1>5 DEF Crash
<1>6. ASSUME NEW u \in Accounts,
             StartPlan(u) \/ RevokeAccess(u) \/ EndPlan(u, "free") \/ EndPlan(u, "lapsed")
      PROVE  Goal
  BY <1>6 DEF StartPlan, RevokeAccess, EndPlan
<1>7. CASE Tick BY <1>7 DEF Tick
<1>8. QED BY <1>3, <1>4, <1>5, <1>6, <1>7 DEF Next

Inserted(u) ==
    /\ ~users[u].exists
    /\ users'[u] = [Absent EXCEPT !.exists = TRUE, !.created = now]

Granted(w, u) ==
    /\ GrantTrial(w) /\ task[w].user = u /\ ~RowLocked(u) /\ users[u].plan = "free"
    /\ users'[u] = [users[u] EXCEPT !.type = "new_signup", !.exp = task[w].at + SignupDays]

Saved(w, u) ==
    /\ CommitSave(w) /\ u \in task[w].rows
    /\ users'[u] = [users[u] EXCEPT !.exp = IF task[w].save = "close" THEN task[w].at
                                            ELSE task[w].end,
                                    !.type = "global_trial"]

TrialCut(u) ==
    /\ ~RowLocked(u)
    /\ \/ users'[u] = [users[u] EXCEPT !.plan = "paid", !.exp = EndTrial(users[u].exp, now)]
       \/ users'[u] = [users[u] EXCEPT !.plan = "free", !.exp = EndTrial(users[u].exp, now)]

Ended(u) ==
    /\ ~RowLocked(u)
    /\ users[u].plan # "free"
    /\ users'[u] = [users[u] EXCEPT !.plan = "free"] \/ users'[u] = [users[u] EXCEPT !.plan = "lapsed"]

LEMMA UserSteps ==
    ASSUME IInv, Next, NEW u \in Accounts
    PROVE  \/ users'[u] = users[u] \/ Inserted(u) \/ TrialCut(u) \/ Ended(u)
           \/ \E w \in Signups : Granted(w, u)
           \/ \E w \in Admins : Saved(w, u)
<1> DEFINE Goal == \/ users'[u] = users[u] \/ Inserted(u) \/ TrialCut(u) \/ Ended(u)
                   \/ \E w \in Signups : Granted(w, u)
                   \/ \E w \in Admins : Saved(w, u)
<1>1. users \in [Accounts -> UserRow] BY DEF IInv, TypeOK
<1>2. ASSUME NEW w \in Signups, Signup(w) PROVE Goal
  <2>1. ASSUME NEW v \in Accounts, InsertUser(w, v) PROVE Goal
    <3>1. CASE v = u BY <1>1, <2>1, <3>1 DEF InsertUser, Inserted
    <3>2. CASE v # u BY <1>1, <2>1, <3>2 DEF InsertUser
    <3>3. QED BY <3>1, <3>2
  <2>2. CASE ReadConfig(w) \/ CheckMailbox(w) BY <2>2 DEF ReadConfig, CheckMailbox
  <2>3. CASE GrantTrial(w)
    <3>1. CASE task[w].user # u BY <1>1, <2>3, <3>1 DEF GrantTrial
    <3>2. CASE task[w].user = u /\ StillFree(u)
      BY <1>1, <2>3, <3>2 DEF GrantTrial, Granted, StillFree
    <3>3. CASE task[w].user = u /\ ~StillFree(u) BY <2>3, <3>3 DEF GrantTrial
    <3>4. QED BY <3>1, <3>2, <3>3
  <2>4. QED BY <1>2, <2>1, <2>2, <2>3 DEF Signup
<1>3. ASSUME NEW w \in Admins, Save(w) PROVE Goal
  <2>1. CASE CommitSave(w)
    <3>1. users' = [x \in Accounts |->
                      IF x \notin task[w].rows THEN users[x]
                      ELSE [users[x] EXCEPT !.exp = IF task[w].save = "close" THEN task[w].at
                                                    ELSE task[w].end,
                                            !.type = "global_trial"]]
      BY <2>1 DEF CommitSave
    <3>2. CASE u \in task[w].rows
      <4>1. Saved(w, u) BY <2>1, <3>1, <3>2 DEF Saved
      <4>2. QED BY <4>1
    <3>3. CASE u \notin task[w].rows BY <3>1, <3>3
    <3>4. QED BY <3>2, <3>3
  <2>2. CASE ~CommitSave(w)
    <3>1. users' = users BY <1>3, <2>2, Zenon DEF Save, BeginSave, LockConfig, UpdateUsers
    <3>2. QED BY <3>1
  <2>3. QED BY <2>1, <2>2
<1>4. ASSUME NEW w \in Workers, Crash(w) PROVE Goal BY <1>4 DEF Crash
<1>5. ASSUME NEW v \in Accounts, StartPlan(v) \/ RevokeAccess(v) PROVE Goal
  <2>1. CASE v = u BY <1>1, <1>5, <2>1 DEF StartPlan, RevokeAccess, TrialCut
  <2>2. CASE v # u BY <1>1, <1>5, <2>2 DEF StartPlan, RevokeAccess
  <2>3. QED BY <2>1, <2>2
<1>6. ASSUME NEW v \in Accounts, NEW how \in {"free", "lapsed"}, EndPlan(v, how) PROVE Goal
  <2>1. CASE v = u
    <3>1. users[u].plan # "free" /\ ~RowLocked(u) BY <1>6, <2>1 DEF EndPlan
    <3>2. users'[u] = [users[u] EXCEPT !.plan = how] BY <1>1, <1>6, <2>1 DEF EndPlan
    <3>3. QED BY <3>1, <3>2 DEF Ended
  <2>2. CASE v # u BY <1>1, <1>6, <2>2 DEF EndPlan
  <2>3. QED BY <2>1, <2>2
<1>7. CASE Tick BY <1>7 DEF Tick
<1>8. QED BY <1>2, <1>3, <1>4, <1>5, <1>6, <1>7 DEF Next

LEMMA ClockSteps ==
    ASSUME Next
    PROVE  \/ now' = now
           \/ now' = now + 1 /\ UNCHANGED <<cfg, users, task>>
<1>1. ASSUME NEW w \in Signups, Signup(w) PROVE now' = now
  BY <1>1, Zenon DEF Signup, InsertUser, ReadConfig, CheckMailbox, GrantTrial
<1>2. ASSUME NEW w \in Admins, Save(w) PROVE now' = now
  BY <1>2, Zenon DEF Save, BeginSave, LockConfig, UpdateUsers, CommitSave
<1>3. ASSUME NEW w \in Workers, Crash(w) PROVE now' = now BY <1>3 DEF Crash
<1>4. ASSUME NEW u \in Accounts,
             StartPlan(u) \/ RevokeAccess(u) \/ EndPlan(u, "free") \/ EndPlan(u, "lapsed")
      PROVE  now' = now
  BY <1>4 DEF StartPlan, RevokeAccess, EndPlan
<1>5. QED BY <1>1, <1>2, <1>3, <1>4 DEF Next, Tick

LEMMA WindowSteps ==
    ASSUME Next
    PROVE  cfg' = cfg \/ \E w \in Admins : CommitSave(w)
<1>1. ASSUME NEW w \in Signups, Signup(w) PROVE cfg' = cfg
  BY <1>1, Zenon DEF Signup, InsertUser, ReadConfig, CheckMailbox, GrantTrial
<1>2. ASSUME NEW w \in Admins, Save(w) PROVE cfg' = cfg \/ CommitSave(w)
  BY <1>2, Zenon DEF Save, BeginSave, LockConfig, UpdateUsers
<1>3. ASSUME NEW w \in Workers, Crash(w) PROVE cfg' = cfg BY <1>3 DEF Crash
<1>4. ASSUME NEW u \in Accounts,
             StartPlan(u) \/ RevokeAccess(u) \/ EndPlan(u, "free") \/ EndPlan(u, "lapsed")
      PROVE  cfg' = cfg
  BY <1>4 DEF StartPlan, RevokeAccess, EndPlan
<1>5. CASE Tick BY <1>5 DEF Tick
<1>6. QED BY <1>1, <1>2, <1>3, <1>4, <1>5 DEF Next

----------------------------------------------------------------------------
(* OneTrialPerMailbox *)

LEMMA SignupTypes ==
    ASSUME IInv, Next, NEW u \in Accounts, users'[u].type = "new_signup"
    PROVE  users[u].type = "new_signup" \/ \E w \in Signups : Granted(w, u)
<1>1. users[u] \in UserRow BY DEF IInv, TypeOK
<1>2. CASE Inserted(u) BY <1>2, NullFacts DEF Inserted, Absent
<1>3. CASE TrialCut(u) \/ Ended(u) BY <1>1, <1>3 DEF TrialCut, Ended, UserRow
<1>4. ASSUME NEW w \in Admins, Saved(w, u) PROVE FALSE
  BY <1>1, <1>4 DEF Saved, UserRow
<1>5. QED BY <1>2, <1>3, <1>4, UserSteps

LEMMA MissedStay ==
    ASSUME Next
    PROVE  missed \subseteq missed'
<1>1. ASSUME NEW w \in Signups, Signup(w) PROVE missed \subseteq missed'
  BY <1>1 DEF Signup, InsertUser, ReadConfig, CheckMailbox, GrantTrial
<1>2. ASSUME NEW w \in Admins, Save(w) PROVE missed' = missed
  BY <1>2, Zenon DEF Save, BeginSave, LockConfig, UpdateUsers, CommitSave
<1>3. ASSUME NEW w \in Workers, Crash(w) PROVE missed' = missed BY <1>3 DEF Crash
<1>4. ASSUME NEW u \in Accounts,
             StartPlan(u) \/ RevokeAccess(u) \/ EndPlan(u, "free") \/ EndPlan(u, "lapsed")
      PROVE  missed' = missed
  BY <1>4 DEF StartPlan, RevokeAccess, EndPlan
<1>5. CASE Tick BY <1>5 DEF Tick
<1>6. QED BY <1>1, <1>2, <1>3, <1>4, <1>5 DEF Next

LEMMA GrantReached ==
    ASSUME IInv, Next, NEW w \in Signups, task'[w].pc = "grant"
    PROVE  \/ task'[w] = task[w]
           \/ /\ task'[w].user = task[w].user /\ users' = users
              /\ ~MailboxUsed(task[w].user) \/ task[w].user \in missed'
<1> DEFINE Goal == \/ task'[w] = task[w]
                   \/ /\ task'[w].user = task[w].user /\ users' = users
                      /\ ~MailboxUsed(task[w].user) \/ task[w].user \in missed'
<1>1. task \in [Workers -> TaskRow] /\ w \in Workers /\ w \notin Admins
  BY TrialsAssumption DEF IInv, TypeOK, Workers
<1>2. ASSUME NEW v \in Workers, Done(v) PROVE Goal BY <1>1, <1>2, NoTaskType DEF Done
<1>3. ASSUME NEW v \in Signups, Signup(v) PROVE Goal
  <2>1. CASE \E u \in Accounts : InsertUser(v, u) BY <1>1, <2>1 DEF InsertUser, NoTask, Workers
  <2>2. CASE ReadConfig(v)
    <3>1. CASE Done(v) BY <1>2, <3>1 DEF Workers
    <3>2. CASE ~Done(v)
      <4>1. task' = [task EXCEPT ![v].pc = "mailbox", ![v].at = now] BY <2>2, <3>2 DEF ReadConfig
      <4>2. CASE v = w BY <1>1, <4>1, <4>2 DEF TaskRow
      <4>3. CASE v # w BY <1>1, <4>1, <4>3
      <4>4. QED BY <4>2, <4>3
    <3>3. QED BY <3>1, <3>2
  <2>3. CASE CheckMailbox(v)
    <3>1. CASE Done(v) BY <1>2, <3>1 DEF Workers
    <3>2. CASE ~Done(v)
      <4>1. /\ task' = [task EXCEPT ![v].pc = "grant"] /\ users' = users
            /\ ~MailboxUsed(task[v].user) \/ task[v].user \in missed'
        BY <2>3, <3>2 DEF CheckMailbox
      <4>2. CASE v = w BY <1>1, <4>1, <4>2 DEF TaskRow
      <4>3. CASE v # w BY <1>1, <4>1, <4>3
      <4>4. QED BY <4>2, <4>3
    <3>3. QED BY <3>1, <3>2
  <2>4. CASE GrantTrial(v) BY <1>2, <2>4 DEF GrantTrial, Workers
  <2>5. QED BY <1>3, <2>1, <2>2, <2>3, <2>4 DEF Signup
<1>4. ASSUME NEW v \in Admins, Save(v) PROVE Goal
  BY <1>1, <1>2, <1>4 DEF Save, BeginSave, LockConfig, UpdateUsers, CommitSave, Workers
<1>5. ASSUME NEW v \in Workers, Crash(v) PROVE Goal BY <1>2, <1>5 DEF Crash
<1>6. ASSUME NEW u \in Accounts,
             StartPlan(u) \/ RevokeAccess(u) \/ EndPlan(u, "free") \/ EndPlan(u, "lapsed")
      PROVE  Goal
  BY <1>6 DEF StartPlan, RevokeAccess, EndPlan
<1>7. CASE Tick BY <1>7 DEF Tick
<1>8. QED BY <1>3, <1>4, <1>5, <1>6, <1>7 DEF Next

LEMMA MailboxStep ==
    ASSUME OneSignup, IInv, MailboxInv, Next
    PROVE  MailboxInv'
<1>1. ASSUME NEW w \in Signups, NEW u \in Accounts, Granted(w, u)
      PROVE  /\ task[w].pc = "grant" /\ task[w].user = u /\ task'[w].pc = "idle"
  BY <1>1, NoTaskType DEF Granted, GrantTrial, Done, IInv, TypeOK, Workers
<1>2. missed \subseteq missed' BY MissedStay
<1>3. OneTrialPerMailbox'
  <2> SUFFICES ASSUME NEW u \in Accounts, NEW v \in Accounts,
                      users'[u].type = "new_signup", users'[v].type = "new_signup",
                      Mailbox[u] = Mailbox[v], u # v, u \notin missed', v \notin missed'
               PROVE  FALSE
    BY DEF OneTrialPerMailbox
  <2>1. u \notin missed /\ v \notin missed BY <1>2
  <2>2. CASE users[u].type = "new_signup" /\ users[v].type = "new_signup"
    BY <2>1, <2>2 DEF MailboxInv, OneTrialPerMailbox
  <2>3. ASSUME NEW w \in Signups, Granted(w, u) PROVE FALSE
    <3>1. users[v].type # "new_signup" BY <1>1, <2>1, <2>3 DEF MailboxInv, FirstOfMailbox
    <3>2. PICK x \in Signups : Granted(x, v) BY <3>1, SignupTypes
    <3>3. x = w BY DEF OneSignup
    <3>4. QED BY <1>1, <2>3, <3>2, <3>3
  <2>4. ASSUME NEW w \in Signups, Granted(w, v) PROVE FALSE
    <3>1. users[u].type # "new_signup" BY <1>1, <2>1, <2>4 DEF MailboxInv, FirstOfMailbox
    <3>2. PICK x \in Signups : Granted(x, u) BY <3>1, SignupTypes
    <3>3. QED BY <2>3, <3>2
  <2>5. QED BY <2>2, <2>3, <2>4, SignupTypes
<1>4. FirstOfMailbox'
  <2> SUFFICES ASSUME NEW w \in Signups, task'[w].pc = "grant", task'[w].user \notin missed',
                      NEW v \in Accounts \ {task'[w].user},
                      Mailbox[v] = Mailbox[task'[w].user], users'[v].type = "new_signup"
               PROVE  FALSE
    BY DEF FirstOfMailbox
  <2>1. users[v].type = "new_signup"
    <3>1. ASSUME NEW x \in Signups, Granted(x, v) PROVE FALSE
      <4>1. x = w BY DEF OneSignup
      <4>2. QED BY <1>1, <3>1, <4>1
    <3>2. QED BY <3>1, SignupTypes
  <2>2. CASE task'[w] = task[w] BY <1>2, <2>1, <2>2 DEF MailboxInv, FirstOfMailbox
  <2>3. CASE task'[w].user = task[w].user /\ ~MailboxUsed(task[w].user)
    <3>1. users[v].exists /\ users[v].type # Null BY <2>1, NullFacts DEF IInv, RowsHeld
    <3>2. QED BY <2>3, <3>1 DEF MailboxUsed
  <2>4. QED BY <2>2, <2>3, GrantReached
<1>5. QED BY <1>3, <1>4 DEF MailboxInv

(* With one sign-up at a time a mailbox gets one signup trial, whatever     *)
(* alias each account uses and whatever the saves of the launch window do;  *)
(* a second one goes only to a sign-up whose lookup failed                  *)
(* (apply_new_user_trial).                                                  *)
THEOREM OneTrial == OneSignup /\ Spec => []OneTrialPerMailbox
<1> SUFFICES ASSUME OneSignup PROVE Spec => []OneTrialPerMailbox
  OBVIOUS
<1>1. Init => MailboxInv
  BY NullFacts DEF Init, MailboxInv, OneTrialPerMailbox, FirstOfMailbox, NoTask, Absent, Workers
<1>2. IInv /\ MailboxInv /\ [Next]_vars => MailboxInv'
  <2>1. IInv /\ MailboxInv /\ Next => MailboxInv' BY MailboxStep
  <2>2. MailboxInv /\ UNCHANGED vars => MailboxInv'
    BY DEF vars, MailboxInv, OneTrialPerMailbox, FirstOfMailbox
  <2>3. QED BY <2>1, <2>2
<1>3. MailboxInv => OneTrialPerMailbox BY DEF MailboxInv
<1>4. QED BY <1>1, <1>2, <1>3, Inductive, PTL DEF Spec

----------------------------------------------------------------------------
(* Saves: exclusive, with the rows they hold.                              *)

LEMMA SavesWrite ==
    ASSUME IInv, NEW v \in Admins
    PROVE  /\ \A on \in BOOLEAN, days \in WindowDays : BeginSave(v, on, days) =>
                /\ task'[v].pc = "write" /\ task'[v].at = now /\ task'[v].rows = {}
                /\ UNCHANGED <<now, cfg, users>>
           /\ LockConfig(v) =>
                /\ task[v].pc = "write" /\ ~ConfigLocked
                /\ task'[v] = [task[v] EXCEPT !.pc = "users"]
                /\ \A w \in Workers \ {v} : task'[w] = task[w]
                /\ UNCHANGED <<now, cfg, users>>
           /\ UpdateUsers(v) =>
                /\ task[v].pc = "users"
                /\ task'[v] = [task[v] EXCEPT !.pc = "commit", !.rows = Affected(task[v])]
                /\ UNCHANGED <<now, cfg, users>>
<1>1. task \in [Workers -> TaskRow] /\ v \in Workers BY DEF IInv, TypeOK, Workers
<1>2. ASSUME NEW on \in BOOLEAN, NEW days \in WindowDays, BeginSave(v, on, days)
      PROVE  /\ task'[v].pc = "write" /\ task'[v].at = now /\ task'[v].rows = {}
             /\ UNCHANGED <<now, cfg, users>>
  BY <1>1, <1>2 DEF BeginSave, NoTask
<1>3. ASSUME LockConfig(v)
      PROVE  /\ task[v].pc = "write" /\ ~ConfigLocked
             /\ task'[v] = [task[v] EXCEPT !.pc = "users"]
             /\ \A w \in Workers \ {v} : task'[w] = task[w]
             /\ UNCHANGED <<now, cfg, users>>
  BY <1>1, <1>3 DEF LockConfig
<1>4. ASSUME UpdateUsers(v)
      PROVE  /\ task[v].pc = "users"
             /\ task'[v] = [task[v] EXCEPT !.pc = "commit", !.rows = Affected(task[v])]
             /\ UNCHANGED <<now, cfg, users>>
  BY <1>1, <1>4 DEF UpdateUsers
<1>5. QED BY <1>2, <1>3, <1>4

LEMMA SavesBegunStep ==
    ASSUME IInv, SavesBegun, RowsAtCommit, Next
    PROVE  SavesBegun' /\ RowsAtCommit'
<1>1. task \in [Workers -> TaskRow] /\ now \in Nat BY DEF IInv, TypeOK
<1>2. ASSUME NEW v \in Admins
      PROVE  /\ task'[v].pc \in {"idle", "write", "users", "commit"}
             /\ task'[v].at <= now'
             /\ task'[v].rows # {} => task'[v].pc = "commit"
  <2>1. task[v] \in TaskRow /\ task[v].at \in Nat /\ task[v].at <= now /\ now <= now'
        /\ now' \in Nat
    BY <1>1, ClockSteps DEF Workers, TaskRow, SavesBegun
  <2>2. CASE task'[v] = task[v]
    BY <1>1, <2>1, <2>2 DEF SavesBegun, RowsAtCommit
  <2>3. CASE task'[v] = NoTask BY <2>1, <2>3, NoTaskType DEF NoTask
  <2>4. CASE \E on \in BOOLEAN, days \in WindowDays : BeginSave(v, on, days)
    BY <2>1, <2>4, SavesWrite
  <2>5. CASE LockConfig(v)
    <3>1. task[v].pc = "write" /\ task'[v] = [task[v] EXCEPT !.pc = "users"] /\ now' = now
      BY <2>5, SavesWrite
    <3>2. QED BY <2>1, <3>1 DEF TaskRow, RowsAtCommit
  <2>6. CASE UpdateUsers(v)
    <3>1. /\ task[v].pc = "users" /\ now' = now
          /\ task'[v] = [task[v] EXCEPT !.pc = "commit", !.rows = Affected(task[v])]
      BY <2>6, SavesWrite
    <3>2. QED BY <2>1, <3>1 DEF TaskRow
  <2>7. QED BY <2>2, <2>3, <2>4, <2>5, <2>6, AdminSteps DEF Saves
<1>3. QED BY <1>2 DEF SavesBegun, RowsAtCommit

LEMMA SavesExclusiveStep ==
    ASSUME IInv, SavesExclusive, Next
    PROVE  SavesExclusive'
<1>1. task \in [Workers -> TaskRow] BY DEF IInv, TypeOK
<1>2. ASSUME NEW v \in Admins, task'[v].pc \in {"users", "commit"}
      PROVE  task[v].pc \in {"users", "commit"} \/ LockConfig(v)
  BY <1>2, AdminSteps, SavesWrite, NoTaskType DEF Saves
<1> SUFFICES ASSUME NEW v \in Admins, NEW w \in Admins, v # w,
                    task'[v].pc \in {"users", "commit"}, task'[w].pc \in {"users", "commit"}
             PROVE  FALSE
  BY DEF SavesExclusive
<1>3. ASSUME LockConfig(v) PROVE FALSE
  BY <1>2, <1>3, SavesWrite DEF ConfigLocked, Workers
<1>4. ASSUME LockConfig(w) PROVE FALSE
  BY <1>2, <1>4, SavesWrite DEF ConfigLocked, Workers
<1>5. QED BY <1>2, <1>3, <1>4 DEF SavesExclusive

----------------------------------------------------------------------------
(* PaidEndsTrial *)

LEMMA RowsSeenStep ==
    ASSUME IInv, PaidInv, Next
    PROVE  RowsSeen'
<1>1. task \in [Workers -> TaskRow] /\ users \in [Accounts -> UserRow] BY DEF IInv, TypeOK
<1> SUFFICES ASSUME NEW w \in Admins, NEW u \in task'[w].rows
             PROVE  \/ users'[u].plan = "free"
                    \/ users'[u].exp # Null /\ users'[u].exp > task'[w].at
  BY DEF RowsSeen
<1>2. task[w] \in TaskRow BY <1>1 DEF Workers
<1>3. ASSUME u \in task[w].rows, task'[w].at = task[w].at, task'[w] # NoTask
      PROVE  \/ users'[u].plan = "free"
             \/ users'[u].exp # Null /\ users'[u].exp > task'[w].at
  <2>1. /\ u \in Accounts /\ RowLocked(u) /\ users[u].exists /\ task[w].pc = "commit"
        /\ \/ users[u].plan = "free"
           \/ users[u].exp # Null /\ users[u].exp > task[w].at
    BY <1>1, <1>2, <1>3 DEF TaskRow, RowLocked, IInv, RowsHeld, PaidInv, RowsSeen, RowsAtCommit
  <2>2. ASSUME NEW v \in Admins, Saved(v, u) PROVE FALSE
    <3>1. task[v].pc = "commit" /\ task'[v] = NoTask
      BY <1>1, <2>2 DEF Saved, CommitSave, Done, Workers
    <3>2. QED BY <1>3, <2>1, <3>1 DEF PaidInv, SavesExclusive
  <2>3. users'[u] = users[u]
    BY <2>1, <2>2, UserSteps DEF Inserted, TrialCut, Ended, Granted
  <2>4. QED BY <1>3, <2>1, <2>3
<1>4. CASE task'[w] = task[w]
  BY <1>3, <1>4, NoTaskType
<1>5. CASE task'[w] = NoTask BY <1>5, NoTaskType
<1>6. CASE \E on \in BOOLEAN, days \in WindowDays : BeginSave(w, on, days)
  BY <1>6, SavesWrite
<1>7. CASE LockConfig(w)
  <2>1. task'[w] = [task[w] EXCEPT !.pc = "users"] BY <1>7, SavesWrite
  <2>2. task'[w].rows = task[w].rows /\ task'[w].at = task[w].at /\ task'[w].pc = "users"
    BY <1>2, <2>1 DEF TaskRow
  <2>3. QED BY <1>3, <2>2, NoTaskType
<1>8. CASE UpdateUsers(w)
  <2>1. /\ task'[w] = [task[w] EXCEPT !.pc = "commit", !.rows = Affected(task[w])]
        /\ users' = users
    BY <1>8, SavesWrite
  <2>2. u \in Affected(task[w]) /\ task'[w].at = task[w].at
    BY <1>2, <2>1 DEF TaskRow
  <2>3. u \in Accounts /\ (GetsTrial(u) \/ LiveGlobalTrial(u, task[w].at))
    BY <2>2 DEF Affected
  <2>4. QED BY <2>1, <2>2, <2>3 DEF GetsTrial, LiveGlobalTrial
<1>9. QED BY <1>4, <1>5, <1>6, <1>7, <1>8, AdminSteps DEF Saves

LEMMA PaidStep ==
    ASSUME IInv, PaidInv, Next
    PROVE  PaidInv'
BY SavesBegunStep, SavesExclusiveStep, RowsSeenStep DEF PaidInv

LEMMA PlanStep ==
    ASSUME IInv, IInv', PaidInv, Next, NEW u \in Accounts
    PROVE  PlanAlone(u)
<1> SUFFICES ASSUME users'[u].plan = "paid", LiveTrial(u)', ~SaveSawTrial(u)
             PROVE  users[u].plan = "paid" /\ LiveTrial(u)
  BY DEF PlanAlone
<1>1. /\ users \in [Accounts -> UserRow] /\ now \in Nat /\ now' \in Nat /\ now' >= now
      /\ users[u] \in UserRow /\ users[u].exp \in Day
  BY ClockSteps DEF IInv, TypeOK, UserRow
<1>2. CASE users'[u] = users[u]
  BY <1>1, <1>2, NullFacts DEF LiveTrial, Day
<1>3. CASE Inserted(u) BY <1>3 DEF Inserted, Absent
<1>4. CASE TrialCut(u)
  <2>1. users'[u].exp = EndTrial(users[u].exp, now) BY <1>1, <1>4 DEF TrialCut, UserRow
  <2>2. QED BY <1>1, <2>1, NullFacts DEF EndTrial, LiveTrial, Day
<1>5. CASE Ended(u) BY <1>1, <1>5 DEF Ended, UserRow
<1>6. ASSUME NEW w \in Signups, Granted(w, u) PROVE FALSE
  BY <1>1, <1>6 DEF Granted, UserRow
<1>7. ASSUME NEW w \in Admins, Saved(w, u) PROVE FALSE
  <2>1. users[u].plan = "paid" BY <1>1, <1>7 DEF Saved, UserRow
  <2>2. task[w].pc = "commit" /\ u \in task[w].rows BY <1>7 DEF Saved, CommitSave
  <2>3. users[u].exp # Null /\ users[u].exp > task[w].at
    BY <2>1, <2>2 DEF PaidInv, RowsSeen
  <2>4. QED BY <2>2, <2>3 DEF SaveSawTrial
<1>8. QED BY <1>2, <1>3, <1>4, <1>5, <1>6, <1>7, UserSteps

LEMMA PaidKept == Spec => []PaidInv
<1>1. Init => PaidInv
  <2> SUFFICES ASSUME Init PROVE PaidInv
    OBVIOUS
  <2>1. \A w \in Admins : task[w] = NoTask BY DEF Init, Workers
  <2>2. now \in Nat /\ now = 1 /\ NoTask.at = 0 BY DEF Init, NoTask
  <2>3. QED
    BY <2>1, <2>2, NoTaskType DEF PaidInv, SavesBegun, RowsAtCommit, SavesExclusive, RowsSeen
<1>2. IInv /\ PaidInv /\ [Next]_vars => PaidInv'
  <2>1. IInv /\ PaidInv /\ Next => PaidInv' BY PaidStep
  <2>2. PaidInv /\ UNCHANGED vars => PaidInv'
    BY DEF vars, PaidInv, SavesBegun, RowsAtCommit, SavesExclusive, RowsSeen
  <2>3. QED BY <2>1, <2>2
<1>3. QED BY <1>1, <1>2, Inductive, PTL DEF Spec

(* However many sign-ups, saves and purchases race, no step puts a running  *)
(* trial behind a paid plan but a save that read the clock before that      *)
(* trial was ended (activate_subscription, set_launch_config,               *)
(* apply_new_user_trial).                                                   *)
THEOREM PaidTrialsEnd == Spec => PaidEndsTrial
<1>1. IInv /\ IInv' /\ PaidInv /\ [Next]_vars => [\A u \in Accounts : PlanAlone(u)]_vars
  BY PlanStep
<1>2. QED BY <1>1, PaidKept, Inductive, PTL DEF Spec, PaidEndsTrial

----------------------------------------------------------------------------
(* GlobalTrialsFollowWindow and WindowNotRestarted                         *)

LEMMA CommitWrites ==
    ASSUME IInv, NEW w \in Admins, CommitSave(w)
    PROVE  LET t == task[w] IN
           /\ t.pc = "commit" /\ now' = now /\ task'[w] = NoTask
           /\ t.at \in Nat /\ t.start \in Nat /\ t.end \in Nat
           /\ t.save = "open" => cfg' = [active |-> TRUE, start |-> t.start, end |-> t.end]
           /\ t.save = "close" => cfg'.active = FALSE
           /\ t.save \in {"extend", "keep"} =>
                 cfg'.active = cfg.active /\ cfg'.start = cfg.start /\ cfg'.end = t.end
           /\ \A u \in Accounts : u \notin t.rows => users'[u] = users[u]
           /\ \A u \in t.rows :
                 /\ users'[u].exp = IF t.save = "close" THEN t.at ELSE t.end
                 /\ users'[u].type = "global_trial"
<1>1. /\ task \in [Workers -> TaskRow] /\ w \in Workers /\ users \in [Accounts -> UserRow]
      /\ cfg \in [active : BOOLEAN, start : Day, end : Day]
  BY DEF IInv, TypeOK, Workers
<1>2. task[w] \in TaskRow BY <1>1
<1>3. /\ task[w].at \in Nat /\ task[w].start \in Nat /\ task[w].end \in Nat
      /\ task[w].rows \subseteq Accounts
  BY <1>2 DEF TaskRow
<1>4. task[w].pc = "commit" /\ now' = now /\ task'[w] = NoTask
  BY <1>1 DEF CommitSave, Done
<1>5. CASE task[w].save = "open"
  BY <1>1, <1>3, <1>4, <1>5 DEF CommitSave, UserRow
<1>6. CASE task[w].save = "close"
  BY <1>1, <1>3, <1>4, <1>6 DEF CommitSave, UserRow
<1>7. CASE task[w].save \notin {"open", "close"}
  BY <1>1, <1>3, <1>4, <1>7 DEF CommitSave, UserRow
<1>8. QED BY <1>5, <1>6, <1>7

(* Saves are the only steps that give a global trial, and they write no    *)
(* row but those they hold.                                                *)
LEMMA GlobalSteps ==
    ASSUME IInv, IInv', Next, NEW u \in Accounts, ~\E w \in Admins : Saved(w, u)
    PROVE  /\ Global(u)' => Global(u) /\ users'[u].exp = users[u].exp
           /\ Global(u) /\ RowLocked(u) /\ now' = now => Global(u)'
<1>1. /\ users[u] \in UserRow /\ users[u].exp \in Day
      /\ now \in Nat /\ now' \in Nat /\ now' >= now
  BY ClockSteps DEF IInv, TypeOK, UserRow
<1>2. CASE users'[u].type = users[u].type /\ users'[u].exp = users[u].exp
  BY <1>1, <1>2, NullFacts DEF Global, LiveTrial, Day
<1>3. CASE Inserted(u)
  BY <1>3, NullFacts DEF Inserted, Absent, Global, IInv, RowsHeld
<1>4. CASE TrialCut(u)
  <2>1. /\ users'[u].exp = EndTrial(users[u].exp, now) /\ ~RowLocked(u)
        /\ users'[u].type = users[u].type
    BY <1>1, <1>4 DEF TrialCut, UserRow
  <2>2. ~LiveTrial(u)'
    BY <1>1, <2>1, NullFacts DEF EndTrial, LiveTrial, Day
  <2>3. QED BY <2>1, <2>2 DEF Global
<1>5. CASE Ended(u) BY <1>1, <1>2, <1>5 DEF Ended, UserRow
<1>6. ASSUME NEW w \in Signups, Granted(w, u)
      PROVE  users'[u].type = "new_signup" /\ ~RowLocked(u)
  BY <1>1, <1>6 DEF Granted, UserRow
<1>7. QED BY <1>2, <1>3, <1>4, <1>5, <1>6, UserSteps DEF Global

(* Nobody gets a global trial that outlasts d but from a save, and nobody    *)
(* in the rows of a save loses one.                                         *)
LEMMA OutlastSteps ==
    ASSUME IInv, Next, NEW u \in Accounts, ~\E w \in Admins : Saved(w, u), NEW d \in Nat
    PROVE  /\ LiveGlobalTrial(u, d)' => LiveGlobalTrial(u, d)
           /\ LiveGlobalTrial(u, d) /\ RowLocked(u) => LiveGlobalTrial(u, d)'
<1>1. users[u] \in UserRow /\ users[u].exp \in Day /\ now \in Nat
  BY DEF IInv, TypeOK, UserRow
<1>2. CASE users'[u].type = users[u].type /\ users'[u].exp = users[u].exp
  BY <1>2 DEF LiveGlobalTrial
<1>3. CASE Inserted(u)
  BY <1>3, NullFacts DEF Inserted, Absent, LiveGlobalTrial, IInv, RowsHeld
<1>4. CASE TrialCut(u)
  <2>1. /\ users'[u].exp = EndTrial(users[u].exp, now) /\ ~RowLocked(u)
        /\ users'[u].type = users[u].type
    BY <1>1, <1>4 DEF TrialCut, UserRow
  <2>2. users'[u].exp # Null /\ users'[u].exp > d => users[u].exp # Null /\ users[u].exp > d
    BY <1>1, <2>1, NullFacts DEF EndTrial, Day
  <2>3. QED BY <2>1, <2>2 DEF LiveGlobalTrial
<1>5. CASE Ended(u) BY <1>1, <1>2, <1>5 DEF Ended, UserRow
<1>6. ASSUME NEW w \in Signups, Granted(w, u)
      PROVE  users'[u].type = "new_signup" /\ ~RowLocked(u)
  BY <1>1, <1>6 DEF Granted, UserRow
<1>7. QED BY <1>2, <1>3, <1>4, <1>5, <1>6, UserSteps DEF LiveGlobalTrial

LEMMA SaveInvStep ==
    ASSUME OneAdmin, IInv, IInv', WindowInv, Next, NEW w \in Admins
    PROVE  SaveInv(task[w])'
<1>1. /\ task[w] \in TaskRow /\ task'[w] \in TaskRow
      /\ cfg \in [active : BOOLEAN, start : Day, end : Day] /\ now \in Nat
  BY DEF IInv, TypeOK, Workers
<1>2. SaveInv(task[w]) BY DEF WindowInv
<1>3. CASE task'[w].pc = "idle" BY <1>3 DEF SaveInv
<1>4. CASE task'[w] = task[w] /\ task'[w].pc # "idle"
  <2>1. \A x \in Admins : ~CommitSave(x)
    BY <1>4, CommitWrites, NoTaskType DEF OneAdmin
  <2>2. cfg' = cfg BY <2>1, WindowSteps
  <2>3. ASSUME task[w].pc = "commit", task[w].save \in {"extend", "close"}
        PROVE  task[w].rows = {u \in Accounts : LiveGlobalTrial(u, task[w].at)'}
    <3>1. task[w].rows = {u \in Accounts : LiveGlobalTrial(u, task[w].at)}
      BY <1>2, <2>3 DEF SaveInv
    <3>2. PICK d \in Nat : d = task[w].at BY <1>1 DEF TaskRow
    <3>3. ASSUME NEW u \in Accounts
          PROVE  LiveGlobalTrial(u, d)' <=> LiveGlobalTrial(u, d)
      <4>1. ~\E x \in Admins : Saved(x, u) BY <2>1 DEF Saved
      <4>2. LiveGlobalTrial(u, d) => RowLocked(u) BY <3>1, <3>2 DEF RowLocked
      <4>3. QED BY <4>1, <4>2, OutlastSteps
    <3>4. \A u \in Accounts : LiveGlobalTrial(u, task[w].at)' <=> LiveGlobalTrial(u, d)'
      BY <1>4, <3>2 DEF LiveGlobalTrial
    <3>5. QED BY <3>1, <3>2, <3>3, <3>4
  <2>4. QED BY <1>2, <1>4, <2>2, <2>3 DEF SaveInv, Running
<1>5. ASSUME NEW on \in BOOLEAN, NEW days \in WindowDays, BeginSave(w, on, days)
      PROVE  SaveInv(task[w])'
  <2>1. task \in [Workers -> TaskRow] /\ w \in Workers BY DEF IInv, TypeOK, Workers
  <2>2. UNCHANGED <<now, cfg, users>> /\ task'[w].at = now BY <1>5, SavesWrite DEF BeginSave
  <2>3. CASE Extends(on) /\ cfg.start + days = cfg.end
    <3>1. /\ task'[w].pc = "write" /\ task'[w].save = "keep" /\ task'[w].start = cfg.start
          /\ task'[w].end = cfg.end
      BY <1>5, <2>1, <2>3 DEF BeginSave, NoTask
    <3>2. QED BY <2>2, <2>3, <3>1 DEF SaveInv, Extends, Running
  <2>4. CASE Extends(on) /\ cfg.start + days # cfg.end
    <3>1. task'[w].pc = "write" /\ task'[w].save = "extend" /\ task'[w].start = cfg.start
      BY <1>5, <2>1, <2>4 DEF BeginSave, NoTask
    <3>2. QED BY <2>2, <2>4, <3>1 DEF SaveInv, Extends, Running
  <2>5. CASE ~Extends(on)
    <3>1. task'[w].pc = "write" /\ task'[w].save = IF on THEN "open" ELSE "close"
      BY <1>5, <2>1, <2>5 DEF BeginSave, NoTask
    <3>2. QED BY <2>2, <2>5, <3>1 DEF SaveInv, Extends, Running
  <2>6. QED BY <2>3, <2>4, <2>5
<1>6. CASE LockConfig(w)
  <2>1. /\ task'[w] = [task[w] EXCEPT !.pc = "users"] /\ task[w].pc = "write"
        /\ UNCHANGED <<now, cfg, users>>
    BY <1>6, SavesWrite
  <2>2. /\ task'[w].pc = "users" /\ task'[w].save = task[w].save
        /\ task'[w].start = task[w].start /\ task'[w].end = task[w].end
    BY <1>1, <2>1 DEF TaskRow
  <2>3. QED BY <1>2, <2>1, <2>2 DEF SaveInv, Running
<1>7. CASE UpdateUsers(w)
  <2>1. /\ task'[w] = [task[w] EXCEPT !.pc = "commit", !.rows = Affected(task[w])]
        /\ task[w].pc = "users" /\ UNCHANGED <<now, cfg, users>>
    BY <1>7, SavesWrite
  <2>2. /\ task'[w].pc = "commit" /\ task'[w].save = task[w].save
        /\ task'[w].start = task[w].start /\ task'[w].end = task[w].end
        /\ task'[w].rows = Affected(task[w])
    BY <1>1, <2>1 DEF TaskRow
  <2>3. task'[w].at = task[w].at BY <1>1, <2>1 DEF TaskRow
  <2>4. task[w].save \in {"extend", "close"} =>
           Affected(task[w]) = {u \in Accounts : LiveGlobalTrial(u, task[w].at)}
    BY DEF Affected
  <2>5. task[w].save = "keep" => Affected(task[w]) = {} BY DEF Affected
  <2>6. \A u \in Accounts :
           LiveGlobalTrial(u, task[w].at)' <=> LiveGlobalTrial(u, task[w].at)
    BY <2>1, <2>3 DEF LiveGlobalTrial
  <2>7. QED BY <1>2, <2>1, <2>2, <2>3, <2>4, <2>5, <2>6 DEF SaveInv, Running
<1>8. QED BY <1>3, <1>4, <1>5, <1>6, <1>7, NoTaskType, AdminSteps DEF Saves

LEMMA FollowsStep ==
    ASSUME OneAdmin, IInv, IInv', WindowInv, Next
    PROVE  /\ GlobalTrialsFollowWindow'
           /\ cfg'.active => cfg'.start # Null /\ cfg'.end # Null
<1> USE NullFacts
<1>1. /\ users \in [Accounts -> UserRow] /\ now \in Nat
      /\ cfg \in [active : BOOLEAN, start : Day, end : Day]
      /\ GlobalTrialsFollowWindow /\ (cfg.active => cfg.start # Null /\ cfg.end # Null)
  BY DEF IInv, TypeOK, WindowInv
<1>2. ASSUME NEW w \in Admins, CommitSave(w)
      PROVE  /\ GlobalTrialsFollowWindow'
             /\ cfg'.active => cfg'.start # Null /\ cfg'.end # Null
  <2>1. PICK t \in TaskRow : t = task[w] BY DEF IInv, TypeOK, Workers
  <2>2. /\ t.pc = "commit" /\ now' = now /\ t.at \in Nat /\ t.start \in Nat /\ t.end \in Nat
        /\ t.save = "open" => cfg' = [active |-> TRUE, start |-> t.start, end |-> t.end]
        /\ t.save = "close" => cfg'.active = FALSE
        /\ t.save \in {"extend", "keep"} =>
              cfg'.active = cfg.active /\ cfg'.start = cfg.start /\ cfg'.end = t.end
        /\ \A u \in Accounts : u \notin t.rows => users'[u] = users[u]
        /\ \A u \in t.rows : users'[u].exp = IF t.save = "close" THEN t.at ELSE t.end
    BY <1>2, <2>1, CommitWrites
  <2>3. SaveInv(t) /\ t.at <= now BY <2>1 DEF WindowInv, SavesBegun
  <2>4. t.save \in {"open", "extend", "keep", "close"} BY <2>2, <2>3 DEF SaveInv
  <2>5. ASSUME NEW u \in Accounts, users'[u].type = "global_trial", LiveTrial(u)'
        PROVE  cfg'.active /\ users'[u].exp = cfg'.end
    <3>1. CASE u \in t.rows
      <4>1. t.save # "close" BY <1>1, <2>2, <2>3, <2>5, <3>1 DEF LiveTrial
      <4>2. t.save # "keep" BY <2>2, <2>3, <3>1 DEF SaveInv
      <4>3. t.save = "extend" => cfg.active BY <2>2, <2>3 DEF SaveInv, Running
      <4>4. QED BY <2>2, <2>4, <3>1, <4>1, <4>2, <4>3
    <3>2. CASE u \notin t.rows
      <4>1. users'[u] = users[u] /\ Global(u)
        BY <2>2, <2>5, <3>2 DEF Global, LiveTrial
      <4>2. cfg.active /\ users[u].exp = cfg.end
        BY <1>1, <4>1 DEF GlobalTrialsFollowWindow, Global
      <4>3. Running(cfg, t.at)
        BY <1>1, <2>2, <2>3, <4>1, <4>2 DEF Running, Global, LiveTrial, Day
      <4>4. t.save # "open" BY <2>2, <2>3, <4>3 DEF SaveInv
      <4>5. t.save \notin {"extend", "close"}
        <5>1. LiveGlobalTrial(u, t.at)
          BY <1>1, <2>2, <2>3, <4>1 DEF LiveGlobalTrial, Global, LiveTrial, UserRow, Day
        <5>2. QED BY <2>2, <2>3, <3>2, <5>1 DEF SaveInv
      <4>6. t.save = "keep" /\ t.end = cfg.end BY <2>2, <2>3, <2>4, <4>4, <4>5 DEF SaveInv
      <4>7. QED BY <2>2, <4>1, <4>2, <4>6
    <3>3. QED BY <3>1, <3>2
  <2>6. cfg'.active => cfg'.start # Null /\ cfg'.end # Null
    <3>1. CASE t.save = "open" BY <2>2, <3>1
    <3>2. CASE t.save = "close" BY <2>2, <3>2
    <3>3. CASE t.save \in {"extend", "keep"} BY <1>1, <2>2, <3>3
    <3>4. QED BY <2>4, <3>1, <3>2, <3>3
  <2>7. QED BY <2>5, <2>6 DEF GlobalTrialsFollowWindow
<1>3. ASSUME \A w \in Admins : ~CommitSave(w)
      PROVE  /\ GlobalTrialsFollowWindow'
             /\ cfg'.active => cfg'.start # Null /\ cfg'.end # Null
  <2>1. cfg' = cfg BY <1>3, WindowSteps
  <2>2. ASSUME NEW u \in Accounts, Global(u)' PROVE cfg'.active /\ users'[u].exp = cfg'.end
    <3>1. Global(u) /\ users'[u].exp = users[u].exp
      BY <1>3, <2>2, GlobalSteps DEF Saved
    <3>2. QED BY <1>1, <2>1, <3>1 DEF GlobalTrialsFollowWindow, Global
  <2>3. QED BY <1>1, <2>1, <2>2 DEF GlobalTrialsFollowWindow, Global
<1>4. QED BY <1>2, <1>3

LEMMA WindowKept == OneAdmin /\ Spec => []WindowInv
<1> SUFFICES ASSUME OneAdmin PROVE Spec => []WindowInv
  OBVIOUS
<1>1. Init => WindowInv
  <2> SUFFICES ASSUME Init PROVE WindowInv
    OBVIOUS
  <2>1. \A w \in Admins : task[w] = NoTask BY DEF Init, Workers
  <2>2. SavesBegun /\ RowsAtCommit
    <3>1. NoTask.at = 0 /\ now = 1 BY DEF Init, NoTask
    <3>2. QED BY <2>1, <3>1, NoTaskType DEF SavesBegun, RowsAtCommit
  <2>3. \A w \in Admins : SaveInv(task[w]) BY <2>1, NoTaskType DEF SaveInv
  <2>4. cfg.active => cfg.start # Null /\ cfg.end # Null
    BY TrialsAssumption DEF Init
  <2>5. GlobalTrialsFollowWindow
    <3>1. CASE OpenAtStart
      BY <3>1, NullFacts DEF Init, GlobalTrialsFollowWindow, Absent
    <3>2. CASE ~OpenAtStart
      BY <3>2, NullFacts DEF Init, GlobalTrialsFollowWindow, Absent
    <3>3. QED BY <3>1, <3>2
  <2>6. QED BY <2>2, <2>3, <2>4, <2>5 DEF WindowInv
<1>2. IInv /\ IInv' /\ WindowInv /\ [Next]_vars => WindowInv'
  <2>1. ASSUME IInv, IInv', WindowInv, Next PROVE WindowInv'
    BY <2>1, SavesBegunStep, SaveInvStep, FollowsStep DEF WindowInv
  <2>2. WindowInv /\ UNCHANGED vars => WindowInv'
    BY DEF vars, WindowInv, SavesBegun, RowsAtCommit, SaveInv, GlobalTrialsFollowWindow,
       LiveTrial, LiveGlobalTrial, Running
  <2>3. QED BY <2>1, <2>2
<1>3. QED BY <1>1, <1>2, Inductive, PTL DEF Spec

(* With one save of the launch window at a time, however long it takes,     *)
(* every global trial in force ends with the open window: none is left once *)
(* it is turned off, all follow it when it is moved (set_launch_config).    *)
THEOREM GlobalTrialsFollow == OneAdmin /\ Spec => []GlobalTrialsFollowWindow
<1>1. WindowInv => GlobalTrialsFollowWindow BY DEF WindowInv
<1>2. QED BY <1>1, WindowKept, PTL

(* With one save at a time, saving a running window again does not restart  *)
(* it, and gives back no trial but one that ended after the save had read   *)
(* the clock (set_launch_config).                                           *)
THEOREM WindowKeepsStart == OneAdmin /\ Spec => WindowNotRestarted
<1> DEFINE Kept ==
      Running(cfg, now) /\ cfg' # cfg /\ cfg'.active =>
        /\ cfg'.start = cfg.start
        /\ \A u \in Accounts : users[u].type # Null /\ ~LiveTrial(u) =>
              ~LiveTrial(u)' \/ SaveSawTrial(u)
<1>1. ASSUME IInv, WindowInv, Next, Running(cfg, now), cfg' # cfg, cfg'.active
      PROVE  /\ cfg'.start = cfg.start
             /\ \A u \in Accounts : users[u].type # Null /\ ~LiveTrial(u) =>
                   ~LiveTrial(u)' \/ SaveSawTrial(u)
  <2>1. PICK w \in Admins : CommitSave(w) BY <1>1, WindowSteps
  <2>2. PICK t \in TaskRow : t = task[w] BY <1>1 DEF IInv, TypeOK, Workers
  <2>3. /\ t.pc = "commit" /\ now' = now /\ t.at \in Nat
        /\ t.save = "close" => cfg'.active = FALSE
        /\ t.save \in {"extend", "keep"} => cfg'.start = cfg.start
        /\ \A u \in Accounts : u \notin t.rows => users'[u] = users[u]
    BY <1>1, <2>1, <2>2, CommitWrites
  <2>4. SaveInv(t) /\ t.at <= now BY <1>1, <2>2 DEF WindowInv, SavesBegun
  <2>5. now \in Nat /\ cfg.end \in Day BY <1>1 DEF IInv, TypeOK
  <2>6. Running(cfg, t.at) BY <1>1, <2>3, <2>4, <2>5 DEF Running, Day
  <2>7. t.save \in {"extend", "keep"} BY <1>1, <2>3, <2>4, <2>6 DEF SaveInv
  <2>8. \A u \in t.rows : LiveGlobalTrial(u, t.at) BY <2>3, <2>4, <2>7 DEF SaveInv
  <2>9. \A u \in t.rows : SaveSawTrial(u)
    BY <2>2, <2>3, <2>8 DEF SaveSawTrial, LiveGlobalTrial
  <2>10. QED BY <2>3, <2>7, <2>9 DEF LiveTrial
<1>2. IInv /\ WindowInv /\ [Next]_vars => [Kept]_vars BY <1>1
<1>3. QED BY <1>2, WindowKept, Inductive, PTL DEF Spec, WindowNotRestarted
=============================================================================
