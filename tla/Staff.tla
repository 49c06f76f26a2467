------------------------------- MODULE Staff -------------------------------
(***************************************************************************)
(* The staff of the CMS: sign-in, roles, accounts, the account seeded at   *)
(* start-up (auth/cms_auth_router.py, auth/jwt.py, main.py, seed_staff.py).*)
(*                                                                         *)
(* A staff token carries the role and is never looked up again; bcrypt and *)
(* an await come between what a handler reads and what it writes.          *)
(***************************************************************************)
EXTENDS Platform

CONSTANTS
    Desks,          \* requests of the staff served at once
    StaffIds,       \* every id core.staff_users will ever have
    StaffEmails,
    DefaultEmail,   \* admin@dailysql.com
    Passwords,
    DefaultPassword,
    TokenDays,      \* create_staff_token: expiry_hours = 24
    MaxDay,         \* bound on the clock
    MaxTokens       \* bound: tokens alive at once

StaffRoles == {"writer", "admin"}   \* "superadmin" is nowhere told from "admin"

ASSUME StaffAssumption ==
    /\ DefaultEmail \in StaffEmails /\ DefaultPassword \in Passwords /\ TokenDays \in Nat \ {0} /\ MaxDay \in Nat
    /\ Null \notin StaffIds /\ Null \notin StaffEmails

VARIABLES
    staff,      \* core.staff_users
    spent,      \* ids that were given out
    tokens,     \* staff tokens issued: id, role and the day they expire
    desk,       \* what the request a worker serves has read
    day,
    held        \* the last day an account was active with a role (history)

staffVars == <<staff, spent, tokens, desk, day, held>>

----------------------------------------------------------------------------
NoStaff == [email |-> Null, role |-> "writer", active |-> FALSE, password |-> DefaultPassword]
NoDesk  == [pc |-> "idle", id |-> Null, row |-> NoStaff, since |-> 0]

StaffExists(i) == staff[i].email # Null
RowsOf(e)      == {i \in StaffIds : staff[i].email = e}

(* Mutated form: the expiry of a user's token (7 days). *)
ValidForWeek(t) == day < t.exp + 6
Valid(t)        == day < t.exp
AdminToken(t)   == Valid(t) /\ t.role = "admin"

(* require_admin_only lets in an administrator's staff token, or the       *)
(* e-mailed one of auth/router.py, whose sub is no staff id (Null).        *)
Actors == {Null} \cup {t.id : t \in {u \in tokens : AdminToken(u)}}

StaffRow(e, role, p) == [email |-> e, role |-> role, active |-> TRUE, password |-> p]

StaffInit ==
    /\ staff = [i \in StaffIds |-> NoStaff]
    /\ spent = {}
    /\ tokens = {}
    /\ desk = [w \in Desks |-> NoDesk]
    /\ day = TokenDays + 1
    /\ held = [i \in StaffIds |-> [r \in StaffRoles |-> 0]]

----------------------------------------------------------------------------
MaySignIn(i, p) == staff[i].active /\ staff[i].password = p

StaffLogin(w, e, p) ==
    \E i \in RowsOf(e) :
        /\ desk[w].pc = "idle"
        /\ MaySignIn(i, p)
        /\ desk' = [desk EXCEPT ![w] = [pc |-> "login", id |-> i, row |-> staff[i], since |-> day]]
        /\ UNCHANGED <<staff, spent, tokens, day>>

IssueToken(w) ==
    /\ desk[w].pc = "login"
    /\ Cardinality(tokens) < MaxTokens
    /\ tokens' = tokens \cup {[id |-> desk[w].id, role |-> desk[w].row.role, exp |-> day + TokenDays]}
    /\ desk' = [desk EXCEPT ![w] = NoDesk]
    /\ UNCHANGED <<staff, spent, day>>

(* change_staff_password: checked against the row read. *)
BeginChange(w, t, p, q) ==
    /\ desk[w].pc = "idle"
    /\ Valid(t) /\ StaffExists(t.id) /\ staff[t.id].password = p
    /\ desk' = [desk EXCEPT ![w] = [pc |-> "change", id |-> t.id, since |-> 0,
                                    row |-> [staff[t.id] EXCEPT !.password = q]]]
    /\ UNCHANGED <<staff, spent, tokens, day>>

CommitChange(w) ==
    LET i == desk[w].id IN
    /\ desk[w].pc = "change"
    /\ staff' = IF StaffExists(i) THEN [staff EXCEPT ![i].password = desk[w].row.password] ELSE staff
    /\ desk' = [desk EXCEPT ![w] = NoDesk]
    /\ UNCHANGED <<spent, tokens, day>>

(* create_staff_member: the creator must be on record (created_by is a     *)
(* foreign key), the address must not (first read, then UNIQUE).           *)
BeginCreate(w, a, e, role, p) ==
    /\ desk[w].pc = "idle"
    /\ a \in Actors \ {Null}
    /\ RowsOf(e) = {}
    /\ desk' = [desk EXCEPT ![w] = [pc |-> "create", id |-> a, row |-> StaffRow(e, role, p),
                                    since |-> 0]]
    /\ UNCHANGED <<staff, spent, tokens, day>>

CommitCreate(w, i) ==
    LET row == desk[w].row IN
    /\ desk[w].pc = "create"
    /\ i \notin spent
    /\ IF StaffExists(desk[w].id) /\ RowsOf(row.email) = {}
       THEN staff' = [staff EXCEPT ![i] = row] /\ spent' = spent \cup {i}
       ELSE UNCHANGED <<staff, spent>>
    /\ desk' = [desk EXCEPT ![w] = NoDesk]
    /\ UNCHANGED <<tokens, day>>

(* update_staff_member: one UPDATE of what the request names; a row that   *)
(* is gone answers 404 or is not matched.                                  *)
UpdateStaff(a, i, role, active, p) ==
    /\ a \in Actors /\ StaffExists(i)
    /\ staff' = [staff EXCEPT ![i].role = role, ![i].active = active, ![i].password = p]
    /\ UNCHANGED <<spent, tokens, desk, day>>

DeleteStaff(a, i) ==
    /\ a \in Actors /\ StaffExists(i)
    /\ a # i
    /\ staff' = [staff EXCEPT ![i] = NoStaff]
    /\ UNCHANGED <<spent, tokens, desk, day>>

(* seed_staff.py, run by hand: an existing account gets a role and a       *)
(* password and is active again.                                           *)
SeedStaff(i, e, role, p) ==
    /\ IF RowsOf(e) = {} THEN i \notin spent ELSE i \in RowsOf(e)
    /\ staff' = [staff EXCEPT ![i] = StaffRow(e, role, p)]
    /\ spent' = spent \cup {i}
    /\ UNCHANGED <<tokens, desk, day>>

(* lifespan: a default administrator where there is no staff at all.       *)
Startup(i) ==
    /\ i \notin spent
    /\ desk' = [w \in Desks |-> NoDesk]
    /\ IF \E j \in StaffIds : StaffExists(j) THEN UNCHANGED <<staff, spent>>
       ELSE /\ staff' = [staff EXCEPT ![i] = StaffRow(DefaultEmail, "admin", DefaultPassword)]
            /\ spent' = spent \cup {i}
    /\ UNCHANGED <<tokens, day>>

(* Bound: no sign-in takes more than a day. A token that expired is no     *)
(* longer of interest.                                                     *)
StaffTick ==
    /\ day < MaxDay
    /\ \A w \in Desks : desk[w].pc = "login" => desk[w].since = day
    /\ day' = day + 1
    /\ tokens' = {t \in tokens : Valid(t)'}
    /\ UNCHANGED <<staff, spent, desk>>

StaffStep ==
    \/ \E w \in Desks, e \in StaffEmails, p \in Passwords : StaffLogin(w, e, p)
    \/ \E w \in Desks : IssueToken(w) \/ CommitChange(w)
    \/ \E w \in Desks, t \in tokens, p, q \in Passwords : BeginChange(w, t, p, q)
    \/ \E w \in Desks, a \in StaffIds, e \in StaffEmails, role \in StaffRoles, p \in Passwords :
           BeginCreate(w, a, e, role, p)
    \/ \E w \in Desks, i \in StaffIds : CommitCreate(w, i)
    \/ \E a \in StaffIds \cup {Null}, i \in StaffIds, role \in StaffRoles, on \in BOOLEAN,
          p \in Passwords : UpdateStaff(a, i, role, on, p)
    \/ \E a \in StaffIds \cup {Null}, i \in StaffIds : DeleteStaff(a, i)
    \/ \E i \in StaffIds, e \in StaffEmails, role \in StaffRoles, p \in Passwords :
           SeedStaff(i, e, role, p)
    \/ \E i \in StaffIds : Startup(i)
    \/ StaffTick

(* held only watches, and forgets what is older than any token. *)
StaffNext ==
    /\ StaffStep
    /\ held' = [i \in StaffIds |-> [r \in StaffRoles |->
                   IF staff'[i].active /\ staff'[i].role = r THEN day'
                   ELSE IF held[i][r] >= day' - TokenDays THEN held[i][r] ELSE 0]]

StaffSpec == StaffInit /\ [][StaffNext]_staffVars

----------------------------------------------------------------------------
StaffTypeOK ==
    /\ staff \in [StaffIds -> [email : StaffEmails \cup {Null}, role : StaffRoles,
                               active : BOOLEAN, password : Passwords]]
    /\ spent \subseteq StaffIds
    /\ tokens \subseteq [id : StaffIds, role : StaffRoles, exp : Nat]
    /\ desk \in [Desks -> [pc : {"idle", "login", "change", "create"}, id : StaffIds \cup {Null},
                             row : [email : StaffEmails \cup {Null}, role : StaffRoles,
                                    active : BOOLEAN, password : Passwords], since : Nat]]
    /\ day \in Nat
    /\ held \in [StaffIds -> [StaffRoles -> Nat]]

(* Nothing looks a staff token up in the table again, so an account that   *)
(* was demoted, deactivated or deleted keeps its rights; but no longer     *)
(* than the token lives: whoever holds a valid token held that very role   *)
(* within the last TokenDays days (staff_login, create_staff_token).       *)
StaleAccessEnds ==
    \A t \in tokens : Valid(t) => held[t.id][t.role] >= day - TokenDays
=============================================================================
