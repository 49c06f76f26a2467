------------------------------- MODULE Trials -------------------------------
(***************************************************************************)
(* The launch window, the trials it hands out and the access they give     *)
(* (set_launch_config, apply_new_user_trial, has_active_subscription of    *)
(* payments/subscription_service.py; the sign-ups of auth/router.py).      *)
(*                                                                         *)
(* A sign-up is three autocommitted statements with awaits between them; a *)
(* save of the launch configuration is one READ COMMITTED transaction that *)
(* reads the configuration without a lock before it writes, and the clock  *)
(* before that.  The clock counts instants: it may advance between any two *)
(* statements.                                                             *)
(***************************************************************************)
EXTENDS Integers, FiniteSets

CONSTANTS
    Accounts,       \* every account there may ever be
    OldAccounts,    \* those that exist at the start
    Mailbox,        \* canonical_email of each account's address
    Signups,        \* workers that serve sign-ups
    Admins,         \* workers that serve saves of the launch configuration
    SignupDays,     \* new_user_trial_days
    WindowDays,     \* values of trial_days an admin may choose
    OpenAtStart,    \* the launch window is open in the initial state
    MaxDay,         \* bound on the clock
    Null

Workers == Signups \cup Admins

ASSUME TrialsAssumption ==
    /\ OldAccounts \subseteq Accounts
    /\ Signups \cap Admins = {}
    /\ SignupDays \in Nat /\ WindowDays \subseteq Nat /\ MaxDay \in Nat
    /\ OpenAtStart \in BOOLEAN
    /\ Null \notin Nat /\ Null \notin Accounts /\ Null \notin {"global_trial", "new_signup"}

VARIABLES
    now,        \* the clock
    cfg,        \* core.launch_config
    users,      \* core.users
    task,       \* the request each worker is serving
    missed      \* history: users whose failed lookup hid the trial of an alias

vars == <<now, cfg, users, task, missed>>

----------------------------------------------------------------------------
Absent == [exists |-> FALSE, plan |-> "free", type |-> Null, exp |-> Null, created |-> 0]

NoTask == [pc |-> "idle", user |-> Null, save |-> "none", at |-> 0, start |-> 0,
           end |-> 0, rows |-> {}]

Idle(w) == task[w].pc = "idle"
Done(w) == task' = [task EXCEPT ![w] = NoTask]

LiveTrial(u) == users[u].exp # Null /\ users[u].exp > now

(* trial_expires_at once a paid plan starts: a live trial ends at once, its *)
(* record is kept.                                                          *)
EndTrial(exp, d) == IF exp # Null /\ exp > d THEN d ELSE exp

(* Rows that an uncommitted save has updated. *)
RowLocked(u) == \E w \in Admins : u \in task[w].rows

ConfigLocked == \E w \in Admins : task[w].pc \in {"users", "commit"}

(* A save that opened the window on day 0 gave its trial to a free account.*)
Init ==
    /\ now = 1
    /\ cfg = IF OpenAtStart
             THEN [active |-> TRUE, start |-> 0, end |-> MaxDay]
             ELSE [active |-> FALSE, start |-> Null, end |-> Null]
    /\ users = [u \in Accounts |->
                  IF u \notin OldAccounts THEN Absent
                  ELSE IF OpenAtStart
                  THEN [Absent EXCEPT !.exists = TRUE, !.type = "global_trial",
                                      !.exp = MaxDay]
                  ELSE [Absent EXCEPT !.exists = TRUE]]
    /\ task = [w \in Workers |-> NoTask]
    /\ missed = {}

----------------------------------------------------------------------------
(* Sign-up: register_verify and the Google callback insert the user, then  *)
(* call apply_new_user_trial.                                              *)

InsertUser(w, u) ==
    /\ Idle(w)
    /\ ~users[u].exists
    /\ users' = [users EXCEPT ![u] = [Absent EXCEPT !.exists = TRUE, !.created = now]]
    /\ task' = [task EXCEPT ![w] = [NoTask EXCEPT !.pc = "config", !.user = u]]
    /\ UNCHANGED <<now, cfg, missed>>

ReadConfig(w) ==
    LET open == cfg.active /\ cfg.end # Null /\ now <= cfg.end IN
    /\ task[w].pc = "config"
    /\ \/ open /\ task' = [task EXCEPT ![w].pc = "mailbox", ![w].at = now]
       \/ ~open /\ Done(w)
    /\ UNCHANGED <<now, cfg, users, missed>>

(* Another account of the mailbox with a trial on record.  Mutated form:   *)
(* addresses are compared as they are written.                             *)
AddressUsed(u) == FALSE
MailboxUsed(u) ==
    \E v \in Accounts \ {u} : /\ users[v].exists /\ Mailbox[v] = Mailbox[u]
                              /\ users[v].type # Null

(* A lookup that fails lets the sign-up go on as one that found nothing;    *)
(* the last disjunct is the failure that matters.                           *)
CheckMailbox(w) ==
    LET t == task[w] IN
    /\ t.pc = "mailbox"
    /\ \/ MailboxUsed(t.user) /\ Done(w) /\ UNCHANGED missed
       \/ /\ ~MailboxUsed(t.user)
          /\ task' = [task EXCEPT ![w].pc = "grant"]
          /\ UNCHANGED missed
       \/ /\ MailboxUsed(t.user)
          /\ task' = [task EXCEPT ![w].pc = "grant"]
          /\ missed' = missed \cup {t.user}
    /\ UNCHANGED <<now, cfg, users>>

(* UPDATE ... WHERE plan = 'free'.  Mutated form: without the condition. *)
AnyPlan(u)    == TRUE
StillFree(u)  == users[u].plan = "free"

GrantTrial(w) ==
    LET t == task[w] IN
    /\ t.pc = "grant"
    /\ ~RowLocked(t.user)
    /\ \/ /\ StillFree(t.user)
          /\ users' = [users EXCEPT ![t.user].type = "new_signup",
                                    ![t.user].exp = t.at + SignupDays]
       \/ ~StillFree(t.user) /\ UNCHANGED users
    /\ Done(w)
    /\ UNCHANGED <<now, cfg, missed>>

----------------------------------------------------------------------------
(* set_launch_config *)

Running(c, d) == c.active /\ c.start # Null /\ c.end # Null /\ d < c.end

(* Mutated form of Extends: every save that turns the window on opens it.  *)
NeverExtends(on) == FALSE
Extends(on)      == on /\ Running(cfg, now)

BeginSave(w, on, days) ==
    LET start == IF Extends(on) THEN cfg.start ELSE now
        save  == IF Extends(on) THEN (IF start + days = cfg.end THEN "keep" ELSE "extend")
                 ELSE IF on THEN "open" ELSE "close"
    IN
    /\ Idle(w)
    /\ task' = [task EXCEPT ![w] = [NoTask EXCEPT !.pc = "write", !.save = save, !.at = now,
                                                  !.start = start, !.end = start + days]]
    /\ UNCHANGED <<now, cfg, users, missed>>

(* The first write takes the lock of the only row of core.launch_config. *)
LockConfig(w) ==
    /\ task[w].pc = "write"
    /\ ~ConfigLocked
    /\ task' = [task EXCEPT ![w].pc = "users"]
    /\ UNCHANGED <<now, cfg, users, missed>>

(* Who an opening window gives a trial, and whose trials a running or a    *)
(* closing one moves.  Mutated form: signup trials are overwritten too.    *)
EveryFreeUser(u) == users[u].exists /\ users[u].plan = "free"
GetsTrial(u) ==
    users[u].exists /\ users[u].plan = "free" /\ users[u].type \in {Null, "global_trial"}

LiveGlobalTrial(u, d) ==
    users[u].type = "global_trial" /\ users[u].exp # Null /\ users[u].exp > d

(* Mutated form of Affected: only an opening window touches the users. *)
OnlyNew(t)  == IF t.save = "open" THEN {u \in Accounts : GetsTrial(u)} ELSE {}
Affected(t) ==
    CASE t.save = "open" -> {u \in Accounts : GetsTrial(u)}
      [] t.save = "keep" -> {}
      [] OTHER -> {u \in Accounts : LiveGlobalTrial(u, t.at)}

UpdateUsers(w) ==
    /\ task[w].pc = "users"
    /\ task' = [task EXCEPT ![w].pc = "commit", ![w].rows = Affected(task[w])]
    /\ UNCHANGED <<now, cfg, users, missed>>

CommitSave(w) ==
    LET t == task[w] IN
    /\ t.pc = "commit"
    /\ cfg' = CASE t.save = "open"  -> [active |-> TRUE, start |-> t.start, end |-> t.end]
                [] t.save = "close" -> [cfg EXCEPT !.active = FALSE]
                [] OTHER            -> [cfg EXCEPT !.end = t.end]
    /\ users' = [u \in Accounts |->
                   IF u \notin t.rows THEN users[u]
                   ELSE [users[u] EXCEPT !.exp = IF t.save = "close" THEN t.at ELSE t.end,
                                         !.type = "global_trial"]]
    /\ Done(w)
    /\ UNCHANGED <<now, missed>>

----------------------------------------------------------------------------
(* The rest of the billing: a purchase, a coupon or a grant; a refund, or   *)
(* an expiry that the next startup sweep still has to write; an admin who   *)
(* takes back all access, a trial included (grant_admin_subscription).      *)

StartPlan(u) ==
    /\ users[u].exists /\ ~RowLocked(u)
    /\ users' = [users EXCEPT ![u].plan = "paid", ![u].exp = EndTrial(@, now)]
    /\ UNCHANGED <<now, cfg, task, missed>>

EndPlan(u, how) ==
    /\ ~RowLocked(u)
    /\ \/ how = "free" /\ users[u].plan \in {"paid", "lapsed"}
       \/ how = "lapsed" /\ users[u].plan = "paid"
    /\ users' = [users EXCEPT ![u].plan = how]
    /\ UNCHANGED <<now, cfg, task, missed>>

RevokeAccess(u) ==
    /\ users[u].exists /\ ~RowLocked(u)
    /\ users' = [users EXCEPT ![u].plan = "free", ![u].exp = EndTrial(@, now)]
    /\ UNCHANGED <<now, cfg, task, missed>>

Crash(w) == ~Idle(w) /\ Done(w) /\ UNCHANGED <<now, cfg, users, missed>>

Tick ==
    /\ now < MaxDay
    /\ now' = now + 1
    /\ UNCHANGED <<cfg, users, task, missed>>

Signup(w) ==
    \/ \E u \in Accounts : InsertUser(w, u)
    \/ ReadConfig(w) \/ CheckMailbox(w) \/ GrantTrial(w)

Save(w) ==
    \/ \E on \in BOOLEAN, days \in WindowDays : BeginSave(w, on, days)
    \/ LockConfig(w) \/ UpdateUsers(w) \/ CommitSave(w)

Next ==
    \/ \E w \in Signups : Signup(w)
    \/ \E w \in Admins : Save(w)
    \/ \E w \in Workers : Crash(w)
    \/ \E u \in Accounts : \/ StartPlan(u) \/ RevokeAccess(u)
                           \/ EndPlan(u, "free") \/ EndPlan(u, "lapsed")
    \/ Tick

Spec == Init /\ [][Next]_vars

----------------------------------------------------------------------------
(* Access: has_active_subscription *)

(* Mutated form: the window covers everybody. *)
WindowOpen(u) ==
    cfg.active /\ cfg.start # Null /\ cfg.end # Null /\ cfg.start <= now /\ now <= cfg.end

EligibleForGlobalTrial(u) ==
    /\ cfg.active /\ cfg.start # Null /\ cfg.end # Null /\ cfg.start <= now /\ now <= cfg.end
    /\ users[u].type = Null /\ users[u].exp = Null
    /\ users[u].created <= cfg.start

HasAccess(u) ==
    \/ users[u].plan = "paid"
    \/ LiveTrial(u)
    \/ EligibleForGlobalTrial(u)

----------------------------------------------------------------------------
(* Properties *)

Day == Nat \cup {Null}

UserRow == [exists : BOOLEAN, plan : {"free", "paid", "lapsed"},
            type : {Null, "global_trial", "new_signup"}, exp : Day, created : Nat]

TaskRow == [pc : {"idle", "config", "mailbox", "grant", "write", "users", "commit"},
            user : Accounts \cup {Null}, save : {"none", "open", "extend", "keep", "close"},
            at : Nat, start : Nat, end : Nat, rows : SUBSET Accounts]

(* Every row and request has its shape; a trial on record has an end, also  *)
(* when it was ended by a purchase.                                         *)
TypeOK ==
    /\ now \in Nat
    /\ cfg \in [active : BOOLEAN, start : Day, end : Day]
    /\ users \in [Accounts -> UserRow]
    /\ task \in [Workers -> TaskRow]
    /\ missed \subseteq Accounts
    /\ \A u \in Accounts : users[u].type = Null <=> users[u].exp = Null

(* What a sign-up in flight knows of its user: it inserted it, nobody else  *)
(* serves it, and it has no signup trial yet.                               *)
SignupInFlight ==
    \A w \in Signups :
        \/ Idle(w) /\ task[w].user = Null
        \/ /\ ~Idle(w) /\ task[w].user \in Accounts
           /\ users[task[w].user].exists
           /\ users[task[w].user].type # "new_signup"
           /\ \A v \in Signups : task[v].user = task[w].user => v = w

(* A save never holds the row of a user with a signup trial, and who does   *)
(* not exist has no trial.                                                  *)
RowsHeld ==
    /\ \A w \in Admins : \A u \in task[w].rows :
          users[u].exists /\ users[u].type # "new_signup"
    /\ \A u \in Accounts : ~users[u].exists => users[u].type = Null

(* The inductive invariant behind SignupTrialHonoured. *)
IInv == TypeOK /\ SignupInFlight /\ RowsHeld

(* One mailbox gets one signup trial, whatever alias each account uses: a   *)
(* second one goes only to a sign-up whose lookup of the mailbox failed     *)
(* (apply_new_user_trial).                                                  *)
OneTrialPerMailbox ==
    \A u, v \in Accounts :
        users[u].type = "new_signup" /\ users[v].type = "new_signup"
            /\ Mailbox[u] = Mailbox[v] => u = v \/ u \in missed \/ v \in missed

(* A global trial in force ends with the open window: none is left once the *)
(* window is turned off, and all of them follow it when it is extended or   *)
(* shortened (set_launch_config).                                           *)
GlobalTrialsFollowWindow ==
    \A u \in Accounts : users[u].type = "global_trial" /\ LiveTrial(u) =>
        cfg.active /\ users[u].exp = cfg.end

(* A save holds the row of u and read the clock before the trial of u was   *)
(* over: what ends that trial after the reading escapes the save.           *)
SaveSawTrial(u) ==
    \E w \in Admins : /\ task[w].pc = "commit" /\ u \in task[w].rows
                      /\ users[u].exp # Null /\ users[u].exp > task[w].at

(* What a step may put behind a paid plan. *)
PlanAlone(u) ==
    users'[u].plan = "paid" /\ LiveTrial(u)' =>
        \/ users[u].plan = "paid" /\ LiveTrial(u)
        \/ SaveSawTrial(u)

(* A paid plan has no trial running behind it that would give access again  *)
(* after a refund: a purchase, coupon or grant ends it, and afterwards no   *)
(* sign-up and no opening window starts one.  Only a save that read the     *)
(* clock before the trial was ended and writes after it gives it back       *)
(* (activate_subscription, apply_new_user_trial, set_launch_config).        *)
PaidEndsTrial == [][\A u \in Accounts : PlanAlone(u)]_vars

(* What a step may do to the trial of a user who signed up. *)
TrialHonoured(u) ==
    users[u].type = "new_signup" =>
        /\ users'[u].type = "new_signup"
        /\ users'[u].exp # users[u].exp => users'[u].exp = now /\ UNCHANGED <<cfg, task>>

(* A signup trial is honoured: no save of the window, on, off or extended,  *)
(* and no sign-up changes it; only the billing ends it early, a purchase or *)
(* an admin's revocation, at that very moment (set_launch_config).          *)
SignupTrialHonoured == [][\A u \in Accounts : TrialHonoured(u)]_vars

(* While the window runs, saving the configuration again does not restart   *)
(* it, and gives back no trial but one that ended after the save had read   *)
(* the clock (set_launch_config).                                           *)
WindowNotRestarted ==
    [][Running(cfg, now) /\ cfg' # cfg /\ cfg'.active =>
         /\ cfg'.start = cfg.start
         /\ \A u \in Accounts : users[u].type # Null /\ ~LiveTrial(u) =>
               ~LiveTrial(u)' \/ SaveSawTrial(u)]_vars

(* What a step may give a user whose signup trial has ended. *)
TrialStaysEnded(u) ==
    users[u].type = "new_signup" /\ ~LiveTrial(u) /\ users'[u].plan # "paid" =>
        ~HasAccess(u)'

(* A signup trial that has ended stays ended: without a paid plan the user  *)
(* never gets access again, launch window or not (has_active_subscription). *)
EndedStaysEnded == [][\A u \in Accounts : TrialStaysEnded(u)]_vars
=============================================================================
