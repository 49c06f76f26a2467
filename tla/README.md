# Daily SQL backend: TLA+ verification

This directory specifies the Daily SQL backend (`src/backend/app`, FastAPI over
asyncpg/Postgres and Redis, with its code runners in `src/runners`) in TLA+. The
modules are model-checked with TLC on small instances; the main safety results are
proved for every instance with TLAPS.

## 1. Inventory

| Component | State | Operations | Interacts with | Module |
|---|---|---|---|---|
| Billing core (`payments/subscription_service.py`, `payments/router.py`, `billing_hardening.sql`) | `core.users.plan/plan_expires_at/trial_expires_at`, `core.subscriptions`, `core.subscription_plans` | create-order, verify-payment, verify-order, Razorpay webhook (captured, refund, dispute), cancel, startup sweep | Razorpay (await in the middle of a handler, redelivered webhooks), admin grants, coupons | `Billing` |
| Admin plan tools (`admin/router.py`) | the same tables, `plan_price_audit` | grant / downgrade / revoke a plan, change a price | billing core | `Billing` |
| Coupons (`subscription_service.py`, `coupons/router.py`, `admin/router.py`) | `core.coupons` | generate, refresh, revoke, check, redeem | billing core, launch config (default expiry) | `Coupons`, `Billing` |
| Cashfree legacy (`payments/cashfree_legacy.py`) | `core.subscriptions` | success, refund, dispute webhooks of old orders | billing core | `Cashfree`, `Billing` |
| Launch window and trials (`subscription_service.py`, `payments/dependencies.py`) | `core.launch_config`, `users.trial_*` | set_launch_config, apply_new_user_trial, access checks | sign-up, billing (a purchase stacks on a trial) | `Trials` |
| Sign-up and sign-in (`auth/router.py`, `auth/otp_handler.py`) | Redis codes and their counters, `core.users` | register, otp/send, register/verify, login, admin code, Google callback | mail, trials, rate limiter | `SignUp` |
| Rate limiter (`rate_limit/limiter.py`) | Redis counters, a process-wide failure counter | rate_limit, rate_limit_auth | sign-up, execution | `Submission`, `SignUp` |
| Staff (`auth/cms_auth_router.py`, `auth/jwt.py`) | `core.staff_users`, signed tokens | sign-in, password change, account CRUD, seed, default administrator | every admin page | `Staff` |
| Waitlist, whitelist, feedback, banner, WhatsApp group | their tables | join, approve, reject, list, strike off | sign-up (whitelist) | `Inbox` |
| Execution (`execution/*`, `runners/*`) | sandbox schemas, processes, MySQL databases, the Spark session, `core.attempts`, `core.user_solutions` | run, submit, judge, clean up | streaks, rate limiter | `Submission`, `Runners`, `Judge` |
| Streaks (`streaks/service.py`) | `core.streaks` | update on an accepted submission | execution | `Submission` |
| Profiles and leaderboard (`user/router.py`) | usernames, solved problems | profile form, leaderboard, statistics | execution, sign-up | `Profiles` |
| Community (`votes`, `comments`) | likes, comments, comment votes | toggle, post, reply, delete, moderate | content (deleted problems) | `Community` |
| Content (`admin/router.py`, `user/router.py`) | problems, datasets, test cases, solutions, `core.daily_practice` | CRUD, schedule, publication and cleaning, free-tier gate and list | execution, billing (access) | `Content` |

What is hard: every request is an asyncio task with its own pooled connection and
READ COMMITTED (mostly autocommitted) statements, so any two handlers interleave at every
statement; the gateway redelivers webhooks and reorders them; handlers await the
gateway, a runner or bcrypt between a check and a write; Redis commands of one request
interleave with those of another; the process may stop at any statement.

What has to be right: a payment becomes a plan exactly once, paid time is neither lost
nor given away, reversals take back the access they should and requests do not block each
other for ever (billing); a trial is given once and never ends a paid plan (trials); codes
cannot be guessed and accounts do not change hands (sign-up); nothing is shown as solved that
was not (execution, streaks); code of one submission does not meet the data of another
(runners); nothing refers to what is gone, and the public sees what was published (content,
community). The full list, line by line, is `hazards` in `PROJECT.json`.

## 2. Plan

All modules of the plan exist.

1. `OrderLifecycle` (abstract), `Billing`, `BillingInvariant`, `MCBilling`, `BillingProofs`.
2. `Trials`, `MCTrials`, `TrialsProofs`.
3. `Submission`, `MCSubmission`, `SubmissionProofs`.
4. `SignUp`, `MCSignUp`, `SignUpProofs`.
5. `Platform` (what the smaller components share), `Staff`, `Community`, `Inbox`, `Coupons`,
   `Runners`, composed for TLC by `MCSite`; `CommunityProofs`, and `SiteProofs` for `Inbox`,
   `Staff` and `Runners`.
6. `Content`, `Profiles`, `Judge`, composed by `MCContent`; `ContentProofs`, and
   `MembersProofs` for `Profiles`, `Judge` and `Coupons`.
7. `Cashfree`, a part of `MCSite`; its theorem is in `MembersProofs`.

Every safety property of a passing run is a theorem, under the hypotheses of section 10. What is left is out of reach of the provers
(liveness) or of the models (section 11).

## 3. The billing modules

`Billing.tla` is the detailed model. Its variables are the tables: `users`
(plan, `planExp`, `trialExp`), `subs` (one row per order, manual grant or redeemed
coupon), `coupons`, `price`; `gateway` is what Razorpay knows of each order; `txn[w]`
is the request worker `w` serves, with its program counter, the values it has
read and the row locks it holds; `now` is the day. `activations` and `applied` are
history variables: they record what happened and no action reads them.

A handler is one action per point at which another transaction can come between:

| Code | Actions |
|---|---|
| `create_order` | `BeginOrder` (price, purchase block), `InsertOrder` (after the gateway's answer) |
| `activate_subscription` from `razorpay_webhook` | `CapturedWebhook`, `Claim`, `LockUser`, `CommitActivation` |
| `activate_subscription` from `_settle_order` | `Settle`, then the same |
| `revoke_subscription` + `_recompute_user_plan` | `BeginRevoke`, `ReadBest`, `CommitRevoke` |
| partial refund | `RecordPartialRefund` |
| `cancel_subscription` | `Cancel` |
| `grant_admin_subscription` | `BeginGrant`, `CommitGrant` |
| `redeem_coupon` | `BeginRedeem`, `CommitRedeem` |
| `lifespan` + `expire_stale_subscriptions` | `Restart` |
| rollback, Postgres deadlock detection | `Abort`, `DeadlockVictim` |
| Razorpay, the CMS, the clock | `Pay`, `AutoCapture`, `Refund`, `Dispute`, `ChangePrice`, `Tick` |

Transactions are READ COMMITTED: the writes of a transaction stay in `txn[w]` and
reach the tables in its commit action; a plain SELECT sees committed rows; an
UPDATE or SELECT FOR UPDATE is enabled only when no other worker holds the row and
looks at it again then (`Free`). Waiting is therefore a disabled action, and
`WaitsFor` is the wait-for graph.

Abstractions:

* An amount and its currency are one value: either what the gateway charged is
  what the order stores, or it is not. Refunded totals are 0 (nothing), 1 (less
  than the charge) or 2 (all of it).
* Time is in days; plans last `MonthDays` and `YearDays`.
* `LegacyOrders` are rows from before `expected_amount` existed. Their success
  webhook (Cashfree's) also is `CapturedWebhook`; `_settle_order` never asks the
  gateway about them; their refunds are in `Cashfree`.
* A request reads the clock and takes its first lock in one step; the grant's
  multi-row revocation takes its locks in one step. `grant_admin_subscription`
  recomputes the plan under the user's lock after revoking all held rows; no
  other transaction can make a row of that user active without that lock, so the
  recomputation finds none and `CommitGrant` writes 'free'.
* A crash between the gateway order and the insertion of the row leaves an order
  nobody can pay (the client never gets its id): `Abort` in state "insert".
* Coupons are lifetime coupons, as `generate_coupons_for_users` issues them.
* The sweep runs at start-up before the single server process serves requests.

`OrderLifecycle.tla` is the abstract promise: rows move along their life cycle, a row
is turned into a plan once, an order only after its payment was captured.
`Billing` implements it under the mapping `Lifecycle`.

`BillingInvariant.tla` is the inductive invariant; `BillingProofs.tla` the proofs;
`MCBilling.tla` the instances.

`Cashfree.tla` is the webhook of the former gateway. `PaymentSuccess` and `DisputeCreated` are
one transaction each; a refund event is `ReadPaid` (the plain SELECT, and the amount the refund is
compared with) and then `FullRefund` (`revoke_subscription`) or `PartialRefund` (the UPDATE with
GREATEST), with `EventLost` where the process stops between them. `MakeRefund`, `RepricePlan` and
`Expires` are the gateway, the CMS and the sweep. Any event may be handled at any time and again:
the handlers' own conditions are all that orders them. An amount is a number here, since refunds
add up; a row may have no stored amount (`expected` is `Null`), and is then compared with
the price of the day.

Next to some helper operators stands a *mutated form* (`LaterExpiry`,
`ReadUnlocked`, ...): what the helper would be with a plausible bug. No action uses them;
they serve to show that each property depends on the code it is about.

## 4. The trials module

`Trials.tla` has `users` (existence, plan, trial type and end, creation day), `cfg` (the
one row of `core.launch_config`), `task[w]` (the sign-up or save a worker serves) and
`now`.

| Code | Actions |
|---|---|
| INSERT of `register_verify` / `google_callback` | `InsertUser` |
| `apply_new_user_trial` | `ReadConfig`, `CheckMailbox`, `GrantTrial` |
| `set_launch_config` | `BeginSave` (unlocked read, window running or not), `LockConfig`, `UpdateUsers` (the rows its UPDATE matches), `CommitSave` |
| what billing does to a user | `StartPlan` (activation, coupon or grant: ends a live trial), `EndPlan` (refund, expiry), `RevokeAccess` (an admin grants 'free': the plan and a live trial end) |
| `has_active_subscription` | `HasAccess` |

A sign-up is three autocommitted statements; a save is one transaction that reads
the clock before it begins and the configuration without a lock. `Mailbox` is
`canonical_email`: accounts whose addresses are aliases share a value. The clock counts
instants: it may advance, and any other statement may come, between any two statements.
Billing's part is one step here because each
of its transactions holds the row it writes; that these steps are all it does to a trial is
`TrialsOnlyEnd`, a theorem about `Billing` (section 10). One thing is idealised: a purchase in
`Billing` ends a trial at the time its request read, which may be earlier than its commit; here
it is `now`.

Two behaviours of the code break what one would like to say without a condition. The properties
name them, and claim everything else:

* The lookup of the mailbox is guarded by `except Exception`
  (`payments/subscription_service.py`:592): a sign-up whose lookup fails gets its trial, whatever an alias
  had. `CheckMailbox` may fail; the history variable `missed` records whose failed lookup hid a trial,
  and `OneTrialPerMailbox` excuses them.
* A save decides by the clock it read at line 487 (`trial_expires_at > $2`, line 508). A purchase, a
  revocation or the mere passing of time may end a trial between that reading and the UPDATE, at
  any hour, and the save then gives the trial back: behind a paid plan, or to a user whose trial
  was over. `SaveSawTrial(u)` says that a save holds the row of `u` and read the clock before
  its trial ended; `PaidEndsTrial` and `WindowNotRestarted` excuse that step and no other. They are
  action properties for this reason: what such a step did may be seen for long, but nothing else may do it.

`OneTrialPerMailbox` and `GlobalTrialsFollowWindow` hold with one sign-up and one
admin at a time, as `trials_window` has them, and fail without that: with
`Signups = {w1, w2}` two aliases both find no earlier trial, with `Admins = {w3, w4}` a
save that read the configuration before another admin closed the window leaves live trials
behind. `PaidEndsTrial`, `SignupTrialHonoured` and `EndedStaysEnded` are proved without these
bounds; the theorems on the other properties of the run name the ones they need as hypotheses
(section 10).

## 5. The submission module

`Submission.tla` follows `POST /execute` from the limiter to the DROP of its sandbox:

| Code | Actions |
|---|---|
| `execute_query` is called | `Arrive` (user, problem, engine, dry run or submission) |
| `rate_limit` | `Incr`, `Expire`, `RedisFails` (the command may have been executed), `Decide` |
| problem, access, code and profile checks | `Refuse`, `Accept` |
| `setup_execution_schema` | `Accept` (CREATE SCHEMA), `Load` |
| engines, reference query, `compare_results` | `Judge` (any verdict or an error) |
| `record_attempt` | `RecordAttempt` |
| `update_streak` | `ReadStreak`, `WriteStreak` |
| INSERT into `user_solutions` | `RecordSolution` |
| the swallowing `except` around the three | `StatsFail` |
| `finally` | `Leave`, `Teardown` |
| Redis, the clock, the process | `Lapse`, `Tick`, `Crash` |

Variables: `counter` and `failures` (Redis and the process-wide failure counter),
`sandboxes`, `attempts`, `streak`, `solved`, `task[r]` for each request; `passed` (requests
let through per window) is a history variable, `faults` counts what failed and
bounds it. A schema is named after its request: names are random in the code,
and a collision of two is left out. The check of an unknown problem or forbidden
code is a free choice of `Refuse`. A fault is a failing Redis, attempt, streak, solution, set-up or
DROP statement, or a crash; a failing user query is no fault.

The day of an attempt, the day of the streak and the clock are told apart, so midnight may
fall between two statements. `LateNights = FALSE` in both runs keeps it out of
attempt and streak: a write delayed over midnight really does move `last_active_date` back,
and `StreakKept` is only claimed without it.

## 6. Sign-up

`SignUp.tla` has one action per Redis command and SQL statement; `task[w]` is the request
worker `w` serves.

| Code | Actions |
|---|---|
| `register`, `send_otp`, `send_admin_otp` | `Register`, `SendOtp`, `SendAdminOtp`, `CheckNew` |
| `rate_limit_auth` | `Incr`, `Expire`, `Decide`, `RedisFails` |
| `create_otp_session`, the mail | `Mint` (the code), `MailCode` (its counter; the id is handed out when the mail was sent) |
| `verify_otp_session` | `Verify`, `ReadAttempts`, `ReadStored`, `Guess` (INCR, then the comparison), `DropCode`, `DropCounter` |
| `register_verify` after the code | `CheckSignup` (password, existing account), `InsertUser` |
| `verify_admin_otp` after the code | `AdminToken` |
| `google_callback` | `Google` (SELECT), `LinkOrCreate` (UPDATE or INSERT) |
| Redis, the process | `LapseCode`, `LapseCounter`, `LapseHits`, `Crash` |

Addresses are spellings with a lower-case form: queries compare in lower case, UNIQUE does
not. A code is right or wrong (`right`), as the guess says. A session whose mail failed is
one nobody can name. `hits` counts per address in lower case, `failures` is the process-wide
counter of failed Redis commands (`Submission` has its own copy: no property relates the two).
`compared` and `admins` are history variables. `login` changes no account and is left out.

## 7. The smaller components

`Platform` declares workers, users, problems and `Null`. The components share neither
variables nor actions, so each is checked on its own: `MCSite` and `MCContent` pick one in
the initial state (`focus`) and let it run while the others rest. A behaviour of the
composition is an interleaving of such behaviours, and every property reads the variables of
one component. Real interaction is inside a component: whatever refers to a problem is in the
module that also deletes it.

| Module | Code | Actions |
|---|---|---|
| `Staff` | `staff_login`, `create_staff_token` | `StaffLogin`, `IssueToken` (bcrypt between them) |
| | `change_staff_password`, `create_staff_member` | `BeginChange`, `CommitChange`, `BeginCreate`, `CommitCreate` |
| | `update_staff_member`, `delete_staff_member` | `UpdateStaff`, `DeleteStaff`: the last active administrator, oneself |
| | `seed_staff.py`, `lifespan` | `SeedStaff`, `Startup` |
| `Community` | `votes/router.py` | `ReadLike`, `ToggleLike` |
| | `comments/router.py` | `ReadParent`, `InsertComment`; `ReadOwn`, `DeleteOwn`; `ReadVote`, `ToggleVote` |
| | moderation, `delete_problem` | `Moderate`, `DropProblem`, with ON DELETE CASCADE |
| `Inbox` | waitlist and whitelist | `JoinWaitlist`, `ReadEntry`, `Whitelist`, `Approve`, `Abort`, `RejectEntry`, `DeleteEntry`, `AddToWhitelist`, `RemoveFromWhitelist` |
| | feedback, banner, WhatsApp group | `Feedback`, `DropTopic`, `ReadBanner`, `SetBanner`, `AddToGroup`, `RemoveFromGroup` |
| `Coupons` | `generate_coupons_for_users`, `generate_coupons.py` | `BeginGenerate`, `ReadUnused`, `Refresh`, `InsertCoupon` |
| | delete, redeem; a grant or refund | `Revoke`, `Redeem`; `LosePlan` |
| `Runners` | `runners/pyspark/server.py` | `Submit`, `Start`, `Check`, `StopSpark`, `CreateSpark`, `CreateFails`, `Load`; the code: `Query`, `ReadSaved`, `MakeView`, `SaveRows`; `Leave`, `Cleanup`; `Timeout`, `JvmDies` |
| | `runners/python/server.py`, `mysql_engine.py` | `Spawn`, `EndProcess`, `ProcessExits`; `CreateDatabase`, `RunQuery`, `DropDatabase`; `BackendStops` |
| `Content` | `create_problem`, `edit_problem` | `CreateProblem`, `EditActive`, `EditKind` |
| | `delete_problem` | `BeginDelete` (references cleared, rows held), `CommitDelete` (a foreign key may refuse) |
| | `schedule_daily_practice`, `list_problems`, `get_today_practice` | `Schedule`, `AdminList`, `PublishToday`, `CleanHistory` |
| | datasets, test cases | `AddDataset`, `EditDataset`, `DeleteDataset`; `ChangeCases` |
| | `add_solution`, `edit_solution` | `OpenSave`, `RunReference`, `LookUp`, `InsertSolution`, `UpdateSolution` |
| | list and gates of `user/router.py`, `payments/dependencies.py` | `Locked`; `NeedsPaid`, `OpensProblem`, `OpensDatasets`, `OpensExpected`, `OpensSolution` |
| `Profiles` | `update_my_profile`, `migrate_usernames.py` | `OpenForm`, `SaveForm`, `Migrate` |
| | `get_leaderboard`, `get_my_stats`, `get_public_profile` | `Rank`, `Position`, `StatsSolved`, `Profile` |
| `Judge` | `compare_results` | `Compare`, on every pair of small results |

Abstractions: of the datasets of a problem only their version counts, 0 where there are none; the twelve columns of a day are three
slots; python and pyspark are one kind of problem; of the four dialects of a solution there is
one. An expected output is the pair of code and data version it was computed from.
`RowLocked` and `Deleting` stand for the row locks of Postgres: an UPDATE or DELETE of a held row
waits, an INSERT that refers to a row being deleted makes the deletion fail (`Refused`).
Results of `Judge` have rows of two values, None included; headers are an opaque value.
Jobs of the Spark service name the tables they load; a job is *shared* when another one
was in the pool at the same time, for which the service promises nothing. The code of a job holds the
session itself: it queries any view, makes views of any name, and may save rows it has seen as a
table, a global temporary view or a file. `cleanup_spark` drops temporary views and nothing else,
so what was `saved` can be read by every later job, and `RunsApart` speaks of all other rows. What a
request is answered is left out: no step reads it. Waiting for a Python process may
raise, which leaves the process to itself (`runners/python/server.py`:64); it exits when it likes.

An empty username is a value of its own (`Blank`): `update_my_profile` tests it as it tests None, but
stores it. Who sends it over a name ends with no page. `OnboardedHasPage` excuses them (`blanked`)
and nobody else.

`schedule_daily_practice` takes any date, one far back included. A problem scheduled far back after
`get_today_practice` published what was due and before it deletes the history is visible for that
moment and then cleaned away unpublished. Such days are `backdated` (until the next publication, or
until nobody is cleaning any more), and `VisibleStays` excuses the problems on them.

`withdrawn`, `retyped`, `struck`, `held`, `shared`, `spoiled`, `blanked` and `backdated` are history variables: they say
when the code makes no promise, and no action's outcome depends on them but `ChangeCases`, which may
meet a type read before an edit.

## 8. Runs

`CHECK_DEADLOCK FALSE` everywhere: clock, ids and crashes are bounded, so a
run ends. `Null` and the ids are model values; workers, orders and identities are symmetric
in the safety runs of `Billing`, `Submission` and `SignUp`.

| Run | Question | Bounds |
|---|---|---|
| `billing_serial` | with one request at a time, does an applied subscription keep its plan, is paid time kept, is a refunded amount ever forgotten? | 2 orders, 1 coupon, 1 worker, refunds, a trial, 4 days, 1 crash |
| `billing_race` | do activation, refund and dispute races respect exactly-once, the abstract life cycle and the lock order? | 2 orders, 2 workers, a trial, 2 days, 1 crash |
| `billing_admin` | with grants, downgrades, revokes and coupons and without reversals, is access backed, no longer than what is in force provides, and never lowered by an activation? | 2 orders, 1 grant, 1 coupon, 2 workers, 3 days, 1 crash |
| `billing_live` | is every captured order settled, does every request end? | 2 orders (one legacy), 2 prices, 2 workers, 1 crash |
| `refund_activation_race` | a refund while another order is activated: does an applied subscription keep its plan? **Violated.** | 2 orders, 2 workers |
| `stacked_refund` | the first of two stacked orders is refunded: is the access left paid for? **Violated.** | 2 orders, 1 worker |
| `trials_window` | does the launch window keep what its documentation says of trials? | 2 aliases of a mailbox, 1 sign-up, 1 admin, windows of 2 and 3 instants, 3 instants |
| `submission` | do limiter, sandbox, attempts, streak and solutions agree when requests of one user race and one statement or the server fails? | 3 requests, 2 problems (one paid), limit 2, failure threshold 2, 3 days, 1 fault |
| `streak_race` | two accepted submissions on the day after another one: does the streak count days? **Violated.** | 3 requests, 3 days |
| `signup` | can a code be guessed, an account be had without its mailbox, or change hands? | 2 workers, 1 code, 3 spellings of 2 mailboxes, 2 Google identities, 2 attempts, limit 1, 1 fault |
| `site` | staff rights, comments and votes, waitlist, coupons, old orders, Spark and sandboxes | 2 workers; 2 staff accounts, 4 days; 3 comments on 2 problems; 2 addresses; 3 codes, 1 clerk; 1 order of price 2, 2 refunds, 3 prices; 3 jobs on 2 threads, 3 sessions; 2 runs |
| `content` | deletions against schedule, material and saves; publication; free tier; usernames; leaderboard; verdicts | schedule: 2 problems, 3 dates, 1 day kept; authors: 1 problem, 2 workers, 2 codes, 2 versions of the data; 3 members, 2 names and the empty one; results of up to 2 rows |

Why these bounds: a billing race in this code is between two transactions of one user
(row locks isolate users from each other), so two workers and one user show every pair of handlers; two orders and a
grant show stacking on a stacked end; durations of one and two days in a horizon of three or four show every order of
expiries, the boundary days included; one crash or restart can fall at every
point of a request. Users share only the failure counter of the limiter, whose value no
property depends on; three requests are one more than the limit and two more than a
streak needs for a race on the day after its first day. Two workers show every pair of
requests that guess one code, and a third spelling an account that is not of the mailbox. Three
comments are a thread of two and one beside it; three jobs on two threads are one that runs
on after its time, one that shares the pool with it and one that comes later, with two sessions to lose; two problems and
three dates show a day before, on and after the one that is cleaned. Three members are the
fewest with a tie and one ahead of it. Two rows are the fewest that can be out of order or hold
None where they differ. The authors' problem is published from the start and has datasets or test
cases, of two of the three kinds: whether it is active and which of the two it has changes no
request that races with its deletion, and the third kind, sql, saves like dsa without a run. The two halves of `Profiles` are bounded apart: where
the names are tried nothing is solved, and where the leaderboard is, one form at a time is open and a
name once given stays.
Workers and codes are symmetric in `content`.

Known limits, each visible by widening one constant: two sign-ups of one mailbox at once both get
a trial, and two admins saving the launch window at once leave trials behind (section 4); two
coupon generations at once give an address a coupon each (`Clerks`); with lifetime plans on sale in
`billing_serial` and three orders, refunding a lifetime order points its user at a yearly order
that was activated under it, ranks above an older monthly one and ends before it, and nothing
points back when it ends (`_recompute_user_plan` orders by rank first).

Where the code does less than a line of the repository says: a refund leaves the refunded days in an
order stacked on the refunded one, though `revoke_subscription` is to "end the access an order gave"
(`stacked_refund`); a refund may overwrite an activation (`refund_activation_race`); racing submissions
count a day twice (`streak_race`). Three more are written into the properties as exceptions, with
no run of their own: a save of the launch window may give back a trial that ended since it read the
clock, though its docstring says that it does not "hand out trials again"
(`payments/subscription_service.py`:482); a failed lookup of the mailbox gives a second trial, though
:566 says "only once per mailbox"; a problem scheduled for a day far back may be shown and
then cleaned away unpublished, though `user/router.py`:45 says "permanently publish". And
`GuessesBounded` is looser than "max MAX_OTP_ATTEMPTS" (`auth/otp_handler.py`:25) by the number of requests served at once.

`EndedForGood` leaves out rows without a stored amount: with the price raised before their refund
and lowered before their success, the full refund counts as a partial one. Nor does it speak of
several refunds: each event is compared with the whole price and GREATEST keeps the larger amount,
so an order given back in two refunds keeps its access, though the docstring of the handler
(`payments/cashfree_legacy.py`:53) promises that a fully refunded order loses it.

`BackedAccess`, `AppliedKeepsAccess` and `AccessIsPaidFor` are checked where they hold (no reversals, or,
for the second, one request at a time); `refund_activation_race` shows that `_recompute_user_plan` reads and
writes without the user's lock. `AppliedKeepsAccess` is checked without grants: an administrator
may shorten a plan. `OutputOfCode` leaves out problems whose type was edited, and says nothing
of the data: an edited dataset leaves the cached output as it is.

Fairness (`billing_live` only): a running request is given its turns and Postgres
hands a row lock to its waiters in order (strong fairness of `Continue`); Postgres
resolves deadlocks (weak fairness of `DeadlockVictim`); Razorpay redelivers
`payment.captured` until it is answered, and at least once while the order can still
be activated (strong fairness of `CapturedWebhook`). `PaidIsSettled` leaves out
legacy orders: they compare with the current price and a price change does
refuse them.

## 9. What the properties say

Each property is stated in words above its definition. The mutants in
`PROJECT.json` show for every one of them a plausible bug that breaks it: no re-check
of the status in the claim, users read without FOR UPDATE, a trial or a running
plan ignored, one guess too many, the address of a code not compared, `provider_id`
overwritten, foreign keys without REFERENCES, an edit that keeps the output of the former code, a
publication of today only, a leaderboard ordered by rank alone, an expected result left
unsorted, and so on. Next to the operator it changes stands the *mutated form*; no action uses it.

## 10. Proofs

A theorem assumes the named assumption of its module, and what its statement has before
`Spec`; none of the bounds of section 8 is in them. The hypotheses are about what is asked for, not
about sizes:

| Hypothesis | Theorems | Without it |
|---|---|---|
| `NoReversals` | `AppliedAccessKept` | `refund_activation_race`: a refund writes over an activation |
| `NoReversals`, or `OneWorker` | `AccessIsBacked` | the same |
| `NoReversals`, or `OneWorker` and `LifetimeByCoupon`; `NoGrants` | `PaidTimeStays` | the same; a downgrade discards paid days |
| `NoReversals`, `NoGrants`, `NoFirstTrials` | `AccessPaidFor` | refunded days stay in a stacked end (`stacked_refund`); the theorem counts orders only, the run grants and coupons too |
| `NoGrants` | `AppliedAccessKept`, `SerialAccessKept` | an administrator may shorten a plan |
| `OneWorker` | `SerialAccessKept` | `refund_activation_race` |
| `LifetimeByCoupon` | `SerialAccessKept` | the refund of a lifetime order (section 8, known limits) |
| `OnlyLifetime` | `NoDeadlock` | a revocation locks the user before the subscriptions; `DeadlockVictim` ends it |
| `OneSignup`; `OneAdmin` | `OneTrial`; `GlobalTrialsFollow`, `WindowKeepsStart` | section 4 |
| `~LateNights` | `StreaksKept` | section 5 |
| `OneClerk` | `OneCouponLeft` | two generations at once give a coupon each |

`BillingProofs` (`Inductive`, `TypeCorrect`, `AtMostOnce`). `ExactlyOnce` is not inductive by
itself. That a claimed order is still claimable
when its activation commits needs that rows are locked by one request at a
time (`LocksExclusive`) and that every other writer of a status needs the lock;
that a grant or coupon row is activated once needs that its id belongs to one
request (`NewIdsExclusive`) and that an unused coupon has no row (`UnusedCoupons`). `ActivateInv` adds
that what a request computed from the user's row still holds when it commits. `IInv` is
the conjunction, in `BillingInvariant`. The proof has a lemma per action; `KeepsTxnInv`
reduces the obligation on the requests that did not move to the few facts they depend on.

On it rest, with a second invariant `RowsInv` (`RowsKnown`), the other theorems of the module:

* `KeepsLifecycle`: `Billing` implements `OrderLifecycle`. Each action is shown to map to a step of
  an order's life or to none; the history variable of the abstract module follows `activations`.
* `ActivationsRaise`: the plan an activation is about to write was computed under the user's lock
  (`ActivateInv`), a timed plan has an end (`EndsKnown`) and a trial is over once a plan was
  in force (`TrialsEnded`); so what is committed covers what the user has at that moment.
* `RefundsRemembered`: every writer of `refunded_amount` takes the greater of two amounts.
* `NoDeadlock`: in a circle of waiting requests one would hold a user and want subscriptions
  (`WaitingOrder`): all others take the user last. Only a grant that revokes does that, and an
  admin who gives lifetime plans never revokes, since no plan is higher (`RevokesNothing`).
  `DeadlocksNeedRevocation` is what holds with no hypothesis: every circle contains such a grant.
* `TrialsOnlyEnd`: every step of the billing leaves the trial of a user as it is or ends it, and
  who is on a plan has none running. It justifies the steps that `Trials` takes for the billing.
* `AccessIsBacked`: with no reversal under way (`NothingReversed`), a row in force keeps status, plan
  and end, unless a grant for its user revokes it (`RowStays`); and whatever gives a user a plan,
  that grant included, puts a row with the same plan and end in force (`GivenRowHeld`). With
  reversals and one request at a time, the row that a reversal found in force is still held when
  its plan is written (`BestStillHeld`): nobody else moves in between, and the row found is
  not the one taken back.
* `AppliedAccessKept` and `SerialAccessKept` from `AppliedCovered`: the plan a user holds covers,
  in rank and in time, every applied subscription in force. With reversals this survives only
  if what `_recompute_user_plan` picks covers what it leaves (`BestKnown`), that is, if a higher
  plan in force ends no earlier than the lower ones under it (`HigherLastLonger`). Stacking makes
  it so for a year over months (`YearsApplied`), and coupons because they are never reversed
  (`CouponsLast`). `SerialInv` is the conjunction.
* `PaidTimeStays`: that all the orders kept reach their durations laid end to end is not inductive,
  since a reversal may take out any of them. `KeptInTurn` says it of every subset of them; an
  activation keeps it because it ends its own duration after each order kept so far
  (`StacksOnKept`), those that have ended since included (`ExpiredOver`). Durations are added by
  counting rows (`Duration`), so `FinitelyMany` is a part of the invariant: however many ids there
  are, only finitely many rows have been given or are held.
* `AccessPaidFor`: what is in force today may have ended when the plan's end comes nearer, so the
  invariant compares the end with what is in force on every day to come (`PaidAhead`). An
  activation moves the end by its duration and adds a row that is in force on all those days.

`TrialsProofs` (`Inductive`, `TypeCorrect`, `SignupTrialsKept`, `SignupTrialsEnd`; `OneTrial`,
`PaidTrialsEnd`, `GlobalTrialsFollow`, `WindowKeepsStart`). A save
commits to rows it selected earlier, so the
invariant says that no row a save holds is one with a signup trial (`RowsHeld`) and
that no such row is about to become one: the user in a sign-up is served by one request
and has no signup trial yet (`SignupInFlight`). The other theorems add what the sign-up knows of its
mailbox, unless its lookup failed (`MailboxInv`: `FirstOfMailbox`); that a paid user in the rows of a
save had a trial when the save read the clock (`PaidInv`: `RowsSeen`, with `SavesExclusive`, since
saves wait for each other at the one row of `core.launch_config`), which is all that can put a trial behind a plan
again; and that a save still has the configuration it read (`WindowInv`, under `OneAdmin`).

`SubmissionProofs` (`Inductive`, `TypeCorrect`, `SolvedAreAttempted`, `SandboxesDropped`,
`CountersExpire`, `LimitHolds`, `StreaksPaid` and, under `~LateNights`, `StreaksKept`).

* `TaskInv`: what one request knows. A request past its attempt has it on record;
  `sandboxes` holds a request exactly while it has a schema to drop.
* `RecordInv`: a streak is no longer than the accepted attempts whose requests have
  already been through the streak (`Seen`). `StreakPaid` alone is not inductive: a
  writer adds a day and must bring an attempt that was not counted, which is its own.
* `LimiterInv`: at most one request has an EXPIRE outstanding, it has not been
  counted as let through, and `passed` never exceeds the counter.
* `DayInv`: rows read before the first write of the day are all alike, and a
  write from a row older than yesterday's starts the streak anew; so a late writer
  can only repeat what the first one wrote or add to it.

`SignUpProofs` (`SignUpInductive`, `BruteForceBound`, `MailboxWasProved`, `IdentityKept`). The bound on guesses counts ahead: guesses compared plus the requests that passed
the test of the counter and will still compare (`Pending`, `Bounded`) never exceed
`MAX_OTP_ATTEMPTS - 1` plus the number of requests served at once. It holds because the counter
of a live code equals the guesses compared (`Counted`), until the code is gone and nobody
new can get past `ReadStored`. `Shown` carries what the comparison has shown through the
deletions to the account or the token.

`CommunityProofs` (`CommunityInductive`, `CommentsShown`, `VotesHaveRows`). `TwoLevels`: the parent
of a comment is a top-level comment of its problem. It is kept by an insertion that read
its parent long ago because ids are given out once (`IdsSpent`) and the parent, if it still
exists, is the one that was read (`ParentsRead`).

`SiteProofs` has three components. `Inbox` (`InboxInductive`, `ApprovedListed`): entries keep
their address (`AddressesKept`) and what a request has whitelisted stays there or was struck off
(`ListedStays`). `Staff` (`StaffInductive`, `RightsEnd`): bcrypt lies between the row a sign-in
read and its token, and midnight may fall between them, so a token proves the role of the day
before it was issued (`TokensEarned`, `SignInsEarned`). `Runners` (`RunnersInductive`,
`ExecutionsApart`): while the session lives, a view is of a job on a thread that has its
clean-up to come (`ViewsOwned`), and a job that meets another on the threads is marked
(`PoolShared`), so who is alone finds no view but its own: what it reads of others was saved. A
process or database is there only while its run is, or the taking down failed (`RunsOwn`).

`ContentProofs` (`ContentInductive`, `NothingIsLeft`, `OutputsGoWithCode`; `OpenInductive`,
`ListAndGateAgree`, `PublishedStays`). Ids are given out once
and a save works on one of them (`IdsGiven`); the rows a deletion holds are still there
(`LockedRowsStand`); an output goes with its code and only with python or pyspark, in the table
(`SolutionsFit`) and in the hands of a save (`SavesFit`). The latter is why an edit that keeps the
output of a row never mixes it with another kind. A second invariant adds that every problem has
its number (`Numbered`), which is all that makes the list agree with the gates, and that whatever
the cleaning of a request may drop was published by that request, or withdrawn by an admin
since, or is on a day scheduled far back since (`Published`, `backdated`): midnight strikes at most once between its two statements, and the schedule keeps at
least a day.

`MembersProofs` (`PageOfTheirOwn`, `OnOnePage`, `OneCouponLeft`, `OverForGood`, `VerdictsFair`).
A form without a
name is only sent for an account that has one already (`FormsName`), and an account has the empty
name only if a form sent it (`BlanksSent`). A generation that found no
coupon is right until it inserts one (`FoundNone`): nothing else inserts, under `OneClerk` (one generation at a time).
`OrdersInv` keeps what an old order is compared with: with a stored amount that is its price in
every event (`StoredIsCharge`, `HandlerKnows`), so the refund of all of it is always taken for one
and leaves the order in no status that activation accepts (`StaysOver`).

The leaderboard is a matter of counting: everybody ahead of a member is ahead of whoever
the member is ahead of, so positions differ and, by the pigeonhole principle, fill
1 to the number of members (`PlacesTaken`). So are the verdicts. `sorted()` is given by the place of
each row: how many lie before it. Rows that compare are totally ordered (`LessOrders`), so the places
are a bijection (`PlacesFilled`), what is sorted ascends and has each row as often as before
(`SortedAscends`, `TimesKept`); and where two ascending results of the same rows first differed, the
lower row would be oftener in one of them (`LowerIsOftener`). Hence equal multisets are equal
once sorted, and only they are.

Only model-checked: liveness under fairness (`PaidIsSettled`, `RequestsFinish`), which is out of the
prover's reach. The two properties of the violated runs are not theorems, of course:
`AppliedKeepsAccess` is one under the hypotheses above, `StreakKept` says what is left of the other.

## 11. Not modelled

* The Razorpay test pages (`payments/razorpay_test_router.py`): opt-in, admin-only, and they never
  grant a plan.
* `execution/sql_dialect_generator.py`, `execution/validator.py`, `admin/dialect_validator.py`: text
  rewriting and syntax rules without state.
* `compare_dsa_results` (masking of hidden test cases), the conversion of cells, the
  restricted builtins of the runners.
* Metrics, dashboards, analytics pages: read only, nobody in the program acts upon them.
* Mail and image hosting: I/O. Whether a mail was sent is a choice in `MailCode`.
* Seeds, migrations other than that of usernames, and check scripts run by hand. Start-up DDL is
  idempotent; connection settings are taken as they are.
* Password hashing, token signatures and Google's answers are taken as they are.
