------------------------------- MODULE SignUp -------------------------------
(***************************************************************************)
(* Sign-up, sign-in and the administrator's one-time codes                 *)
(* (auth/router.py, auth/otp_handler.py, rate_limit_auth).                 *)
(*                                                                         *)
(* Every Redis command and SQL statement is a step of its own: requests of *)
(* one person, or of several, interleave between any two.                  *)
(***************************************************************************)
EXTENDS Integers, FiniteSets

CONSTANTS
    Workers,        \* requests served at once
    Sessions,       \* every state_id there will be
    Spellings,      \* e-mail addresses as typed
    Lower,          \* LOWER(email)
    Asking,         \* bound: the addresses codes are asked for
    Identities,     \* Google accounts (sub)
    AdminEmail,
    MaxAttempts,    \* MAX_OTP_ATTEMPTS
    Limit,          \* sign-ups an address may start in a window
    Threshold,      \* _REDIS_FAIL_THRESHOLD
    MaxFaults,      \* bound on crashes and failing Redis commands
    Null

ASSUME SignUpAssumption ==
    /\ Lower \in [Spellings -> Spellings] /\ \A e \in Spellings : Lower[Lower[e]] = Lower[e]
    /\ AdminEmail \in Spellings /\ Asking \subseteq Spellings
    /\ Null \notin Spellings /\ IsFiniteSet(Workers) /\ IsFiniteSet(Spellings)
    /\ MaxAttempts \in Nat \ {0} /\ Limit \in Nat /\ Threshold \in Nat /\ MaxFaults \in Nat
    /\ Null \notin Identities \cup Sessions \cup Nat

VARIABLES
    session,    \* Redis: otp:<id> (live) and otp_attempts:<id> (attempts, Null when absent)
    account,    \* core.users by its UNIQUE email; born orders created_at, 0 for no row
    hits,       \* Redis: auth_rate:otp:<email>
    failures,   \* _redis_failure_count
    task,       \* the request each worker serves
    compared,   \* guesses compared with the code of a session (history)
    admins,     \* sessions that gave an administrator's token (history)
    faults

vars == <<session, account, hits, failures, task, compared, admins, faults>>
limiter == <<hits, failures>>

----------------------------------------------------------------------------
NoSession == [email |-> Null, live |-> FALSE, attempts |-> Null, ttl |-> FALSE, known |-> FALSE]
NoAccount == [provider |-> "none", sub |-> Null, born |-> 0]
Idle == [pc |-> "idle", kind |-> "none", email |-> Null, sid |-> Null, right |-> FALSE,
         sub |-> Null, found |-> Null]

At(w, pc)   == task[w].pc = pc
Goto(w, pc) == task' = [task EXCEPT ![w].pc = pc]
Answer(w)   == task' = [task EXCEPT ![w] = Idle]
Sound       == UNCHANGED faults
Faulty      == faults < MaxFaults /\ faults' = faults + 1

SameMailbox(e, f) == Lower[e] = Lower[f]
Existing(e)       == {f \in Spellings : account[f].born > 0 /\ SameMailbox(e, f)}
Oldest(A)         == {f \in A : \A g \in A : account[f].born <= account[g].born}
Births            == Cardinality({f \in Spellings : account[f].born > 0})

Init ==
    /\ session = [s \in Sessions |-> NoSession]
    /\ account = [e \in Spellings |-> NoAccount]
    /\ hits = [e \in Spellings |-> [n |-> 0, expires |-> FALSE]]
    /\ failures = 0
    /\ task = [w \in Workers |-> Idle]
    /\ compared = [s \in Sessions |-> 0]
    /\ admins = {}
    /\ faults = 0

----------------------------------------------------------------------------
(* register, otp/send, admin/otp/send: a session and its code by mail *)

Begin(w, e, pc) ==
    /\ At(w, "idle")
    /\ task' = [task EXCEPT ![w] = [Idle EXCEPT !.pc = pc, !.email = e]]
    /\ Sound
    /\ UNCHANGED <<session, account, limiter, compared, admins>>

(* Bound: an address that was refused in a window does not ask again in it. *)
Register(w, e)     == hits[Lower[e]].n <= Limit /\ Begin(w, e, "incr")
SendOtp(w, e)      == Begin(w, e, "mint")
SendAdminOtp(w, e) == SameMailbox(e, AdminEmail) /\ Begin(w, e, "mint")

(* rate_limit_auth counts by the address in lower case. *)
Decide(w, n) ==
    /\ failures' = 0
    /\ IF n > Limit THEN Answer(w) ELSE Goto(w, "exists")

Incr(w) ==
    LET k == Lower[task[w].email]
        n == hits[k].n + 1
    IN
    /\ At(w, "incr")
    /\ hits' = [hits EXCEPT ![k].n = n]
    /\ IF n = 1 THEN Goto(w, "expire") /\ UNCHANGED failures ELSE Decide(w, n)
    /\ Sound
    /\ UNCHANGED <<session, account, compared, admins>>

Expire(w) ==
    /\ At(w, "expire")
    /\ hits' = [hits EXCEPT ![Lower[task[w].email]].expires = TRUE]
    /\ Decide(w, 1)
    /\ Sound
    /\ UNCHANGED <<session, account, compared, admins>>

(* Redis does not answer the limiter, though it may have done its part:    *)
(* from the threshold on the request is refused.                           *)
RedisFails(w) ==
    LET k == Lower[task[w].email] IN
    /\ \/ /\ At(w, "incr")
          /\ hits' \in {hits, [hits EXCEPT ![k].n = @ + 1]}
       \/ /\ At(w, "expire")
          /\ hits' \in {hits, [hits EXCEPT ![k].expires = TRUE]}
    /\ failures' = failures + 1
    /\ IF failures' >= Threshold THEN Answer(w) ELSE Goto(w, "exists")
    /\ Faulty
    /\ UNCHANGED <<session, account, compared, admins>>

CheckNew(w) ==
    /\ At(w, "exists")
    /\ IF Existing(task[w].email) # {} THEN Answer(w) ELSE Goto(w, "mint")
    /\ Sound
    /\ UNCHANGED <<session, account, limiter, compared, admins>>

Mint(w, s) ==
    /\ At(w, "mint")
    /\ session[s].email = Null
    /\ session' = [session EXCEPT ![s].email = task[w].email, ![s].live = TRUE]
    /\ task' = [task EXCEPT ![w].pc = "counter", ![w].sid = s]
    /\ Sound
    /\ UNCHANGED <<account, limiter, compared, admins>>

(* The counter of the session, then the mail: the state_id is only handed  *)
(* out once the mail was sent.                                             *)
MailCode(w, sent) ==
    LET s == task[w].sid IN
    /\ At(w, "counter")
    /\ session' = [session EXCEPT ![s].attempts = 0, ![s].ttl = TRUE, ![s].known = sent]
    /\ Answer(w)
    /\ Sound
    /\ UNCHANGED <<account, limiter, compared, admins>>

----------------------------------------------------------------------------
(* verify_otp_session, called by register/verify and admin/otp/verify *)

Verify(w, s, kind, e, right) ==
    /\ At(w, "idle")
    /\ session[s].known
    /\ kind \in {"signup", "admin"}
    /\ kind = "admin" => SameMailbox(e, AdminEmail)
    /\ task' = [task EXCEPT ![w] = [Idle EXCEPT !.pc = "attempts", !.kind = kind, !.email = e,
                                                !.sid = s, !.right = right]]
    /\ Sound
    /\ UNCHANGED <<session, account, limiter, compared, admins>>

(* Mutated form: one guess too many. *)
Exhausted2(s) == session[s].attempts # Null /\ session[s].attempts > MaxAttempts
Exhausted(s)  == session[s].attempts # Null /\ session[s].attempts >= MaxAttempts

ReadAttempts(w) ==
    /\ At(w, "attempts")
    /\ IF Exhausted(task[w].sid)
       THEN task' = [task EXCEPT ![w].pc = "dropCode", ![w].right = FALSE]
       ELSE Goto(w, "stored")
    /\ Sound
    /\ UNCHANGED <<session, account, limiter, compared, admins>>

ReadStored(w) ==
    /\ At(w, "stored")
    /\ IF session[task[w].sid].live THEN Goto(w, "guess") ELSE Answer(w)
    /\ Sound
    /\ UNCHANGED <<session, account, limiter, compared, admins>>

(* Mutated form: the address is not compared. *)
CodeOnly(w) == task[w].right
Matches(w)  == task[w].right /\ SameMailbox(task[w].email, session[task[w].sid].email)

(* INCR, which makes a counter without expiry when the session is gone. *)
Guess(w) ==
    LET s == task[w].sid
        old == session[s].attempts
    IN
    /\ At(w, "guess")
    /\ session' = [session EXCEPT ![s].attempts = IF old = Null THEN 1 ELSE old + 1]
    /\ compared' = [compared EXCEPT ![s] = @ + 1]
    /\ IF Matches(w) THEN Goto(w, "dropCode") ELSE Answer(w)
    /\ Sound
    /\ UNCHANGED <<account, limiter, admins>>

DropCode(w) ==
    /\ At(w, "dropCode")
    /\ session' = [session EXCEPT ![task[w].sid].live = FALSE]
    /\ Goto(w, "dropCounter")
    /\ Sound
    /\ UNCHANGED <<account, limiter, compared, admins>>

DropCounter(w) ==
    /\ At(w, "dropCounter")
    /\ session' = [session EXCEPT ![task[w].sid].attempts = Null, ![task[w].sid].ttl = FALSE]
    /\ IF task[w].right THEN Goto(w, "verified") ELSE Answer(w)
    /\ Sound
    /\ UNCHANGED <<account, limiter, compared, admins>>

(* verify_admin_otp: the token with is_admin *)
AdminToken(w) ==
    /\ At(w, "verified") /\ task[w].kind = "admin"
    /\ admins' = admins \cup {task[w].sid}
    /\ Answer(w)
    /\ Sound
    /\ UNCHANGED <<session, account, limiter, compared>>

(* register_verify: only now the password is looked at and the address     *)
(* looked for.                                                             *)
CheckSignup(w, longEnough) ==
    /\ At(w, "verified") /\ task[w].kind = "signup"
    /\ IF longEnough /\ Existing(task[w].email) = {} THEN Goto(w, "insert") ELSE Answer(w)
    /\ Sound
    /\ UNCHANGED <<session, account, limiter, compared, admins>>

(* INSERT under UNIQUE(email), which tells spellings apart. *)
NewAccount(e, provider, g) ==
    account' = IF account[e].born > 0 THEN account
               ELSE [account EXCEPT ![e] = [provider |-> provider, sub |-> g,
                                            born |-> Births + 1]]

InsertUser(w) ==
    /\ At(w, "insert")
    /\ NewAccount(task[w].email, "email", Null)
    /\ Answer(w)
    /\ Sound
    /\ UNCHANGED <<session, limiter, compared, admins>>

----------------------------------------------------------------------------
(* google_callback, once Google confirmed that g owns the address e *)

Google(w, g, e) ==
    /\ At(w, "idle")
    /\ e = Lower[e]
    /\ \E found \in IF Existing(e) = {} THEN {Null} ELSE Oldest(Existing(e)) :
           /\ found # Null => account[found].sub \in {Null, g}
           /\ task' = [task EXCEPT ![w] = [Idle EXCEPT !.pc = "google", !.email = e, !.sub = g,
                                                       !.found = found]]
    /\ Sound
    /\ UNCHANGED <<session, account, limiter, compared, admins>>

(* COALESCE(provider_id, g).  Mutated form: provider_id = g. *)
SetSub(old, g)  == g
KeepSub(old, g) == IF old = Null THEN g ELSE old

LinkOrCreate(w) ==
    LET f == task[w].found
        g == task[w].sub
    IN
    /\ At(w, "google")
    /\ IF f = Null THEN NewAccount(task[w].email, "google", g)
       ELSE account' = [account EXCEPT ![f].sub = KeepSub(@, g)]
    /\ Answer(w)
    /\ Sound
    /\ UNCHANGED <<session, limiter, compared, admins>>

----------------------------------------------------------------------------
(* The keys of a session get the same expiry one after the other. *)
LapseCode(s) ==
    /\ session[s].live
    /\ session' = [session EXCEPT ![s].live = FALSE]
    /\ UNCHANGED <<account, limiter, task, compared, admins, faults>>

LapseCounter(s) ==
    /\ session[s].ttl /\ ~session[s].live
    /\ session' = [session EXCEPT ![s].attempts = Null, ![s].ttl = FALSE]
    /\ UNCHANGED <<account, limiter, task, compared, admins, faults>>

LapseHits(e) ==
    /\ hits[e].expires
    /\ hits' = [hits EXCEPT ![e] = [n |-> 0, expires |-> FALSE]]
    /\ UNCHANGED <<session, account, failures, task, compared, admins, faults>>

Crash ==
    /\ Faulty
    /\ task' = [w \in Workers |-> Idle]
    /\ failures' = 0
    /\ UNCHANGED <<session, account, hits, compared, admins>>

Serve(w) ==
    \/ \E e \in Asking : Register(w, e) \/ SendOtp(w, e) \/ SendAdminOtp(w, e)
    \/ Incr(w) \/ Expire(w) \/ RedisFails(w) \/ CheckNew(w)
    \/ \E s \in Sessions : Mint(w, s)
    \/ \E sent \in BOOLEAN : MailCode(w, sent)
    \/ \E s \in Sessions, kind \in {"signup", "admin"}, e \in Spellings, right \in BOOLEAN :
           Verify(w, s, kind, e, right)
    \/ ReadAttempts(w) \/ ReadStored(w) \/ Guess(w) \/ DropCode(w) \/ DropCounter(w)
    \/ AdminToken(w)
    \/ \E longEnough \in BOOLEAN : CheckSignup(w, longEnough)
    \/ InsertUser(w)
    \/ \E g \in Identities, e \in Spellings : Google(w, g, e)
    \/ LinkOrCreate(w)

Next ==
    \/ \E w \in Workers : Serve(w)
    \/ \E s \in Sessions : LapseCode(s) \/ LapseCounter(s)
    \/ \E e \in Spellings : LapseHits(e)
    \/ Crash

Spec == Init /\ [][Next]_vars

----------------------------------------------------------------------------
Pcs == {"idle", "incr", "expire", "exists", "mint", "counter", "attempts", "stored", "guess",
        "dropCode", "dropCounter", "verified", "insert", "google"}

(* Every variable has the shape Redis, Postgres and the handlers give it.  *)
TypeOK ==
    /\ session \in [Sessions -> [email : Spellings \cup {Null}, live : BOOLEAN, ttl : BOOLEAN,
                                 attempts : Nat \cup {Null}, known : BOOLEAN]]
    /\ account \in [Spellings -> [provider : {"none", "email", "google"},
                                  sub : Identities \cup {Null}, born : Nat]]
    /\ hits \in [Spellings -> [n : Nat, expires : BOOLEAN]]
    /\ failures \in Nat /\ faults \in Nat
    /\ task \in [Workers -> [pc : Pcs, kind : {"none", "signup", "admin"},
                             email : Spellings \cup {Null}, sid : Sessions \cup {Null},
                             right : BOOLEAN, sub : Identities \cup {Null},
                             found : Spellings \cup {Null}]]
    /\ compared \in [Sessions -> Nat]
    /\ admins \subseteq Sessions

(* Brute-force protection (otp_handler.py, MAX_OTP_ATTEMPTS): the counter  *)
(* is read before it is incremented, so each other request served at that  *)
(* moment may slip in one more guess, and no request may slip in two.      *)
GuessesBounded == \A s \in Sessions : compared[s] <= MaxAttempts - 1 + Cardinality(Workers)

(* A password account and an administrator's token always go back to a     *)
(* code mailed to that very mailbox, in whatever spelling, and by then the *)
(* code is spent (register_verify, verify_admin_otp).                      *)
Proved(e) == \E s \in Sessions : /\ session[s].known /\ ~session[s].live
                                 /\ SameMailbox(session[s].email, e)
MailboxProved ==
    /\ \A e \in Spellings : account[e].provider = "email" => Proved(e)
    /\ \A s \in admins : SameMailbox(session[s].email, AdminEmail) /\ ~session[s].live

(* A row never changes hands: no sign-up or callback replaces the Google   *)
(* identity, the provider or the age of an account that has one, not even  *)
(* the callback that read the row before another one linked it.            *)
SubKept == [][\A e \in Spellings : account[e].born > 0 =>
                 /\ account'[e].born = account[e].born
                 /\ account'[e].provider = account[e].provider
                 /\ account[e].sub # Null => account'[e].sub = account[e].sub]_vars
=============================================================================
