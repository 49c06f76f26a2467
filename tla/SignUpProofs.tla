---------------------------- MODULE SignUpProofs ----------------------------
(***************************************************************************)
(* Theorems about SignUp, for every number of sessions, addresses, Google  *)
(* identities and requests at once, and every MAX_OTP_ATTEMPTS.            *)
(***************************************************************************)
EXTENDS SignUp, FiniteSetTheorems, TLAPS

----------------------------------------------------------------------------
(* The invariant *)

SessionRow == [email : Spellings \cup {Null}, live : BOOLEAN, ttl : BOOLEAN,
               attempts : Nat \cup {Null}, known : BOOLEAN]
AccountRow == [provider : {"none", "email", "google"}, sub : Identities \cup {Null}, born : Nat]
TaskRow == [pc : Pcs, kind : {"none", "signup", "admin"}, email : Spellings \cup {Null},
            sid : Sessions \cup {Null}, right : BOOLEAN, sub : Identities \cup {Null},
            found : Spellings \cup {Null}]

Verifying  == {"attempts", "stored", "guess", "dropCode", "dropCounter", "verified", "insert"}
AfterCheck == {"dropCounter", "verified", "insert"}

(* What a request works on: a session of its own until the code is mailed, *)
(* one whose id was handed out afterwards.                                 *)
TasksNamed ==
    \A w \in Workers :
        /\ task[w].pc # "idle" => task[w].email \in Spellings
        /\ task[w].pc \in Verifying =>
               /\ task[w].sid \in Sessions /\ session[task[w].sid].known
               /\ task[w].kind \in {"signup", "admin"}
        /\ task[w].pc = "counter" =>
               /\ task[w].sid \in Sessions
               /\ ~session[task[w].sid].known /\ session[task[w].sid].email # Null
        /\ task[w].pc = "insert" => task[w].kind = "signup"

OneMinter ==
    \A v, w \in Workers : task[v].pc = "counter" /\ task[w].pc = "counter"
                             /\ task[v].sid = task[w].sid => v = w

(* The counter of a live code counts its guesses. *)
Counted ==
    \A s \in Sessions :
        /\ session[s].known => session[s].email # Null
        /\ session[s].known /\ session[s].live => session[s].attempts = compared[s]
        /\ ~session[s].known => compared[s] = 0

(* Requests past the test of the counter that will still guess. *)
Pending(s) ==
    {w \in Workers : task[w].sid = s /\ \/ task[w].pc = "guess"
                                        \/ task[w].pc = "stored" /\ session[s].live}
Bounded == \A s \in Sessions :
    compared[s] + Cardinality(Pending(s)) <= MaxAttempts - 1 + Cardinality(Workers)

(* What a request that goes on after the comparison has shown. *)
Shown ==
    \A w \in Workers :
        /\ task[w].pc \in Verifying /\ task[w].kind = "admin" => SameMailbox(task[w].email, AdminEmail)
        /\ task[w].pc \in AfterCheck => ~session[task[w].sid].live
        /\ task[w].pc \in {"verified", "insert"} => task[w].right
        /\ task[w].pc \in {"dropCode", "dropCounter", "verified", "insert"} /\ task[w].right =>
               SameMailbox(task[w].email, session[task[w].sid].email)

AdminsKnown == \A s \in admins : session[s].known

RowsBorn == \A e \in Spellings : account[e].provider = "email" => account[e].born > 0

IInv == /\ TypeOK /\ TasksNamed /\ OneMinter /\ Counted /\ Bounded
        /\ Shown /\ AdminsKnown /\ RowsBorn /\ MailboxProved

----------------------------------------------------------------------------
(* Operators *)

LEMMA IdleType == /\ Idle \in TaskRow /\ Idle.pc = "idle" /\ Idle.email = Null
                  /\ Idle.sid = Null /\ ~Idle.right
BY DEF Idle, TaskRow, Pcs

LEMMA PendingFinite ==
    ASSUME NEW s \in Sessions
    PROVE  /\ IsFiniteSet(Pending(s)) /\ Cardinality(Pending(s)) \in Nat
           /\ Cardinality(Pending(s)) <= Cardinality(Workers) /\ Cardinality(Workers) \in Nat
<1>1. IsFiniteSet(Workers) BY SignUpAssumption
<1>2. Pending(s) \subseteq Workers BY DEF Pending
<1>3. QED BY <1>1, <1>2, FS_Subset, FS_CardinalityType

LEMMA PendingShrinks ==
    ASSUME NEW s \in Sessions, IsFiniteSet(Pending(s)), Pending(s)' \subseteq Pending(s)
    PROVE  Cardinality(Pending(s)') <= Cardinality(Pending(s)) /\ Cardinality(Pending(s)') \in Nat
BY FS_Subset, FS_CardinalityType

LEMMA BirthsType == Births \in Nat
<1>1. {f \in Spellings : account[f].born > 0} \subseteq Spellings OBVIOUS
<1>2. QED BY <1>1, SignUpAssumption, FS_Subset, FS_CardinalityType DEF Births

----------------------------------------------------------------------------
(* Steps that compare nothing: they let no further request guess.          *)
LEMMA BoundedKept ==
    ASSUME TypeOK, Bounded, UNCHANGED compared,
           \A s \in Sessions : Pending(s)' \subseteq Pending(s)
    PROVE  Bounded'
<1> SUFFICES ASSUME NEW s \in Sessions
             PROVE  compared[s] + Cardinality(Pending(s)') <= MaxAttempts - 1 + Cardinality(Workers)
  BY DEF Bounded
<1>1. Cardinality(Pending(s)') <= Cardinality(Pending(s)) /\ Cardinality(Pending(s)') \in Nat
  BY PendingFinite, PendingShrinks
<1>2. compared[s] \in Nat BY DEF TypeOK
<1>3. compared[s] + Cardinality(Pending(s)) <= MaxAttempts - 1 + Cardinality(Workers)
  BY DEF Bounded
<1>4. QED BY <1>1, <1>2, <1>3, PendingFinite, SignUpAssumption

(* What a code proved, no step takes back. *)
LEMMA MailboxKept ==
    ASSUME TypeOK, AdminsKnown, MailboxProved, admins' = admins,
           \A e \in Spellings : account'[e].provider = "email" => account[e].provider = "email",
           \A s \in Sessions : session[s].known =>
               /\ session'[s].known /\ session'[s].email = session[s].email
               /\ session'[s].live => session[s].live
    PROVE  MailboxProved' /\ AdminsKnown'
<1>1. admins \subseteq Sessions BY DEF TypeOK
<1>2. AdminsKnown' BY <1>1 DEF AdminsKnown
<1>3. ASSUME NEW e \in Spellings, account'[e].provider = "email" PROVE Proved(e)'
  BY <1>3 DEF MailboxProved, Proved, SameMailbox
<1>4. ASSUME NEW s \in admins PROVE (SameMailbox(session[s].email, AdminEmail) /\ ~session[s].live)'
  BY <1>1 DEF MailboxProved, AdminsKnown, SameMailbox
<1>5. QED BY <1>2, <1>3, <1>4 DEF MailboxProved

LEMMA InitInv == Init => IInv
<1> SUFFICES ASSUME Init PROVE IInv OBVIOUS
<1> USE DEF Init
<1>1. TypeOK
  BY IdleType, SignUpAssumption DEF TypeOK, TaskRow, NoSession, NoAccount
<1>2. TasksNamed /\ OneMinter /\ Shown BY IdleType DEF TasksNamed, OneMinter, Shown, Verifying, AfterCheck
<1>3. Counted /\ AdminsKnown BY DEF Counted, AdminsKnown, NoSession
<1>4. RowsBorn /\ MailboxProved BY DEF RowsBorn, MailboxProved, NoAccount
<1>5. Bounded
  <2> SUFFICES ASSUME NEW s \in Sessions
               PROVE  compared[s] + Cardinality(Pending(s)) <= MaxAttempts - 1 + Cardinality(Workers)
    BY DEF Bounded
  <2>1. Pending(s) = {} BY IdleType DEF Pending
  <2>2. QED BY <2>1, FS_EmptySet, PendingFinite, SignUpAssumption
<1>6. QED BY <1>1, <1>2, <1>3, <1>4, <1>5 DEF IInv

(* A request that moves on without touching sessions or accounts, and ends *)
(* or gets ready for a later step that needs nothing of a session.         *)
Neutral == {"idle", "incr", "expire", "exists", "mint", "google"}

LEMMA NeutralInv ==
    ASSUME IInv, TypeOK', UNCHANGED <<session, account, compared, admins>>,
           \A v \in Workers : \/ task'[v] = task[v]
                              \/ /\ task'[v].pc \in Neutral
                                 /\ task'[v].pc # "idle" => task'[v].email \in Spellings
    PROVE  IInv'
<1> USE DEF IInv
<1>1. TasksNamed' BY DEF TasksNamed, Verifying, Neutral
<1>2. OneMinter' BY DEF OneMinter, Neutral
<1>3. Counted' /\ AdminsKnown' /\ RowsBorn' BY DEF Counted, AdminsKnown, RowsBorn
<1>4. Shown' BY DEF Shown, Verifying, AfterCheck, Neutral, SameMailbox
<1>5. MailboxProved' BY DEF MailboxProved, Proved, SameMailbox
<1>6. \A s \in Sessions : Pending(s)' \subseteq Pending(s) BY DEF Pending, Neutral
<1>7. Bounded' BY <1>6, BoundedKept
<1>8. QED BY <1>1, <1>2, <1>3, <1>4, <1>5, <1>7

(* The same for one request. *)
LEMMA NeutralStep ==
    ASSUME IInv, UNCHANGED <<session, account, compared, admins>>,
           hits' \in [Spellings -> [n : Nat, expires : BOOLEAN]], failures' \in Nat, faults' \in Nat,
           NEW w \in Workers, NEW t \in TaskRow, task' = [task EXCEPT ![w] = t],
           t.pc \in Neutral, t.pc # "idle" => t.email \in Spellings
    PROVE  IInv'
<1>1. task \in [Workers -> TaskRow] BY DEF IInv, TypeOK, TaskRow
<1>2. task' \in [Workers -> TaskRow] BY <1>1
<1>3. TypeOK' BY <1>2 DEF IInv, TypeOK, TaskRow
<1>4. \A v \in Workers : task'[v] = IF v = w THEN t ELSE task[v] BY <1>1
<1>5. QED BY <1>3, <1>4, NeutralInv

LEMMA GotoType ==
    ASSUME TypeOK, NEW w \in Workers, NEW pc \in Pcs
    PROVE  /\ task[w] \in TaskRow /\ [task[w] EXCEPT !.pc = pc] \in TaskRow
           /\ Goto(w, pc) => task' = [task EXCEPT ![w] = [task[w] EXCEPT !.pc = pc]]
<1>1. task[w] \in TaskRow BY DEF TypeOK, TaskRow
<1>2. [task[w] EXCEPT !.pc = pc] \in TaskRow BY <1>1 DEF TaskRow
<1>3. QED BY <1>1, <1>2 DEF Goto

LEMMA FaultsType == ASSUME TypeOK, Sound \/ Faulty PROVE faults' \in Nat
BY DEF TypeOK, Sound, Faulty

(* A request that goes on, or ends, in the neutral part of its way. *)
LEMMA MovesOn ==
    ASSUME IInv, UNCHANGED <<session, account, compared, admins>>, Sound \/ Faulty,
           hits' \in [Spellings -> [n : Nat, expires : BOOLEAN]], failures' \in Nat,
           NEW w \in Workers, task[w].pc # "idle",
           Answer(w) \/ Goto(w, "expire") \/ Goto(w, "exists") \/ Goto(w, "mint")
    PROVE  IInv'
<1>1. TypeOK BY DEF IInv
<1>2. task[w].email \in Spellings BY DEF IInv, TasksNamed
<1>3. faults' \in Nat BY <1>1, FaultsType
<1>4. CASE Answer(w) BY <1>3, <1>4, IdleType, NeutralStep DEF Answer, Neutral
<1>5. ASSUME NEW pc \in {"expire", "exists", "mint"}, Goto(w, pc) PROVE IInv'
  <2> DEFINE t == [task[w] EXCEPT !.pc = pc]
  <2>1. pc \in Pcs BY DEF Pcs
  <2>2. t \in TaskRow /\ task' = [task EXCEPT ![w] = t] /\ task[w] \in TaskRow
    BY <1>1, <1>5, <2>1, GotoType
  <2>3. t.pc = pc /\ t.email = task[w].email BY <2>2 DEF TaskRow
  <2> HIDE DEF t
  <2>4. QED BY <1>2, <1>3, <2>2, <2>3, NeutralStep DEF Neutral
<1>6. QED BY <1>4, <1>5

----------------------------------------------------------------------------
(* The actions: a session is asked for *)

LEMMA BeginInv ==
    ASSUME IInv, NEW w \in Workers, NEW e \in Spellings,
           Register(w, e) \/ SendOtp(w, e) \/ SendAdminOtp(w, e)
    PROVE  IInv'
<1>1. PICK pc \in {"incr", "mint"} : Begin(w, e, pc)
  BY DEF Register, SendOtp, SendAdminOtp
<1> DEFINE t == [Idle EXCEPT !.pc = pc, !.email = e]
<1>2. t \in TaskRow /\ t.pc = pc /\ t.email = e BY IdleType DEF TaskRow, Pcs
<1>3. task' = [task EXCEPT ![w] = t] BY <1>1 DEF Begin
<1> HIDE DEF t
<1>4. QED
  BY <1>1, <1>2, <1>3, NeutralStep, FaultsType DEF Begin, Neutral, limiter, IInv, TypeOK

LEMMA LimiterInv ==
    ASSUME IInv, NEW w \in Workers, Incr(w) \/ Expire(w) \/ RedisFails(w)
    PROVE  IInv'
<1>1. hits \in [Spellings -> [n : Nat, expires : BOOLEAN]] /\ failures \in Nat BY DEF IInv, TypeOK
<1>1a. Lower[task[w].email] \in Spellings
  BY SignUpAssumption DEF Incr, Expire, RedisFails, At, IInv, TasksNamed
<1>2. CASE Incr(w)
  <2>1. hits' \in [Spellings -> [n : Nat, expires : BOOLEAN]] BY <1>1, <1>1a, <1>2 DEF Incr
  <2>2. failures' \in Nat BY <1>1, <1>2 DEF Incr, Decide
  <2>3. QED BY <1>2, <2>1, <2>2, MovesOn DEF Incr, At, Decide
<1>3. CASE Expire(w)
  <2>1. hits' \in [Spellings -> [n : Nat, expires : BOOLEAN]] BY <1>1, <1>3 DEF Expire
  <2>2. failures' \in Nat BY <1>1, <1>3 DEF Expire, Decide
  <2>3. QED BY <1>3, <2>1, <2>2, MovesOn DEF Expire, At, Decide
<1>4. CASE RedisFails(w)
  <2> DEFINE k == Lower[task[w].email]
  <2>0. \/ hits' = hits \/ hits' = [hits EXCEPT ![k].n = hits[k].n + 1]
        \/ hits' = [hits EXCEPT ![k].expires = TRUE]
    BY <1>4 DEF RedisFails
  <2> HIDE DEF k
  <2>0a. hits[k] \in [n : Nat, expires : BOOLEAN] BY <1>1, <1>1a DEF k
  <2>0b. [hits[k] EXCEPT !.n = hits[k].n + 1] \in [n : Nat, expires : BOOLEAN] BY <2>0a
  <2>0c. [hits[k] EXCEPT !.expires = TRUE] \in [n : Nat, expires : BOOLEAN] BY <2>0a
  <2>1. hits' \in [Spellings -> [n : Nat, expires : BOOLEAN]] BY <1>1, <2>0, <2>0b, <2>0c
  <2>2. failures' \in Nat BY <1>1, <1>4 DEF RedisFails
  <2>3. task[w].pc # "idle" BY <1>4 DEF RedisFails, At
  <2>4. QED BY <1>4, <2>1, <2>2, <2>3, MovesOn DEF RedisFails
<1>5. QED BY <1>2, <1>3, <1>4

LEMMA CheckNewInv == ASSUME IInv, NEW w \in Workers, CheckNew(w) PROVE IInv'
BY MovesOn DEF CheckNew, At, limiter, IInv, TypeOK

LEMMA MintInv ==
    ASSUME IInv, NEW w \in Workers, NEW s \in Sessions, Mint(w, s)
    PROVE  IInv'
<1> USE DEF IInv
<1> DEFINE t == [task[w] EXCEPT !.pc = "counter", !.sid = s]
           e == task[w].email
<1>1. task[w] \in TaskRow /\ task \in [Workers -> TaskRow] BY DEF TypeOK, TaskRow
<1>2. t \in TaskRow /\ t.pc = "counter" /\ t.sid = s BY <1>1 DEF TaskRow, Pcs
<1>3. task' = [task EXCEPT ![w] = t] BY DEF Mint
<1>4. e \in Spellings /\ e # Null BY SignUpAssumption DEF Mint, At, TasksNamed
<1>5. session[s].email = Null /\ ~session[s].known BY DEF Mint, Counted
<1>6. session' = [session EXCEPT ![s].email = e, ![s].live = TRUE] BY DEF Mint
<1>7. /\ session' \in [Sessions -> SessionRow] /\ session'[s].email = e /\ ~session'[s].known
      /\ \A r \in Sessions \ {s} : session'[r] = session[r]
  <2> DEFINE row == [session[s] EXCEPT !.email = e, !.live = TRUE]
  <2>1. session \in [Sessions -> SessionRow] BY DEF TypeOK, SessionRow
  <2>2. row \in SessionRow /\ row.email = e /\ ~row.known BY <1>4, <1>5, <2>1 DEF SessionRow
  <2>3. session' = [session EXCEPT ![s] = row] BY <1>6, <2>1
  <2> HIDE DEF row
  <2>4. QED BY <2>1, <2>2, <2>3
<1> HIDE DEF t
<1>8. \A v \in Workers : task'[v] = IF v = w THEN t ELSE task[v] BY <1>1, <1>3
<1>9. UNCHANGED <<account, hits, failures, compared, admins>> /\ faults' \in Nat
  BY FaultsType DEF Mint, limiter
<1>10. TypeOK'
  <2>1. task' \in [Workers -> TaskRow] BY <1>1, <1>2, <1>3
  <2>2. QED BY <2>1, <1>7, <1>9 DEF TypeOK, TaskRow, SessionRow
<1>11. \A v \in Workers : task[v].pc \in Verifying \cup {"counter"} => task[v].sid # s
  BY <1>5 DEF TasksNamed
<1>12. TasksNamed'
  <2>1. t.email = e BY <1>1 DEF t, TaskRow
  <2>2. QED BY <1>2, <1>4, <1>7, <1>8, <1>11, <2>1 DEF TasksNamed, Verifying
<1>13. OneMinter' BY <1>2, <1>8, <1>11 DEF OneMinter
<1>14. Counted' BY <1>5, <1>7, <1>9 DEF Counted
<1>15. Shown' BY <1>2, <1>7, <1>8, <1>11 DEF Shown, Verifying, AfterCheck, SameMailbox, TasksNamed
<1>16. RowsBorn' BY <1>9 DEF RowsBorn
<1>17. \A r \in Sessions : session[r].known => session'[r] = session[r] BY <1>5, <1>7
<1>18. MailboxProved' /\ AdminsKnown' BY <1>9, <1>17, MailboxKept
<1>19. \A r \in Sessions : Pending(r)' \subseteq Pending(r)
  BY <1>2, <1>7, <1>8, <1>11 DEF Pending, Verifying
<1>20. Bounded' BY <1>9, <1>19, BoundedKept
<1>21. QED BY <1>10, <1>12, <1>13, <1>14, <1>15, <1>16, <1>18, <1>20

LEMMA MailCodeInv ==
    ASSUME IInv, NEW w \in Workers, NEW sent \in BOOLEAN, MailCode(w, sent)
    PROVE  IInv'
<1> USE DEF IInv
<1> DEFINE s == task[w].sid
<1>1. task \in [Workers -> TaskRow] BY DEF TypeOK, TaskRow
<1>2. s \in Sessions /\ ~session[s].known /\ session[s].email # Null /\ task[w].pc = "counter"
  BY DEF MailCode, At, TasksNamed
<1>3. session' = [session EXCEPT ![s].attempts = 0, ![s].ttl = TRUE, ![s].known = sent]
  BY DEF MailCode
<1>4. /\ session' \in [Sessions -> SessionRow]
      /\ session'[s].attempts = 0 /\ session'[s].email = session[s].email
      /\ session'[s].live = session[s].live
      /\ \A r \in Sessions \ {s} : session'[r] = session[r]
  <2> DEFINE row == [session[s] EXCEPT !.attempts = 0, !.ttl = TRUE, !.known = sent]
  <2>1. session \in [Sessions -> SessionRow] BY DEF TypeOK, SessionRow
  <2>2. /\ row \in SessionRow /\ row.attempts = 0
        /\ row.email = session[s].email /\ row.live = session[s].live
    BY <1>2, <2>1 DEF SessionRow
  <2>3. session' = [session EXCEPT ![s] = row] BY <1>3, <2>1
  <2> HIDE DEF row
  <2>4. QED BY <1>2, <2>1, <2>2, <2>3
<1>5. task' = [task EXCEPT ![w] = Idle] BY DEF MailCode, Answer
<1>6. \A v \in Workers : task'[v] = IF v = w THEN Idle ELSE task[v] BY <1>1, <1>5
<1>7. UNCHANGED <<account, hits, failures, compared, admins>> /\ faults' \in Nat
  BY FaultsType DEF MailCode, limiter
<1> HIDE DEF s
<1>8. TypeOK'
  <2>1. task' \in [Workers -> TaskRow] BY <1>1, <1>5, IdleType
  <2>2. QED BY <2>1, <1>4, <1>7 DEF TypeOK, TaskRow, SessionRow
<1>9. \A v \in Workers : /\ task[v].pc \in Verifying => task[v].sid # s
                         /\ task[v].pc = "counter" /\ v # w => task[v].sid # s
  BY <1>2 DEF TasksNamed, OneMinter, s
<1>10. TasksNamed' BY <1>4, <1>6, <1>9, IdleType DEF TasksNamed, Verifying
<1>11. OneMinter' BY <1>6, IdleType DEF OneMinter
<1>12. Counted' BY <1>2, <1>4, <1>7 DEF Counted
<1>13. Shown' BY <1>4, <1>6, <1>9, IdleType DEF Shown, Verifying, AfterCheck, SameMailbox, TasksNamed
<1>14. RowsBorn' BY <1>7 DEF RowsBorn
<1>15. \A r \in Sessions : session[r].known => session'[r] = session[r] BY <1>2, <1>4
<1>16. MailboxProved' /\ AdminsKnown' BY <1>7, <1>15, MailboxKept
<1>17. \A r \in Sessions : Pending(r)' \subseteq Pending(r)
  BY <1>4, <1>6, <1>9, IdleType DEF Pending, Verifying
<1>18. Bounded' BY <1>7, <1>17, BoundedKept
<1>19. QED BY <1>8, <1>10, <1>11, <1>12, <1>13, <1>14, <1>16, <1>18
----------------------------------------------------------------------------
(* The actions: a code is verified *)

(* What a step of a request must show when it only changes its own place.  *)
LEMMA TaskStep ==
    ASSUME IInv, UNCHANGED <<session, account, hits, failures, compared>>, faults' \in Nat,
           admins' = admins,
           NEW w \in Workers, NEW t \in TaskRow, task' = [task EXCEPT ![w] = t],
           t.pc # "counter", t.pc # "idle" => t.email \in Spellings,
           t.pc \in Verifying => /\ t.sid \in Sessions /\ session[t.sid].known
                                 /\ t.kind \in {"signup", "admin"}
                                 /\ t.kind = "admin" => SameMailbox(t.email, AdminEmail),
           t.pc \in AfterCheck => ~session[t.sid].live,
           t.pc = "insert" => t.kind = "signup",
           t.pc \in {"verified", "insert"} => t.right,
           t.pc \in {"dropCode", "dropCounter", "verified", "insert"} /\ t.right =>
               SameMailbox(t.email, session[t.sid].email),
           Bounded'
    PROVE  IInv'
<1> USE DEF IInv
<1>1. task \in [Workers -> TaskRow] BY DEF TypeOK, TaskRow
<1>2. \A v \in Workers : task'[v] = IF v = w THEN t ELSE task[v] BY <1>1
<1>3. task' \in [Workers -> TaskRow] BY <1>1
<1>4. TypeOK' BY <1>3 DEF TypeOK, TaskRow
<1>2a. task'[w] = t /\ \A v \in Workers \ {w} : task'[v] = task[v] BY <1>2
<1>5. TasksNamed'
  <2> SUFFICES ASSUME NEW v \in Workers
               PROVE  /\ task'[v].pc # "idle" => task'[v].email \in Spellings
                      /\ task'[v].pc \in Verifying =>
                             /\ task'[v].sid \in Sessions /\ session[task'[v].sid].known
                             /\ task'[v].kind \in {"signup", "admin"}
                      /\ task'[v].pc = "counter" =>
                             /\ task'[v].sid \in Sessions
                             /\ ~session[task'[v].sid].known
                             /\ session[task'[v].sid].email # Null
                      /\ task'[v].pc = "insert" => task'[v].kind = "signup"
    BY DEF TasksNamed
  <2>1. CASE v = w BY <1>2a, <2>1
  <2>2. CASE v # w BY <1>2a, <2>2 DEF TasksNamed
  <2>3. QED BY <2>1, <2>2
<1>6. OneMinter' BY <1>2 DEF OneMinter
<1>7. Counted' /\ RowsBorn' BY DEF Counted, RowsBorn
<1>8. Shown'
  <2> SUFFICES ASSUME NEW v \in Workers
               PROVE  /\ task'[v].pc \in Verifying /\ task'[v].kind = "admin" =>
                             Lower[task'[v].email] = Lower[AdminEmail]
                      /\ task'[v].pc \in AfterCheck => ~session[task'[v].sid].live
                      /\ task'[v].pc \in {"verified", "insert"} => task'[v].right
                      /\ task'[v].pc \in {"dropCode", "dropCounter", "verified", "insert"} /\ task'[v].right =>
                             Lower[task'[v].email] = Lower[session[task'[v].sid].email]
    BY DEF Shown, SameMailbox
  <2>1. CASE v = w BY <1>2a, <2>1 DEF SameMailbox
  <2>2. CASE v # w BY <1>2a, <2>2 DEF Shown, SameMailbox
  <2>3. QED BY <2>1, <2>2
<1>9. MailboxProved' /\ AdminsKnown' BY MailboxKept
<1>10. QED BY <1>4, <1>5, <1>6, <1>7, <1>8, <1>9

LEMMA VerifyInv ==
    ASSUME IInv, NEW w \in Workers, NEW s \in Sessions, NEW kind \in {"signup", "admin"},
           NEW e \in Spellings, NEW right \in BOOLEAN, Verify(w, s, kind, e, right)
    PROVE  IInv'
<1> DEFINE t == [Idle EXCEPT !.pc = "attempts", !.kind = kind, !.email = e, !.sid = s,
                             !.right = right]
<1>1. /\ t \in TaskRow /\ t.pc = "attempts" /\ t.kind = kind /\ t.email = e /\ t.sid = s
  BY IdleType DEF TaskRow, Pcs
<1>2. task' = [task EXCEPT ![w] = t] BY DEF Verify
<1>3. session[s].known /\ (kind = "admin" => SameMailbox(e, AdminEmail)) BY DEF Verify
<1> HIDE DEF t
<1>4. task \in [Workers -> TaskRow] BY DEF IInv, TypeOK, TaskRow
<1>5. \A v \in Workers : task'[v] = IF v = w THEN t ELSE task[v] BY <1>2, <1>4
<1>6. \A r \in Sessions : Pending(r)' \subseteq Pending(r) BY <1>1, <1>5 DEF Pending, Verify
<1>7. Bounded' BY <1>6, BoundedKept DEF Verify, IInv
<1>8. faults' \in Nat BY FaultsType DEF Verify, IInv
<1>9. QED
  BY <1>1, <1>2, <1>3, <1>7, <1>8, TaskStep DEF Verify, limiter, AfterCheck

LEMMA AnswerInv ==
    ASSUME IInv, NEW w \in Workers, Answer(w), Sound,
           UNCHANGED <<session, account, hits, failures, compared>>, admins' = admins
    PROVE  IInv'
<1>1. task' = [task EXCEPT ![w] = Idle] BY DEF Answer
<1>2. QED BY <1>1, IdleType, NeutralStep DEF Neutral, Sound, IInv, TypeOK

LEMMA ReadAttemptsInv ==
    ASSUME IInv, NEW w \in Workers, ReadAttempts(w)
    PROVE  IInv'
<1> USE DEF IInv
<1> DEFINE s == task[w].sid
<1>1. task \in [Workers -> TaskRow] /\ task[w] \in TaskRow BY DEF TypeOK, TaskRow
<1>2. /\ task[w].pc = "attempts" /\ s \in Sessions /\ session[s].known /\ task[w].email \in Spellings
      /\ task[w].kind \in {"signup", "admin"}
      /\ task[w].kind = "admin" => SameMailbox(task[w].email, AdminEmail)
  BY DEF ReadAttempts, At, TasksNamed, Shown, Verifying
<1>3. faults' \in Nat /\ admins' = admins
      /\ UNCHANGED <<session, account, hits, failures, compared>>
  BY FaultsType DEF ReadAttempts, limiter
<1>4. CASE Exhausted(s)
  <2> DEFINE t == [task[w] EXCEPT !.pc = "dropCode", !.right = FALSE]
  <2>1. /\ t \in TaskRow /\ t.pc = "dropCode" /\ ~t.right /\ t.sid = s
        /\ t.email = task[w].email /\ t.kind = task[w].kind
    BY <1>1 DEF TaskRow, Pcs
  <2>2. task' = [task EXCEPT ![w] = t] BY <1>1, <1>4 DEF ReadAttempts
  <2> HIDE DEF t
  <2>3. \A v \in Workers : task'[v] = IF v = w THEN t ELSE task[v] BY <1>1, <2>2
  <2>4. \A r \in Sessions : Pending(r)' \subseteq Pending(r) BY <1>3, <2>1, <2>3 DEF Pending
  <2>5. Bounded' BY <1>3, <2>4, BoundedKept
  <2>6. QED BY <1>2, <1>3, <2>1, <2>2, <2>5, TaskStep DEF AfterCheck
<1>5. CASE ~Exhausted(s)
  <2> DEFINE t == [task[w] EXCEPT !.pc = "stored"]
  <2>1. /\ t \in TaskRow /\ t.pc = "stored" /\ t.sid = s
        /\ t.email = task[w].email /\ t.kind = task[w].kind
    BY <1>1 DEF TaskRow, Pcs
  <2>2. task' = [task EXCEPT ![w] = t] BY <1>1, <1>5 DEF ReadAttempts, Goto
  <2> HIDE DEF t
  <2>3. \A v \in Workers : task'[v] = IF v = w THEN t ELSE task[v] BY <1>1, <2>2
  <2>4. ASSUME NEW r \in Sessions
        PROVE  compared[r] + Cardinality(Pending(r)') <= MaxAttempts - 1 + Cardinality(Workers)
    <3>1. IsFiniteSet(Pending(r)) BY PendingFinite
    <3>2. Pending(r)' \subseteq Workers BY DEF Pending
    <3>3. /\ IsFiniteSet(Workers) /\ Cardinality(Pending(r)') <= Cardinality(Workers)
          /\ Cardinality(Pending(r)') \in Nat /\ Cardinality(Workers) \in Nat
      BY <3>2, SignUpAssumption, FS_Subset, FS_CardinalityType
    <3>4. CASE r = s /\ session[s].live
      <4>1. compared[s] \in Nat /\ compared[s] <= MaxAttempts - 1
        BY <1>2, <1>5, <3>4, SignUpAssumption DEF Counted, TypeOK, Exhausted
      <4>2. QED BY <3>3, <3>4, <4>1, SignUpAssumption
    <3>5. CASE ~(r = s /\ session[s].live)
      <4>1. Pending(r)' \subseteq Pending(r) BY <1>3, <2>1, <2>3, <3>5 DEF Pending
      <4>2. Cardinality(Pending(r)') <= Cardinality(Pending(r)) BY <3>1, <4>1, PendingShrinks
      <4>3. compared[r] \in Nat
            /\ compared[r] + Cardinality(Pending(r)) <= MaxAttempts - 1 + Cardinality(Workers)
        BY DEF TypeOK, Bounded
      <4>4. QED BY <3>3, <4>2, <4>3, PendingFinite, SignUpAssumption
    <3>6. QED BY <3>4, <3>5
  <2>5. Bounded' BY <1>3, <2>4 DEF Bounded
  <2>6. QED BY <1>2, <1>3, <2>1, <2>2, <2>5, TaskStep DEF AfterCheck
<1>6. QED BY <1>4, <1>5

LEMMA ReadStoredInv ==
    ASSUME IInv, NEW w \in Workers, ReadStored(w)
    PROVE  IInv'
<1> USE DEF IInv
<1>1. task \in [Workers -> TaskRow] /\ task[w] \in TaskRow BY DEF TypeOK, TaskRow
<1>2. /\ task[w].pc = "stored" /\ task[w].sid \in Sessions /\ session[task[w].sid].known
      /\ task[w].email \in Spellings /\ task[w].kind \in {"signup", "admin"}
      /\ task[w].kind = "admin" => SameMailbox(task[w].email, AdminEmail)
  BY DEF ReadStored, At, TasksNamed, Shown, Verifying
<1>3. Sound /\ faults' \in Nat /\ admins' = admins
      /\ UNCHANGED <<session, account, hits, failures, compared>>
  BY FaultsType DEF ReadStored, limiter
<1>4. CASE session[task[w].sid].live
  <2> DEFINE t == [task[w] EXCEPT !.pc = "guess"]
  <2>1. /\ t \in TaskRow /\ t.pc = "guess" /\ t.sid = task[w].sid
        /\ t.email = task[w].email /\ t.kind = task[w].kind
    BY <1>1 DEF TaskRow, Pcs
  <2>2. task' = [task EXCEPT ![w] = t] BY <1>1, <1>4 DEF ReadStored, Goto
  <2> HIDE DEF t
  <2>3. \A v \in Workers : task'[v] = IF v = w THEN t ELSE task[v] BY <1>1, <2>2
  <2>4. \A r \in Sessions : Pending(r)' \subseteq Pending(r)
    BY <1>2, <1>3, <1>4, <2>1, <2>3 DEF Pending
  <2>5. Bounded' BY <1>3, <2>4, BoundedKept
  <2>6. QED BY <1>2, <1>3, <2>1, <2>2, <2>5, TaskStep DEF AfterCheck
<1>5. CASE ~session[task[w].sid].live BY <1>3, <1>5, AnswerInv DEF ReadStored
<1>6. QED BY <1>4, <1>5
LEMMA GuessInv ==
    ASSUME IInv, NEW w \in Workers, Guess(w)
    PROVE  IInv'
<1> USE DEF IInv
<1> DEFINE s == task[w].sid
           old == session[s].attempts
           new == IF old = Null THEN 1 ELSE old + 1
           t == [task[w] EXCEPT !.pc = "dropCode"]
<1>1. task \in [Workers -> TaskRow] /\ task[w] \in TaskRow BY DEF TypeOK, TaskRow
<1>2. /\ task[w].pc = "guess" /\ s \in Sessions /\ session[s].known /\ task[w].email \in Spellings
      /\ task[w].kind \in {"signup", "admin"}
      /\ task[w].kind = "admin" => SameMailbox(task[w].email, AdminEmail)
  BY DEF Guess, At, TasksNamed, Shown, Verifying
<1>3. session' = [session EXCEPT ![s].attempts = new] /\ compared' = [compared EXCEPT ![s] = @ + 1]
  BY DEF Guess
<1>4. faults' \in Nat /\ admins' = admins /\ UNCHANGED <<account, hits, failures>>
  BY FaultsType DEF Guess, limiter
<1>5. \/ Matches(w) /\ task' = [task EXCEPT ![w] = t]
      \/ ~Matches(w) /\ task' = [task EXCEPT ![w] = Idle]
  BY <1>1 DEF Guess, Goto, Answer
<1>6. /\ t \in TaskRow /\ t.pc = "dropCode" /\ t.sid = s
      /\ t.email = task[w].email /\ t.kind = task[w].kind
  BY <1>1 DEF TaskRow, Pcs
<1> HIDE DEF t
<1>7. session \in [Sessions -> SessionRow] /\ compared \in [Sessions -> Nat]
  BY DEF TypeOK, SessionRow
<1>8. /\ session' \in [Sessions -> SessionRow]
      /\ session'[s].attempts = new
      /\ \A r \in Sessions : /\ session'[r].known = session[r].known
                             /\ session'[r].live = session[r].live
                             /\ session'[r].email = session[r].email
                             /\ r # s => session'[r] = session[r]
  <2> DEFINE row == [session[s] EXCEPT !.attempts = new]
  <2>1. old \in Nat \cup {Null} BY <1>2, <1>7 DEF SessionRow
  <2>2. new \in Nat BY <2>1
  <2> HIDE DEF new
  <2>3. /\ row \in SessionRow /\ row.attempts = new /\ row.email = session[s].email
        /\ row.live = session[s].live /\ row.known = session[s].known
    BY <1>2, <1>7, <2>2 DEF SessionRow
  <2>4. session' = [session EXCEPT ![s] = row] BY <1>3, <1>7
  <2> HIDE DEF row
  <2>5. QED BY <1>2, <1>7, <2>3, <2>4
<1>9. /\ compared' \in [Sessions -> Nat] /\ compared'[s] = compared[s] + 1
      /\ \A r \in Sessions \ {s} : compared'[r] = compared[r]
  BY <1>2, <1>3, <1>7
<1>10. PICK u \in TaskRow : /\ task' = [task EXCEPT ![w] = u] /\ u.pc \in {"idle", "dropCode"}
                            /\ u.pc = "dropCode" => /\ u.sid = s /\ u.email = task[w].email
                                                    /\ u.kind = task[w].kind
                                                    /\ SameMailbox(u.email, session[s].email)
  <2>1. CASE Matches(w) BY <1>5, <1>6, <2>1 DEF Matches, SameMailbox
  <2>2. CASE ~Matches(w) BY <1>5, <2>2, IdleType
  <2>3. QED BY <2>1, <2>2
<1>11. \A v \in Workers : task'[v] = IF v = w THEN u ELSE task[v] BY <1>1, <1>10
<1>12. TypeOK'
  <2>1. task' \in [Workers -> TaskRow] BY <1>1, <1>10
  <2>2. QED BY <2>1, <1>4, <1>8, <1>9 DEF TypeOK, TaskRow, SessionRow
<1>13. TasksNamed' BY <1>2, <1>8, <1>10, <1>11 DEF TasksNamed, Verifying
<1>14. OneMinter' BY <1>10, <1>11 DEF OneMinter
<1>15. Counted'
  <2> SUFFICES ASSUME NEW r \in Sessions
               PROVE  /\ session'[r].known => session'[r].email # Null
                      /\ session'[r].known /\ session'[r].live => session'[r].attempts = compared'[r]
                      /\ ~session'[r].known => compared'[r] = 0
    BY DEF Counted
  <2>1. CASE r = s
    <3>1. session[s].live => new = compared[s] + 1
      BY <1>2, <1>7, SignUpAssumption DEF Counted
    <3>2. QED BY <1>2, <1>8, <1>9, <2>1, <3>1 DEF Counted
  <2>2. CASE r # s BY <1>8, <1>9, <2>2 DEF Counted
  <2>3. QED BY <2>1, <2>2
<1>16. Shown'
  <2> SUFFICES ASSUME NEW v \in Workers
               PROVE  /\ task'[v].pc \in Verifying /\ task'[v].kind = "admin" =>
                             Lower[task'[v].email] = Lower[AdminEmail]
                      /\ task'[v].pc \in AfterCheck => ~session'[task'[v].sid].live
                      /\ task'[v].pc \in {"verified", "insert"} => task'[v].right
                      /\ task'[v].pc \in {"dropCode", "dropCounter", "verified", "insert"} /\ task'[v].right =>
                             Lower[task'[v].email] = Lower[session'[task'[v].sid].email]
    BY DEF Shown, SameMailbox
  <2>1. CASE v = w BY <1>2, <1>8, <1>10, <1>11, <2>1 DEF SameMailbox, AfterCheck, Verifying
  <2>2. CASE v # w
    BY <1>8, <1>11, <2>2 DEF Shown, SameMailbox, AfterCheck, Verifying, TasksNamed
  <2>3. QED BY <2>1, <2>2
<1>17. MailboxProved' /\ AdminsKnown' BY <1>4, <1>8, MailboxKept
<1>18. RowsBorn' BY <1>4 DEF RowsBorn
<1>19. ASSUME NEW r \in Sessions
       PROVE  compared'[r] + Cardinality(Pending(r)') <= MaxAttempts - 1 + Cardinality(Workers)
  <2>1. /\ IsFiniteSet(Pending(r)) /\ compared[r] \in Nat
        /\ compared[r] + Cardinality(Pending(r)) <= MaxAttempts - 1 + Cardinality(Workers)
    BY PendingFinite DEF TypeOK, Bounded
  <2>2. CASE r = s
    <3>1. w \in Pending(r) /\ Pending(r)' \subseteq Pending(r) \ {w}
      BY <1>2, <1>8, <1>10, <1>11, <2>2 DEF Pending
    <3>2. Cardinality(Pending(r) \ {w}) = Cardinality(Pending(r)) - 1 /\ IsFiniteSet(Pending(r) \ {w})
      BY <2>1, <3>1, FS_RemoveElement
    <3>3. Cardinality(Pending(r)') <= Cardinality(Pending(r)) - 1 /\ Cardinality(Pending(r)') \in Nat
      BY <3>1, <3>2, FS_Subset, FS_CardinalityType
    <3>4. Cardinality(Pending(r)) \in Nat BY PendingFinite
    <3>5. QED BY <1>9, <2>1, <2>2, <3>3, <3>4, PendingFinite, SignUpAssumption
  <2>3. CASE r # s
    <3>1. Pending(r)' \subseteq Pending(r) BY <1>2, <1>8, <1>10, <1>11, <2>3 DEF Pending
    <3>2. Cardinality(Pending(r)') <= Cardinality(Pending(r)) /\ Cardinality(Pending(r)') \in Nat
      BY <2>1, <3>1, PendingShrinks
    <3>3. QED BY <1>9, <2>1, <2>3, <3>2, PendingFinite, SignUpAssumption
  <2>4. QED BY <2>2, <2>3
<1>20. Bounded' BY <1>19 DEF Bounded
<1>21. QED BY <1>12, <1>13, <1>14, <1>15, <1>16, <1>17, <1>18, <1>20
LEMMA DropCodeInv ==
    ASSUME IInv, NEW w \in Workers, DropCode(w)
    PROVE  IInv'
<1> USE DEF IInv
<1> DEFINE s == task[w].sid
           t == [task[w] EXCEPT !.pc = "dropCounter"]
<1>1. task \in [Workers -> TaskRow] /\ task[w] \in TaskRow BY DEF TypeOK, TaskRow
<1>2. /\ task[w].pc = "dropCode" /\ s \in Sessions /\ session[s].known /\ task[w].email \in Spellings
      /\ task[w].kind \in {"signup", "admin"}
      /\ task[w].kind = "admin" => SameMailbox(task[w].email, AdminEmail)
      /\ task[w].right => SameMailbox(task[w].email, session[s].email)
  BY DEF DropCode, At, TasksNamed, Shown, Verifying
<1>3. /\ t \in TaskRow /\ t.pc = "dropCounter" /\ t.sid = s /\ t.email = task[w].email
      /\ t.kind = task[w].kind /\ t.right = task[w].right
  BY <1>1 DEF TaskRow, Pcs
<1>4. task' = [task EXCEPT ![w] = t] BY <1>1 DEF DropCode, Goto
<1> HIDE DEF t
<1>5. \A v \in Workers : task'[v] = IF v = w THEN t ELSE task[v] BY <1>1, <1>4
<1>6. faults' \in Nat /\ admins' = admins /\ UNCHANGED <<account, hits, failures, compared>>
  BY FaultsType DEF DropCode, limiter
<1>7. /\ session' \in [Sessions -> SessionRow] /\ ~session'[s].live
      /\ \A r \in Sessions : /\ session'[r].known = session[r].known
                             /\ session'[r].attempts = session[r].attempts
                             /\ session'[r].email = session[r].email
                             /\ session'[r].live => session[r].live
  <2> DEFINE row == [session[s] EXCEPT !.live = FALSE]
  <2>1. session \in [Sessions -> SessionRow] BY DEF TypeOK, SessionRow
  <2>2. /\ row \in SessionRow /\ ~row.live /\ row.known = session[s].known
        /\ row.attempts = session[s].attempts /\ row.email = session[s].email
    BY <1>2, <2>1 DEF SessionRow
  <2>3. session' = [session EXCEPT ![s] = row] BY <2>1 DEF DropCode
  <2> HIDE DEF row
  <2>4. QED BY <1>2, <2>1, <2>2, <2>3
<1> HIDE DEF s
<1>8. TypeOK'
  <2>1. task' \in [Workers -> TaskRow] BY <1>1, <1>3, <1>4
  <2>2. QED BY <2>1, <1>6, <1>7 DEF TypeOK, TaskRow, SessionRow
<1>9. TasksNamed' BY <1>2, <1>3, <1>5, <1>7 DEF TasksNamed, Verifying
<1>10. OneMinter' BY <1>3, <1>5 DEF OneMinter
<1>11. Counted' BY <1>6, <1>7 DEF Counted
<1>12. Shown'
  <2> SUFFICES ASSUME NEW v \in Workers
               PROVE  /\ task'[v].pc \in Verifying /\ task'[v].kind = "admin" =>
                             Lower[task'[v].email] = Lower[AdminEmail]
                      /\ task'[v].pc \in AfterCheck => ~session'[task'[v].sid].live
                      /\ task'[v].pc \in {"verified", "insert"} => task'[v].right
                      /\ task'[v].pc \in {"dropCode", "dropCounter", "verified", "insert"} /\ task'[v].right =>
                             Lower[task'[v].email] = Lower[session'[task'[v].sid].email]
    BY DEF Shown, SameMailbox
  <2>1. CASE v = w BY <1>2, <1>3, <1>5, <1>7, <2>1 DEF SameMailbox, AfterCheck, Verifying
  <2>2. CASE v # w
    BY <1>5, <1>7, <2>2 DEF Shown, SameMailbox, AfterCheck, Verifying, TasksNamed
  <2>3. QED BY <2>1, <2>2
<1>13. MailboxProved' /\ AdminsKnown' BY <1>6, <1>7, MailboxKept
<1>14. RowsBorn' BY <1>6 DEF RowsBorn
<1>15. \A r \in Sessions : Pending(r)' \subseteq Pending(r) BY <1>3, <1>5, <1>7 DEF Pending
<1>16. Bounded' BY <1>6, <1>15, BoundedKept
<1>17. QED BY <1>8, <1>9, <1>10, <1>11, <1>12, <1>13, <1>14, <1>16

(* A step that only takes something away from sessions that are not live:  *)
(* their counter.                                                          *)
LEMMA CounterGone ==
    ASSUME IInv, NEW s \in Sessions, ~session[s].live,
           session' = [session EXCEPT ![s].attempts = Null, ![s].ttl = FALSE]
    PROVE  /\ session' \in [Sessions -> SessionRow]
           /\ \A r \in Sessions : /\ session'[r].known = session[r].known
                                  /\ session'[r].live = session[r].live
                                  /\ session'[r].email = session[r].email
                                  /\ session'[r].attempts = session[r].attempts \/ ~session'[r].live
<1> DEFINE row == [session[s] EXCEPT !.attempts = Null, !.ttl = FALSE]
<1>1. session \in [Sessions -> SessionRow] BY DEF IInv, TypeOK, SessionRow
<1>2. /\ row \in SessionRow /\ row.live = session[s].live /\ row.known = session[s].known
      /\ row.email = session[s].email
  BY <1>1 DEF SessionRow
<1>3. session' = [session EXCEPT ![s] = row] BY <1>1
<1> HIDE DEF row
<1>4. QED BY <1>1, <1>2, <1>3

LEMMA DropCounterInv ==
    ASSUME IInv, NEW w \in Workers, DropCounter(w)
    PROVE  IInv'
<1> USE DEF IInv
<1> DEFINE s == task[w].sid
           t == IF task[w].right THEN [task[w] EXCEPT !.pc = "verified"] ELSE Idle
<1>1. task \in [Workers -> TaskRow] /\ task[w] \in TaskRow BY DEF TypeOK, TaskRow
<1>2. /\ task[w].pc = "dropCounter" /\ s \in Sessions /\ session[s].known /\ task[w].email \in Spellings
      /\ task[w].kind \in {"signup", "admin"} /\ ~session[s].live
      /\ task[w].kind = "admin" => SameMailbox(task[w].email, AdminEmail)
      /\ task[w].right => SameMailbox(task[w].email, session[s].email)
  BY DEF DropCounter, At, TasksNamed, Shown, Verifying, AfterCheck
<1>3. /\ t \in TaskRow /\ t.pc \in {"idle", "verified"}
      /\ t.pc = "verified" => /\ t.sid = s /\ t.email = task[w].email
                              /\ t.kind = task[w].kind /\ t.right /\ task[w].right
  <2>1. CASE task[w].right BY <1>1, <2>1 DEF TaskRow, Pcs
  <2>2. CASE ~task[w].right BY <2>2, IdleType
  <2>3. QED BY <2>1, <2>2
<1>4. task' = [task EXCEPT ![w] = t] BY <1>1 DEF DropCounter, Goto, Answer
<1> HIDE DEF t
<1>5. \A v \in Workers : task'[v] = IF v = w THEN t ELSE task[v] BY <1>1, <1>3, <1>4
<1>6. faults' \in Nat /\ admins' = admins /\ UNCHANGED <<account, hits, failures, compared>>
  BY FaultsType DEF DropCounter, limiter
<1>7. /\ session' \in [Sessions -> SessionRow]
      /\ \A r \in Sessions : /\ session'[r].known = session[r].known
                             /\ session'[r].live = session[r].live
                             /\ session'[r].email = session[r].email
                             /\ session'[r].attempts = session[r].attempts \/ ~session'[r].live
  BY <1>2, CounterGone DEF DropCounter
<1> HIDE DEF s
<1>8. TypeOK'
  <2>1. task' \in [Workers -> TaskRow] BY <1>1, <1>3, <1>4
  <2>2. QED BY <2>1, <1>6, <1>7 DEF TypeOK, TaskRow, SessionRow
<1>9. TasksNamed' BY <1>2, <1>3, <1>5, <1>7 DEF TasksNamed, Verifying
<1>10. OneMinter' BY <1>3, <1>5 DEF OneMinter
<1>11. Counted' BY <1>6, <1>7 DEF Counted
<1>12. Shown'
  <2> SUFFICES ASSUME NEW v \in Workers
               PROVE  /\ task'[v].pc \in Verifying /\ task'[v].kind = "admin" =>
                             Lower[task'[v].email] = Lower[AdminEmail]
                      /\ task'[v].pc \in AfterCheck => ~session'[task'[v].sid].live
                      /\ task'[v].pc \in {"verified", "insert"} => task'[v].right
                      /\ task'[v].pc \in {"dropCode", "dropCounter", "verified", "insert"} /\ task'[v].right =>
                             Lower[task'[v].email] = Lower[session'[task'[v].sid].email]
    BY DEF Shown, SameMailbox
  <2>1. CASE v = w BY <1>2, <1>3, <1>5, <1>7, <2>1 DEF SameMailbox, AfterCheck, Verifying
  <2>2. CASE v # w
    BY <1>5, <1>7, <2>2 DEF Shown, SameMailbox, AfterCheck, Verifying, TasksNamed
  <2>3. QED BY <2>1, <2>2
<1>13. MailboxProved' /\ AdminsKnown' BY <1>6, <1>7, MailboxKept
<1>14. RowsBorn' BY <1>6 DEF RowsBorn
<1>15. \A r \in Sessions : Pending(r)' \subseteq Pending(r) BY <1>3, <1>5, <1>7 DEF Pending
<1>16. Bounded' BY <1>6, <1>15, BoundedKept
<1>17. QED BY <1>8, <1>9, <1>10, <1>11, <1>12, <1>13, <1>14, <1>16
----------------------------------------------------------------------------
(* The actions: what a code is good for *)

LEMMA AdminTokenInv ==
    ASSUME IInv, NEW w \in Workers, AdminToken(w)
    PROVE  IInv'
<1> USE DEF IInv
<1> DEFINE s == task[w].sid
<1>1. task \in [Workers -> TaskRow] BY DEF TypeOK, TaskRow
<1>2. /\ s \in Sessions /\ session[s].known /\ ~session[s].live
      /\ SameMailbox(session[s].email, AdminEmail)
  BY DEF AdminToken, At, TasksNamed, Shown, Verifying, AfterCheck, SameMailbox
<1>3. admins' = admins \cup {s} /\ task' = [task EXCEPT ![w] = Idle]
      /\ UNCHANGED <<session, account, hits, failures, compared>> /\ faults' \in Nat
  BY FaultsType DEF AdminToken, Answer, limiter
<1> HIDE DEF s
<1>4. \A v \in Workers : task'[v] = IF v = w THEN Idle ELSE task[v] BY <1>1, <1>3
<1>5. task' \in [Workers -> TaskRow] BY <1>1, <1>3, IdleType
<1>6. TypeOK' BY <1>2, <1>3, <1>5 DEF TypeOK, TaskRow
<1>7. TasksNamed' BY <1>3, <1>4, IdleType DEF TasksNamed, Verifying
<1>8. OneMinter' BY <1>4, IdleType DEF OneMinter
<1>9. Counted' /\ RowsBorn' BY <1>3 DEF Counted, RowsBorn
<1>10. Shown' BY <1>3, <1>4, IdleType DEF Shown, SameMailbox, Verifying, AfterCheck
<1>11. AdminsKnown' BY <1>2, <1>3 DEF AdminsKnown
<1>12. MailboxProved' BY <1>2, <1>3 DEF MailboxProved, Proved, SameMailbox
<1>13. \A r \in Sessions : Pending(r)' \subseteq Pending(r) BY <1>3, <1>4, IdleType DEF Pending
<1>14. Bounded' BY <1>3, <1>13, BoundedKept
<1>15. QED BY <1>6, <1>7, <1>8, <1>9, <1>10, <1>11, <1>12, <1>14

LEMMA CheckSignupInv ==
    ASSUME IInv, NEW w \in Workers, NEW longEnough \in BOOLEAN, CheckSignup(w, longEnough)
    PROVE  IInv'
<1> USE DEF IInv
<1> DEFINE t == [task[w] EXCEPT !.pc = "insert"]
<1>1. task \in [Workers -> TaskRow] /\ task[w] \in TaskRow BY DEF TypeOK, TaskRow
<1>2. /\ task[w].pc = "verified" /\ task[w].kind = "signup" /\ task[w].right
      /\ task[w].sid \in Sessions /\ session[task[w].sid].known /\ ~session[task[w].sid].live
      /\ task[w].email \in Spellings
      /\ SameMailbox(task[w].email, session[task[w].sid].email)
  BY DEF CheckSignup, At, TasksNamed, Shown, Verifying, AfterCheck
<1>3. Sound /\ faults' \in Nat /\ admins' = admins
      /\ UNCHANGED <<session, account, hits, failures, compared>>
  BY FaultsType DEF CheckSignup, limiter
<1>4. CASE Answer(w) BY <1>3, <1>4, AnswerInv
<1>5. CASE Goto(w, "insert")
  <2>1. /\ t \in TaskRow /\ t.pc = "insert" /\ t.sid = task[w].sid /\ t.right
        /\ t.email = task[w].email /\ t.kind = "signup"
    BY <1>1, <1>2 DEF TaskRow, Pcs
  <2>2. task' = [task EXCEPT ![w] = t] BY <1>1, <1>5 DEF Goto
  <2> HIDE DEF t
  <2>3. \A v \in Workers : task'[v] = IF v = w THEN t ELSE task[v] BY <1>1, <2>2
  <2>4. \A r \in Sessions : Pending(r)' \subseteq Pending(r) BY <1>3, <2>1, <2>3 DEF Pending
  <2>5. Bounded' BY <1>3, <2>4, BoundedKept
  <2>6. QED BY <1>2, <1>3, <2>1, <2>2, <2>5, TaskStep
<1>6. QED BY <1>4, <1>5 DEF CheckSignup

(* The steps that write core.users. *)
LEMMA AccountStep ==
    ASSUME IInv, NEW w \in Workers, Answer(w), Sound, UNCHANGED <<session, limiter, compared, admins>>,
           account' \in [Spellings -> AccountRow], RowsBorn', MailboxProved'
    PROVE  IInv'
<1> USE DEF IInv, limiter
<1>1. task \in [Workers -> TaskRow] BY DEF TypeOK, TaskRow
<1>2. task' = [task EXCEPT ![w] = Idle] /\ faults' \in Nat BY FaultsType DEF Answer
<1>3. \A v \in Workers : task'[v] = IF v = w THEN Idle ELSE task[v] BY <1>1, <1>2
<1>4. task' \in [Workers -> TaskRow] BY <1>1, <1>2, IdleType
<1>5. TypeOK' BY <1>2, <1>4 DEF TypeOK, TaskRow, AccountRow
<1>6. TasksNamed' BY <1>3, IdleType DEF TasksNamed, Verifying
<1>7. OneMinter' BY <1>3, IdleType DEF OneMinter
<1>8. Counted' /\ AdminsKnown' BY DEF Counted, AdminsKnown
<1>9. Shown' BY <1>3, IdleType DEF Shown, SameMailbox, Verifying, AfterCheck
<1>10. \A r \in Sessions : Pending(r)' \subseteq Pending(r) BY <1>3, IdleType DEF Pending
<1>11. Bounded' BY <1>10, BoundedKept
<1>12. QED BY <1>5, <1>6, <1>7, <1>8, <1>9, <1>11

LEMMA NewAccountType ==
    ASSUME TypeOK, NEW e \in Spellings, NEW provider \in {"email", "google"},
           NEW g \in Identities \cup {Null}, NewAccount(e, provider, g)
    PROVE  /\ account' \in [Spellings -> AccountRow]
           /\ \A f \in Spellings : account[f].born > 0 => account'[f] = account[f]
           /\ \A f \in Spellings : account'[f] # account[f] =>
                  f = e /\ account'[f].provider = provider /\ account'[f].born > 0
<1> DEFINE row == [provider |-> provider, sub |-> g, born |-> Births + 1]
<1>1. row \in AccountRow /\ row.born > 0 /\ row.provider = provider BY BirthsType DEF AccountRow
<1>2. account \in [Spellings -> AccountRow] BY DEF TypeOK, AccountRow
<1>3. account' = account \/ (~(account[e].born > 0) /\ account' = [account EXCEPT ![e] = row])
  BY DEF NewAccount
<1> HIDE DEF row
<1>4. QED BY <1>1, <1>2, <1>3

LEMMA InsertUserInv ==
    ASSUME IInv, NEW w \in Workers, InsertUser(w)
    PROVE  IInv'
<1> USE DEF IInv
<1> DEFINE e == task[w].email
           s == task[w].sid
<1>1. /\ s \in Sessions /\ session[s].known /\ ~session[s].live /\ e \in Spellings
      /\ SameMailbox(e, session[s].email)
  BY DEF InsertUser, At, TasksNamed, Shown, Verifying, AfterCheck
<1>2. NewAccount(e, "email", Null) /\ UNCHANGED <<session, admins>> BY DEF InsertUser
<1> HIDE DEF e, s
<1>3. /\ account' \in [Spellings -> AccountRow]
      /\ \A f \in Spellings : account'[f] = account[f] \/ (f = e /\ account'[f].born > 0)
  BY <1>1, <1>2, NewAccountType
<1>4. RowsBorn' BY <1>3 DEF RowsBorn
<1>5. MailboxProved'
  <2>1. ASSUME NEW f \in Spellings, account'[f].provider = "email" PROVE Proved(f)'
    <3>1. CASE f = e BY <1>1, <1>2, <3>1 DEF Proved, SameMailbox
    <3>2. CASE f # e BY <1>2, <1>3, <2>1, <3>2 DEF MailboxProved, Proved, SameMailbox
    <3>3. QED BY <3>1, <3>2
  <2>2. QED BY <1>2, <2>1 DEF MailboxProved, SameMailbox
<1>6. QED BY <1>3, <1>4, <1>5, AccountStep DEF InsertUser

LEMMA GoogleInv ==
    ASSUME IInv, NEW w \in Workers, NEW g \in Identities, NEW e \in Spellings, Google(w, g, e)
    PROVE  IInv'
<1>1. PICK found \in Spellings \cup {Null} :
          task' = [task EXCEPT ![w] = [Idle EXCEPT !.pc = "google", !.email = e, !.sub = g,
                                                   !.found = found]]
  BY DEF Google, Oldest, Existing
<1> DEFINE t == [Idle EXCEPT !.pc = "google", !.email = e, !.sub = g, !.found = found]
<1>2. t \in TaskRow /\ t.pc = "google" /\ t.email = e BY IdleType DEF TaskRow, Pcs
<1>3. task' = [task EXCEPT ![w] = t] BY <1>1
<1> HIDE DEF t
<1>4. QED BY <1>2, <1>3, NeutralStep, FaultsType DEF Google, Neutral, limiter, IInv, TypeOK

(* Nobody's identity, provider or age changes: what LinkOrCreate leaves.   *)
LEMMA LinkKeeps ==
    ASSUME TypeOK, NEW w \in Workers, task[w].email \in Spellings, LinkOrCreate(w)
    PROVE  /\ account' \in [Spellings -> AccountRow]
           /\ \A f \in Spellings : account[f].born > 0 =>
                  /\ account'[f].born = account[f].born
                  /\ account'[f].provider = account[f].provider
                  /\ account[f].sub # Null => account'[f].sub = account[f].sub
           /\ \A f \in Spellings : account'[f].provider = "email" =>
                  account[f].provider = "email" /\ account'[f].born = account[f].born
<1> DEFINE found == task[w].found
           g == task[w].sub
<1>1. g \in Identities \cup {Null} /\ account \in [Spellings -> AccountRow]
  BY DEF TypeOK, AccountRow
<1>2. CASE found = Null
  <2>1. NewAccount(task[w].email, "google", g) BY <1>2 DEF LinkOrCreate
  <2>2. /\ account' \in [Spellings -> AccountRow]
        /\ \A f \in Spellings : account[f].born > 0 => account'[f] = account[f]
        /\ \A f \in Spellings : account'[f] # account[f] => account'[f].provider = "google"
    BY <1>1, <2>1, NewAccountType
  <2>3. QED BY <2>2
<1>3. CASE found # Null
  <2>1. account' = [account EXCEPT ![found].sub = KeepSub(account[found].sub, g)]
    BY <1>3 DEF LinkOrCreate
  <2>2. CASE found \notin Spellings BY <1>1, <2>1, <2>2
  <2>3. CASE found \in Spellings
    <3> DEFINE row == [account[found] EXCEPT !.sub = KeepSub(account[found].sub, g)]
    <3>1. /\ row \in AccountRow /\ row.born = account[found].born
          /\ row.provider = account[found].provider
          /\ account[found].sub # Null => row.sub = account[found].sub
      BY <1>1, <2>3 DEF KeepSub, AccountRow
    <3>2. account' = [account EXCEPT ![found] = row] BY <1>1, <2>1
    <3> HIDE DEF row
    <3>3. QED BY <1>1, <2>3, <3>1, <3>2
  <2>4. QED BY <2>2, <2>3
<1>4. QED BY <1>2, <1>3

LEMMA LinkOrCreateInv ==
    ASSUME IInv, NEW w \in Workers, LinkOrCreate(w)
    PROVE  IInv'
<1>1. task[w].email \in Spellings BY DEF LinkOrCreate, At, IInv, TasksNamed
<1>2. /\ account' \in [Spellings -> AccountRow]
      /\ \A f \in Spellings : account'[f].provider = "email" =>
             account[f].provider = "email" /\ account'[f].born = account[f].born
  BY <1>1, LinkKeeps DEF IInv
<1>3. RowsBorn' BY <1>2 DEF IInv, RowsBorn
<1>4. MailboxProved' BY <1>2, MailboxKept DEF IInv, LinkOrCreate
<1>5. QED BY <1>2, <1>3, <1>4, AccountStep DEF LinkOrCreate

----------------------------------------------------------------------------
(* The actions: time and crashes *)

(* Steps of Redis: sessions change, their codes never come back. *)
LEMMA LapseInv ==
    ASSUME IInv, NEW s \in Sessions, LapseCode(s) \/ LapseCounter(s)
    PROVE  IInv'
<1> USE DEF IInv
<1>1. UNCHANGED <<account, hits, failures, task, compared, admins, faults>>
  BY DEF LapseCode, LapseCounter, limiter
<1>2. /\ session' \in [Sessions -> SessionRow]
      /\ \A r \in Sessions : /\ session'[r].known = session[r].known
                             /\ session'[r].email = session[r].email
                             /\ session'[r].live => session[r].live
                             /\ session'[r].attempts = session[r].attempts \/ ~session'[r].live
  <2>1. CASE LapseCode(s)
    <3> DEFINE row == [session[s] EXCEPT !.live = FALSE]
    <3>1. session \in [Sessions -> SessionRow] BY DEF TypeOK, SessionRow
    <3>2. /\ row \in SessionRow /\ ~row.live /\ row.known = session[s].known
          /\ row.email = session[s].email
      BY <3>1 DEF SessionRow
    <3>3. session' = [session EXCEPT ![s] = row] BY <2>1, <3>1 DEF LapseCode
    <3> HIDE DEF row
    <3>4. QED BY <3>1, <3>2, <3>3
  <2>2. CASE LapseCounter(s) BY <2>2, CounterGone DEF LapseCounter
  <2>3. QED BY <2>1, <2>2
<1>3. TypeOK' BY <1>1, <1>2 DEF TypeOK, SessionRow
<1>4. TasksNamed' BY <1>1, <1>2 DEF TasksNamed, Verifying
<1>5. OneMinter' /\ RowsBorn' BY <1>1 DEF OneMinter, RowsBorn
<1>6. Counted' BY <1>1, <1>2 DEF Counted
<1>7. Shown' BY <1>1, <1>2 DEF Shown, SameMailbox, TasksNamed, Verifying, AfterCheck
<1>8. MailboxProved' /\ AdminsKnown' BY <1>1, <1>2, MailboxKept
<1>9. \A r \in Sessions : Pending(r)' \subseteq Pending(r) BY <1>1, <1>2 DEF Pending
<1>10. Bounded' BY <1>1, <1>9, BoundedKept
<1>11. QED BY <1>3, <1>4, <1>5, <1>6, <1>7, <1>8, <1>10

LEMMA LapseHitsInv ==
    ASSUME IInv, NEW e \in Spellings, LapseHits(e)
    PROVE  IInv'
<1>1. hits' \in [Spellings -> [n : Nat, expires : BOOLEAN]] BY DEF LapseHits, IInv, TypeOK
<1>2. TypeOK' BY <1>1 DEF LapseHits, IInv, TypeOK
<1>3. QED BY <1>2, NeutralInv DEF LapseHits

LEMMA CrashInv == ASSUME IInv, Crash PROVE IInv'
<1>1. \A v \in Workers : task'[v] = Idle BY DEF Crash
<1>2. task' \in [Workers -> TaskRow] BY IdleType DEF Crash
<1>3. faults' \in Nat BY FaultsType DEF Crash, IInv
<1>4. TypeOK' BY <1>2, <1>3 DEF Crash, IInv, TypeOK, TaskRow
<1>5. QED BY <1>1, <1>4, IdleType, NeutralInv DEF Crash, Neutral

----------------------------------------------------------------------------
LEMMA NextInv == IInv /\ [Next]_vars => IInv'
<1> SUFFICES ASSUME IInv, [Next]_vars PROVE IInv' OBVIOUS
<1>1. CASE UNCHANGED vars
  <2>1. TypeOK' BY <1>1 DEF vars, IInv, TypeOK
  <2>2. QED BY <1>1, <2>1, NeutralInv DEF vars
<1>2. ASSUME NEW w \in Workers, Serve(w) PROVE IInv'
  <2>1. Asking \subseteq Spellings BY SignUpAssumption
  <2>2. QED
    BY <1>2, <2>1, BeginInv, LimiterInv, CheckNewInv, MintInv, MailCodeInv, VerifyInv,
       ReadAttemptsInv, ReadStoredInv, GuessInv, DropCodeInv, DropCounterInv, AdminTokenInv,
       CheckSignupInv, InsertUserInv, GoogleInv, LinkOrCreateInv DEF Serve
<1>3. QED BY <1>1, <1>2, LapseInv, LapseHitsInv, CrashInv DEF Next

(* The invariant of the codes, counters and accounts holds through every   *)
(* interleaving of the commands, crashes included.                         *)
THEOREM SignUpInductive == Spec => []IInv
BY InitInv, NextInv, PTL DEF Spec

(* No code is compared with more than MAX_OTP_ATTEMPTS - 1 guesses and one *)
(* for each request served at once, however they interleave.               *)
THEOREM BruteForceBound == Spec => []GuessesBounded
<1>1. IInv => GuessesBounded
  <2> SUFFICES ASSUME IInv, NEW s \in Sessions
               PROVE  compared[s] <= MaxAttempts - 1 + Cardinality(Workers)
    BY DEF GuessesBounded
  <2>1. compared[s] \in Nat
        /\ compared[s] + Cardinality(Pending(s)) <= MaxAttempts - 1 + Cardinality(Workers)
    BY DEF IInv, TypeOK, Bounded
  <2>2. QED BY <2>1, PendingFinite, SignUpAssumption
<1>2. QED BY <1>1, SignUpInductive, PTL

(* A password account and an administrator's token go back to a spent code *)
(* mailed to that mailbox (register_verify, verify_admin_otp).             *)
THEOREM MailboxWasProved == Spec => []MailboxProved
BY SignUpInductive, PTL DEF IInv

(* No row of core.users changes hands (google_callback, register_verify).  *)
THEOREM IdentityKept == Spec => SubKept
<1> DEFINE Kept == \A e \in Spellings : account[e].born > 0 =>
                 /\ account'[e].born = account[e].born
                 /\ account'[e].provider = account[e].provider
                 /\ account[e].sub # Null => account'[e].sub = account[e].sub
<1>1. IInv /\ [Next]_vars => Kept \/ UNCHANGED vars
  <2> SUFFICES ASSUME IInv, Next PROVE Kept OBVIOUS
  <2>1. CASE UNCHANGED account BY <2>1
  <2>2. ASSUME NEW w \in Workers, InsertUser(w) PROVE Kept
    <3>1. task[w].email \in Spellings BY <2>2 DEF InsertUser, At, IInv, TasksNamed
    <3>2. NewAccount(task[w].email, "email", Null) BY <2>2 DEF InsertUser
    <3>3. QED BY <3>1, <3>2, NewAccountType DEF IInv
  <2>3. ASSUME NEW w \in Workers, LinkOrCreate(w) PROVE Kept
    <3>1. task[w].email \in Spellings BY <2>3 DEF LinkOrCreate, At, IInv, TasksNamed
    <3>2. QED BY <2>3, <3>1, LinkKeeps DEF IInv
  <2>4. QED
    BY <2>1, <2>2, <2>3 DEF Next, Serve, Register, SendOtp, SendAdminOtp, Begin, Incr, Expire,
       RedisFails, CheckNew, Mint, MailCode, Verify, ReadAttempts, ReadStored, Guess, DropCode,
       DropCounter, AdminToken, CheckSignup, Google, LapseCode, LapseCounter, LapseHits, Crash
<1>2. QED BY <1>1, SignUpInductive, PTL DEF Spec, SubKept
=============================================================================
