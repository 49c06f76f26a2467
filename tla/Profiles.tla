------------------------------ MODULE Profiles ------------------------------
(***************************************************************************)
(* What the site shows of its users: the profile form with its unique      *)
(* username, the leaderboard and the pages that count solved problems      *)
(* (user/router.py, migrate_usernames.py).                                 *)
(***************************************************************************)
EXTENDS Platform

CONSTANTS
    MaxMembers,     \* accounts, in the order of their ids
    Names,          \* usernames
    Blank,          \* the empty username
    MaxStreak       \* bound on the streaks shown

Members == 1..MaxMembers

ASSUME ProfilesAssumption ==
    /\ MaxMembers \in Nat /\ MaxStreak \in Nat
    /\ Null \notin Names /\ Null \notin Members
    /\ Blank \notin Names /\ Blank # Null

VARIABLES
    account,    \* core.users
    form,       \* what a request of update_my_profile has read
    solved,     \* core.user_solutions, which has no foreign key
    streak,     \* core.streaks, as stored
    onFile,     \* problems on record
    blanked     \* members who sent an empty username over the one they had (history)

profileVars == <<account, form, solved, streak, onFile, blanked>>

----------------------------------------------------------------------------
NoAccount == [known |-> FALSE, name |-> Null, onboarded |-> FALSE]
NoForm    == [pc |-> "idle", user |-> Null, name |-> Null]

Taken(n, u) == \E v \in Members \ {u} : account[v].name = n

ProfilesInit ==
    /\ account = [u \in Members |-> NoAccount]
    /\ form = [w \in Workers |-> NoForm]
    /\ solved = {}
    /\ streak = [u \in Members |-> 0]
    /\ onFile = Problems
    /\ blanked = {}

----------------------------------------------------------------------------
(* A sign-up inserts the account without a username. *)
Register(u) ==
    /\ ~account[u].known
    /\ account' = [account EXCEPT ![u].known = TRUE]
    /\ UNCHANGED <<form, solved, streak, onFile, blanked>>

(* update_my_profile: who sends no name, or an empty one, and has none is   *)
(* given one, free when it was looked up unless eleven attempts were not.  *)
(* Whoever has one and sends an empty one passes every check with it.      *)
NoName == {Null, Blank}

OpenForm(w, u, wanted, drawn) ==
    /\ form[w].pc = "idle"
    /\ form' = [form EXCEPT ![w] =
                  [pc |-> "save", user |-> u,
                   name |-> IF {wanted, account[u].name} \subseteq NoName THEN drawn ELSE wanted]]
    /\ UNCHANGED <<account, solved, streak, onFile, blanked>>

(* INSERT ... ON CONFLICT (user_id): UNIQUE refuses a name that is taken.  *)
(* Mutated form: what the form leaves out is cleared.                      *)
Sent(new, old)     == new
Coalesce(new, old) == IF new # Null THEN new ELSE old

SaveForm(w) ==
    LET u == form[w].user
        n == form[w].name
        free == n = Null \/ ~Taken(n, u) IN
    /\ form[w].pc = "save"
    /\ account' = IF ~free THEN account
                  ELSE [account EXCEPT ![u] = [known |-> TRUE, onboarded |-> TRUE,
                                               name |-> Coalesce(n, account[u].name)]]
    /\ blanked' = IF free /\ n = Blank THEN blanked \cup {u} ELSE blanked
    /\ form' = [form EXCEPT ![w] = NoForm]
    /\ UNCHANGED <<solved, streak, onFile>>

(* migrate_usernames.py, one account of those it read without a name;      *)
(* the name may have been chosen since then.                               *)
Migrate(u, n) ==
    /\ account[u].known /\ ~Taken(n, u)
    /\ account' = [account EXCEPT ![u].name = n]
    /\ UNCHANGED <<form, solved, streak, onFile, blanked>>

(* A submission is accepted (Submission has its steps). *)
Solve(u, p, s) ==
    /\ account[u].onboarded /\ p \in onFile
    /\ solved' = solved \cup {<<u, p>>}
    /\ streak' = [streak EXCEPT ![u] = s]
    /\ UNCHANGED <<account, form, onFile, blanked>>

(* delete_problem leaves the solutions behind. *)
Vanish(p) ==
    /\ p \in onFile
    /\ onFile' = onFile \ {p}
    /\ UNCHANGED <<account, form, solved, streak, blanked>>

ProfilesNext ==
    \/ \E u \in Members : Register(u)
    \/ \E w \in Workers, u \in Members, wanted \in Names \cup NoName, drawn \in Names :
           OpenForm(w, u, wanted, drawn)
    \/ \E w \in Workers : SaveForm(w)
    \/ \E u \in Members, n \in Names : Migrate(u, n)
    \/ \E u \in Members, p \in Problems, s \in 1..MaxStreak : Solve(u, p, s)
    \/ \E p \in Problems : Vanish(p)

ProfilesSpec == ProfilesInit /\ [][ProfilesNext]_profileVars

----------------------------------------------------------------------------
(* get_leaderboard: RANK() over what is solved, and then the streak, shown *)
(* in pages of consecutive positions. Mutated form: ordered by rank alone.   *)
Shown    == {u \in Members : account[u].known}
Total(u) == Cardinality({p \in Problems : <<u, p>> \in solved})
Ahead(u, v) == \/ Total(u) > Total(v)
               \/ Total(u) = Total(v) /\ streak[u] > streak[v]
Rank(u)  == 1 + Cardinality({v \in Shown : Ahead(v, u)})

RankFirst(u, v) == Rank(u) < Rank(v)
Precedes(u, v)  == Rank(u) < Rank(v) \/ (Rank(u) = Rank(v) /\ u < v)
Position(u)     == 1 + Cardinality({v \in Shown : Precedes(v, u)})

(* get_public_profile and get_my_stats: solved problems still on record.   *)
StatsSolved(u) == Cardinality({p \in onFile : <<u, p>> \in solved})
Recent(u)      == {p \in onFile : <<u, p>> \in solved}
Profile(u)     == [solved |-> StatsSolved(u), submissions |-> Recent(u),
                   current_streak |-> streak[u], leaderboard_rank |-> Rank(u)]

----------------------------------------------------------------------------
ProfilesTypeOK ==
    /\ account \in [Members -> [known : BOOLEAN, name : Names \cup NoName, onboarded : BOOLEAN]]
    /\ form \in [Workers -> [pc : {"idle", "save"}, user : Members \cup {Null},
                             name : Names \cup NoName]]
    /\ solved \subseteq Members \X Problems
    /\ streak \in [Members -> 0..MaxStreak]
    /\ onFile \subseteq Problems /\ blanked \subseteq Members

(* Two requests of one user, other users and the migration may race for    *)
(* names: a user who is past onboarding has a name nobody else has, and a  *)
(* public page with it, but for who overwrote it with the empty name       *)
(* (update_my_profile).                                                    *)
OnboardedHasPage ==
    \A u \in Members : account[u].onboarded =>
        /\ account[u].name \in Names \/ (account[u].name = Blank /\ u \in blanked)
        /\ ~Taken(account[u].name, u)

(* However many tie, whoever pages through the leaderboard meets everybody *)
(* once, and in the order of the ranks; and no profile counts more than    *)
(* the leaderboard does (get_leaderboard, get_public_profile).             *)
EachOnOnePage ==
    LET place == [u \in Shown |-> Position(u)] IN
    /\ {place[u] : u \in Shown} = 1..Cardinality(Shown)
    /\ \A u, v \in Shown : Total(u) > Total(v) => place[u] < place[v]
    /\ \A u \in Shown : Profile(u).solved <= Total(u)
=============================================================================
