----------------------------- MODULE MCContent -----------------------------
(***************************************************************************)
(* Content, Profiles and Judge for TLC. A run follows one of them, or one  *)
(* half of Content: the schedule, or the authors of problems, who share    *)
(* the life of problems; or one half of Profiles: the names, or the        *)
(* leaderboard. Bounds of the halves: one worker and two kinds of problems *)
(* for the schedule; for the authors one published problem, of a kind with *)
(* an output or with test cases, that has datasets or test cases; for the  *)
(* names nothing is solved; for the leaderboard one form at a time, and a  *)
(* name once given stays. Nothing tells two workers or two codes apart.    *)
(***************************************************************************)
EXTENDS Content, Profiles, Judge, TLC

CONSTANTS w1, w2, u1, c1, c2, n1, n2, p1, p2

VARIABLE focus

vars == <<contentVars, profileVars, judgeVars, focus>>

Published == [kind : {"pandas", "dsa"}, active : {TRUE}, num : {1}]

Nothing   == [columns |-> Null, rows |-> <<>>]

Init ==
    /\ ContentInit /\ ProfilesInit
    /\ \/ /\ focus \in {"schedule", "author", "names", "board"}
          /\ got = Nothing /\ expected = Nothing /\ ordered = FALSE /\ verdict = Null
       \/ focus = "judge" /\ JudgeInit

Next ==
    \/ /\ focus = "schedule" /\ ScheduleNext
       /\ \A v, w \in Workers : editor'[v].pc # "idle" /\ editor'[w].pc # "idle" => v = w
       /\ \A p \in Ids : problems'[p].kind # "dsa"
       /\ UNCHANGED <<profileVars, judgeVars, focus>>
    \/ /\ focus = "author" /\ AuthorNext
       /\ made' <= 1 /\ problems'[1] \in {NoProblem} \cup Published
       /\ data'[1] = 0 \/ cases'[1] = 0
       /\ UNCHANGED <<profileVars, judgeVars, focus>>
    \/ /\ focus = "names" /\ ProfilesNext
       /\ UNCHANGED <<solved, streak, onFile>>
       /\ UNCHANGED <<contentVars, judgeVars, focus>>
    \/ /\ focus = "board" /\ ProfilesNext
       /\ \A v, w \in Workers : form'[v].pc # "idle" /\ form'[w].pc # "idle" => v = w
       /\ \A u \in Members : account[u].name \in {Null, account'[u].name}
       /\ UNCHANGED <<contentVars, judgeVars, focus>>
    \/ /\ focus = "judge" /\ Compare
       /\ UNCHANGED <<contentVars, profileVars, focus>>

Symmetry == Permutations(Codes) \cup Permutations(Workers)

Spec == Init /\ [][Next]_vars
=============================================================================
