------------------------------- MODULE MCSite -------------------------------
(***************************************************************************)
(* Staff, Community, Inbox, Coupons, Cashfree and Runners for TLC. They    *)
(* share neither state nor actions, so a behaviour of all of them is one   *)
(* behaviour of each: a run picks the one it follows, and the others rest. *)
(* So do likes and comments, which share but the problems and the workers. *)
(***************************************************************************)
EXTENDS Staff, Community, Inbox, Coupons, Cashfree, Runners, TLC

CONSTANTS w1, w2, u1, p1, p2, i1, i2, e1, e2, k1, m1, m2,
          j1, j2, j3, t1, t2, r1, r2, o1, f1, f2

VARIABLE focus

vars == <<staffVars, communityVars, inboxVars, couponVars, cashfreeVars, runnerVars, focus>>

Data == (j1 :> {t1}) @@ (j2 :> {t1}) @@ (j3 :> {t2})

Charged == [o \in OldOrders |-> 2]

(* One of the initial states of Cashfree, for the runs of the others.      *)
OldOrdersRest ==
    planPrice = 2 /\ \A o \in OldOrders : orders[o].status = "failed" /\ orders[o].expected = 2

Init ==
    /\ StaffInit /\ CommunityInit /\ InboxInit /\ CouponsInit /\ CashfreeInit
    /\ RunnersInit
    /\ focus \in {"staff", "likes", "comments", "inbox", "coupons", "cashfree", "spark",
                  "sandbox"}
    /\ focus = "cashfree" \/ OldOrdersRest

Next ==
    \/ /\ focus = "staff" /\ StaffNext
       /\ UNCHANGED <<communityVars, inboxVars, couponVars, cashfreeVars, runnerVars, focus>>
    \/ /\ \/ focus = "likes" /\ LikeNext
          \/ focus = "comments" /\ CommentNext
          \/ focus \in {"likes", "comments"} /\ ProblemGone
       /\ UNCHANGED <<staffVars, inboxVars, couponVars, cashfreeVars, runnerVars, focus>>
    \/ /\ focus = "inbox" /\ InboxNext
       /\ UNCHANGED <<staffVars, communityVars, couponVars, cashfreeVars, runnerVars, focus>>
    \/ /\ focus = "coupons" /\ CouponsNext
       /\ UNCHANGED <<staffVars, communityVars, inboxVars, cashfreeVars, runnerVars, focus>>
    \/ /\ focus = "cashfree" /\ CashfreeNext
       /\ UNCHANGED <<staffVars, communityVars, inboxVars, couponVars, runnerVars, focus>>
    \/ /\ focus = "spark" /\ SparkNext /\ UNCHANGED sandboxVars
       /\ UNCHANGED <<staffVars, communityVars, inboxVars, couponVars, cashfreeVars, focus>>
    \/ /\ focus = "sandbox" /\ SandboxNext /\ UNCHANGED sparkVars
       /\ UNCHANGED <<staffVars, communityVars, inboxVars, couponVars, cashfreeVars, focus>>

Spec == Init /\ [][Next]_vars
=============================================================================
