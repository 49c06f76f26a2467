--------------------------- MODULE CommunityProofs ---------------------------
(***************************************************************************)
(* Theorems about Community, for every number of users, problems, comments *)
(* and requests at once.                                                   *)
(***************************************************************************)
EXTENDS Community, TLAPS

----------------------------------------------------------------------------
(* The invariant *)

(* Ids are given out once, in order. *)
IdsSpent == \A c \in CommentIds : OnRecord(c) => c <= used

(* Two levels: a reply is under a comment of its problem that is none.     *)
Below(cs, p, parent) == cs[parent].problem = p /\ cs[parent].parent = Null
TwoLevels ==
    \A c \in CommentIds : OnRecord(c) /\ comments[c].parent # Null =>
        Below(comments, comments[c].problem, comments[c].parent)

(* A comment about to be inserted read its parent earlier: that one may be *)
(* gone, but it is no other.                                               *)
ParentsRead ==
    \A w \in Workers : talk[w].pc = "post" =>
        /\ talk[w].row.problem \in Problems
        /\ talk[w].row.parent # Null =>
               /\ talk[w].row.parent \in CommentIds /\ talk[w].row.parent <= used
               /\ OnRecord(talk[w].row.parent) => Below(comments, talk[w].row.problem, talk[w].row.parent)

(* A like is somebody's, and it is some comment that is deleted.           *)
RequestsNamed == \A w \in Workers : /\ talk[w].pc = "like" => talk[w].user \in Users
                                    /\ talk[w].pc = "delete" => talk[w].id \in CommentIds

IInv == CommunityTypeOK /\ IdsSpent /\ TwoLevels /\ ParentsRead /\ RequestsNamed /\ NoOrphanVotes

CommentRow == [problem : Problems \cup {Null}, user : Users \cup {Null},
               parent : CommentIds \cup {Null}]
TalkRow == [pc : {"idle", "like", "post", "delete", "vote"}, user : Users \cup {Null},
            id : CommentIds \cup {Null}, vote : -1..1, had : -1..1, row : CommentRow]

----------------------------------------------------------------------------
(* Operators *)

LEMMA NullFacts == Null \notin CommentIds /\ Null \notin Problems /\ CommentIds \subseteq Nat
BY PlatformAssumption, CommunityAssumption DEF CommentIds

LEMMA RecordTypes ==
    /\ NoComment \in CommentRow /\ NoComment.problem = Null
    /\ NoTalk \in TalkRow /\ NoTalk.pc = "idle"
BY DEF NoComment, NoTalk, CommentRow, TalkRow

(* Two rounds of replies reach everything below a comment. *)
LEMMA ThreadClosed ==
    ASSUME IInv, NEW C \in SUBSET CommentIds,
           NEW c \in CommentIds, OnRecord(c), comments[c].parent \in Thread(Thread(C))
    PROVE  c \in Thread(Thread(C))
<1> DEFINE q == comments[c].parent
<1>1. q \in CommentIds
  BY NullFacts DEF Thread, Replies
<1>2. comments[q].parent = Null
  BY <1>1, NullFacts DEF IInv, TwoLevels, Below
<1>3. \A D \in SUBSET CommentIds : q \in Thread(D) => q \in D
  BY <1>2, NullFacts DEF Thread, Replies
<1>4. Thread(C) \in SUBSET CommentIds BY DEF Thread, Replies
<1>5. q \in C BY <1>3, <1>4
<1>6. c \in Thread(C) BY <1>5 DEF Thread, Replies
<1>7. QED BY <1>6 DEF Thread

----------------------------------------------------------------------------
(* Steps on comments *)

(* What is removed, is removed with what hangs below it. *)
LEMMA DropInv ==
    ASSUME IInv, NEW C \in SUBSET CommentIds, Drop(C), UNCHANGED used,
           posted' \subseteq posted, likes' \subseteq likes,
           \A l \in likes' : l[2] \in posted',
           talk' \in [Workers -> TalkRow],
           \A w \in Workers : talk'[w].pc = "post" => talk'[w] = talk[w],
           RequestsNamed'
    PROVE  IInv'
<1> DEFINE gone == Thread(Thread(C))
<1> USE DEF IInv
<1>1. \A c \in CommentIds : comments'[c] = IF c \in gone THEN NoComment ELSE comments[c]
  BY DEF Drop, Without
<1>2. comments' \in [CommentIds -> CommentRow]
  BY RecordTypes DEF Drop, Without, CommunityTypeOK, CommentRow
<1>3. votes' \in [Users \X CommentIds -> -1..1]
  BY DEF Drop, CommunityTypeOK
<1>4. CommunityTypeOK'
  BY <1>2, <1>3 DEF CommunityTypeOK, CommentRow, TalkRow
<1>5. IdsSpent' BY <1>1, RecordTypes DEF IdsSpent, OnRecord
<1>6. TwoLevels'
  <2> SUFFICES ASSUME NEW c \in CommentIds, OnRecord(c)', comments'[c].parent # Null
               PROVE  Below(comments', comments'[c].problem, comments'[c].parent)
    BY DEF TwoLevels
  <2>1. c \notin gone /\ comments'[c] = comments[c] /\ OnRecord(c)
    BY <1>1, RecordTypes DEF OnRecord
  <2>2. comments[c].parent \notin gone BY <2>1, ThreadClosed
  <2>3. comments[c].parent \in CommentIds BY <2>1 DEF CommunityTypeOK
  <2>4. comments'[comments[c].parent] = comments[comments[c].parent] BY <1>1, <2>2, <2>3
  <2>5. QED BY <2>1, <2>4 DEF TwoLevels, Below
<1>7. ParentsRead' BY <1>1, RecordTypes DEF ParentsRead, Below, OnRecord
<1>8. NoOrphanVotes'
  <2>1. \A v \in Users \X CommentIds : votes'[v] # 0 => v[2] \notin gone /\ votes[v] # 0
    BY DEF Drop
  <2>2. QED BY <2>1, <1>1 DEF NoOrphanVotes, OnRecord
<1>9. QED BY <1>4, <1>5, <1>6, <1>7, <1>8

LEMMA InsertInv ==
    ASSUME IInv, NEW w \in Workers, InsertComment(w)
    PROVE  IInv'
<1> DEFINE row == talk[w].row
<1> USE DEF IInv
<1>0. talk' = [talk EXCEPT ![w] = NoTalk] /\ UNCHANGED <<posted, likes, votes>>
  BY DEF InsertComment, Finish
<1>1. talk' \in [Workers -> TalkRow] BY <1>0, RecordTypes DEF CommunityTypeOK, TalkRow, CommentRow
<1>2. \A v \in Workers : talk'[v].pc = "post" => talk'[v] = talk[v]
  BY <1>0, RecordTypes DEF CommunityTypeOK
<1>2a. RequestsNamed' BY <1>0, RecordTypes DEF RequestsNamed, CommunityTypeOK
<1>3. CASE UNCHANGED <<comments, used>>
  <2>1. CommunityTypeOK' BY <1>0, <1>1, <1>3 DEF CommunityTypeOK, TalkRow, CommentRow
  <2>2. IdsSpent' /\ TwoLevels' /\ NoOrphanVotes'
    BY <1>0, <1>3 DEF IdsSpent, TwoLevels, Below, OnRecord, NoOrphanVotes
  <2>3. ParentsRead' BY <1>2, <1>3 DEF ParentsRead, Below, OnRecord
  <2>4. QED BY <2>1, <2>2, <2>3, <1>2a
<1>4. CASE /\ row.problem \in posted /\ (row.parent # Null => OnRecord(row.parent))
           /\ used' = used + 1 /\ comments' = [comments EXCEPT ![used'] = row]
  <2> DEFINE c == used + 1
  <2>1. c \in CommentIds /\ talk[w].pc = "post" /\ used \in Nat
    BY CommunityAssumption DEF InsertComment, CommunityTypeOK, CommentIds
  <2>2. ~OnRecord(c) BY <2>1 DEF IdsSpent, CommentIds
  <2>3. row \in CommentRow /\ row.problem \in Problems BY <2>1 DEF CommunityTypeOK, CommentRow, ParentsRead
  <2>4. \A d \in CommentIds : comments'[d] = IF d = c THEN row ELSE comments[d]
    BY <1>4, <2>1 DEF CommunityTypeOK
  <2>5. CommunityTypeOK'
    <3>1. comments' \in [CommentIds -> CommentRow] BY <1>4, <2>3 DEF CommunityTypeOK, CommentRow
    <3>2. used' \in 0..MaxComments BY <1>4, <2>1, CommunityAssumption DEF CommentIds
    <3>3. QED BY <1>0, <1>1, <3>1, <3>2 DEF CommunityTypeOK, TalkRow, CommentRow
  <2>6. IdsSpent' BY <1>4, <2>1, <2>4, NullFacts DEF IdsSpent, OnRecord
  <2>7. \A d \in CommentIds, p \in Problems : OnRecord(d) /\ Below(comments, p, d) => Below(comments', p, d)
    BY <2>2, <2>4 DEF Below, OnRecord
  <2>8. row.parent # Null => row.parent \in CommentIds /\ OnRecord(row.parent) /\ Below(comments, row.problem, row.parent)
    BY <1>4, <2>1 DEF ParentsRead
  <2>9. TwoLevels'
    <3> SUFFICES ASSUME NEW d \in CommentIds, OnRecord(d)', comments'[d].parent # Null
                 PROVE  Below(comments', comments'[d].problem, comments'[d].parent)
      BY DEF TwoLevels
    <3>1. CASE d = c
      <4>1. comments'[d] = row BY <3>1, <2>4
      <4>2. Below(comments', row.problem, row.parent) BY <4>1, <2>3, <2>7, <2>8
      <4>3. QED BY <4>1, <4>2 DEF Below
    <3>2. CASE d # c
      <4>1. comments'[d] = comments[d] /\ OnRecord(d) BY <3>2, <2>4 DEF OnRecord
      <4>2. /\ Below(comments, comments[d].problem, comments[d].parent)
            /\ comments[d].parent \in CommentIds /\ comments[d].problem \in Problems
        BY <4>1 DEF TwoLevels, CommunityTypeOK, OnRecord
      <4>3. OnRecord(comments[d].parent)
        BY <4>1, <4>2 DEF Below, OnRecord
      <4>4. Below(comments', comments[d].problem, comments[d].parent) BY <4>1, <4>2, <4>3, <2>7 DEF Below
      <4>5. QED BY <4>1, <4>4 DEF Below
    <3>3. QED BY <3>1, <3>2
  <2>10. ParentsRead'
    <3> SUFFICES ASSUME NEW v \in Workers, talk'[v].pc = "post"
                 PROVE  /\ talk'[v].row.problem \in Problems
                        /\ talk'[v].row.parent # Null =>
                             /\ talk'[v].row.parent \in CommentIds /\ talk'[v].row.parent <= used'
                             /\ comments'[talk'[v].row.parent].problem # Null =>
                                    Below(comments', talk'[v].row.problem, talk'[v].row.parent)
      BY DEF ParentsRead, OnRecord
    <3>1. talk'[v] = talk[v] BY <1>2
    <3> DEFINE q == talk[v].row.parent
    <3>2. CASE q = Null BY <3>1, <3>2 DEF ParentsRead
    <3>3. CASE q # Null
      <4>1. /\ q \in CommentIds /\ q <= used /\ talk[v].row.problem \in Problems
            /\ OnRecord(q) => Below(comments, talk[v].row.problem, q)
        BY <3>1, <3>3 DEF ParentsRead
      <4>2. q # c /\ q <= used'
        <5>1. q \in Nat /\ used' = used + 1 /\ used \in Nat BY <4>1, <2>1, <1>4, NullFacts
        <5> HIDE DEF q
        <5>2. QED BY <5>1, <4>1
      <4>3. comments'[q] = comments[q] BY <2>4, <4>1, <4>2
      <4>4. QED BY <3>1, <4>1, <4>2, <4>3 DEF OnRecord, Below
    <3>4. QED BY <3>2, <3>3
  <2>11. NoOrphanVotes' BY <1>0, <2>2, <2>4 DEF NoOrphanVotes, OnRecord
  <2>12. QED BY <2>5, <2>6, <2>9, <2>10, <2>11, <1>2a
<1>5. QED BY <1>3, <1>4 DEF InsertComment
(* The other steps leave the comments alone. *)
LEMMA VotesInv ==
    ASSUME IInv, UNCHANGED <<posted, comments, used>>, NoOrphanVotes',
           likes' \subseteq Users \X Problems,
           votes' \in [Users \X CommentIds -> -1..1],
           talk' \in [Workers -> TalkRow],
           \A w \in Workers : talk'[w].pc = "post" => talk'[w] = talk[w],
           RequestsNamed'
    PROVE  IInv'
<1> USE DEF IInv
<1>1. CommunityTypeOK' BY DEF CommunityTypeOK, TalkRow, CommentRow
<1>2. IdsSpent' /\ TwoLevels' BY DEF IdsSpent, TwoLevels, Below, OnRecord
<1>3. ParentsRead' BY DEF ParentsRead, Below, OnRecord
<1>4. QED BY <1>1, <1>2, <1>3

(* A request that begins, and one that ends. *)
LEMMA ServeInv ==
    ASSUME IInv, UNCHANGED <<posted, comments, used, likes, votes>>,
           NEW w \in Workers, NEW t \in TalkRow, t.pc # "post", Serve(w, t),
           t.pc = "like" => t.user \in Users, t.pc = "delete" => t.id \in CommentIds
    PROVE  IInv'
<1>1. talk' \in [Workers -> TalkRow] BY DEF IInv, CommunityTypeOK, TalkRow, CommentRow, Serve
<1>2. \A v \in Workers : talk'[v].pc = "post" => talk'[v] = talk[v]
  BY DEF IInv, CommunityTypeOK, Serve
<1>3. NoOrphanVotes' BY DEF IInv, NoOrphanVotes, OnRecord
<1>4. RequestsNamed' BY DEF IInv, RequestsNamed, CommunityTypeOK, Serve
<1>5. QED BY <1>1, <1>2, <1>3, <1>4, VotesInv DEF IInv, CommunityTypeOK

LEMMA FinishTalk ==
    ASSUME IInv, NEW w \in Workers, Finish(w)
    PROVE  /\ talk' \in [Workers -> TalkRow]
           /\ \A v \in Workers : talk'[v].pc = "post" => talk'[v] = talk[v]
           /\ RequestsNamed'
BY RecordTypes DEF IInv, CommunityTypeOK, TalkRow, CommentRow, RequestsNamed, Finish

LEMMA ReadLikeInv ==
    ASSUME IInv, NEW w \in Workers, NEW u \in Users, NEW p \in Problems, ReadLike(w, u, p)
    PROVE  IInv'
<1> DEFINE t == [NoTalk EXCEPT !.pc = "like", !.user = u, !.row.problem = p,
                               !.had = IF <<u, p>> \in likes THEN 1 ELSE 0]
<1>1. t \in TalkRow /\ t.pc = "like" /\ t.user = u
  <2> DEFINE had == IF <<u, p>> \in likes THEN 1 ELSE 0
  <2>1. [NoComment EXCEPT !.problem = p] \in CommentRow BY RecordTypes DEF CommentRow
  <2>2. NoTalk.row = NoComment BY DEF NoTalk
  <2>3. t = [NoTalk EXCEPT !.pc = "like", !.user = u, !.row = [NoComment EXCEPT !.problem = p],
                           !.had = had]
    BY <2>2
  <2>4. had \in -1..1 OBVIOUS
  <2> HIDE DEF had, t
  <2>5. QED BY <2>1, <2>3, <2>4, RecordTypes DEF TalkRow
<1>2. Serve(w, t) BY DEF ReadLike
<1> HIDE DEF t
<1>3. QED BY <1>1, <1>2, ServeInv DEF ReadLike

LEMMA ToggleLikeInv ==
    ASSUME IInv, NEW w \in Workers, ToggleLike(w)
    PROVE  IInv'
<1> DEFINE like == <<talk[w].user, talk[w].row.problem>>
<1>1. \/ likes' \subseteq likes
      \/ likes' = likes \cup {like} /\ talk[w].row.problem \in posted
  BY DEF ToggleLike
<1>2. talk[w].pc = "like" /\ talk[w] \in TalkRow
  BY DEF ToggleLike, IInv, CommunityTypeOK, TalkRow, CommentRow
<1>3. \A l \in likes' : l[2] \in posted' BY <1>1 DEF ToggleLike, IInv, NoOrphanVotes
<1>4. NoOrphanVotes' BY <1>3 DEF ToggleLike, IInv, NoOrphanVotes, OnRecord
<1>5. likes' \subseteq Users \X Problems
  <2>1. likes \subseteq Users \X Problems BY DEF IInv, CommunityTypeOK
  <2>2. talk[w].user \in Users BY <1>2 DEF IInv, RequestsNamed
  <2>2a. posted \subseteq Problems BY DEF IInv, CommunityTypeOK
  <2>3. QED BY <1>1, <2>1, <2>2, <2>2a
<1>6. QED BY <1>4, <1>5, FinishTalk, VotesInv DEF ToggleLike, IInv, CommunityTypeOK
LEMMA ReadParentInv ==
    ASSUME IInv, NEW w \in Workers, NEW u \in Users, NEW p \in Problems,
           NEW parent \in CommentIds \cup {Null}, ReadParent(w, u, p, parent)
    PROVE  IInv'
<1> DEFINE t == [NoTalk EXCEPT !.pc = "post", !.row = [problem |-> p, user |-> u, parent |-> parent]]
<1> USE DEF IInv
<1>1. t \in TalkRow /\ t.pc = "post" /\ t.row.problem = p /\ t.row.parent = parent
  BY RecordTypes DEF TalkRow, CommentRow
<1>2. talk' = [talk EXCEPT ![w] = t] /\ UNCHANGED <<posted, likes, comments, used, votes>>
  BY DEF ReadParent, Serve
<1> HIDE DEF t
<1>3. \A v \in Workers : talk'[v] = IF v = w THEN t ELSE talk[v] BY <1>2 DEF CommunityTypeOK
<1>4. CommunityTypeOK' BY <1>1, <1>2 DEF CommunityTypeOK, TalkRow, CommentRow
<1>5. IdsSpent' /\ TwoLevels' /\ NoOrphanVotes'
  BY <1>2 DEF IdsSpent, TwoLevels, Below, OnRecord, NoOrphanVotes
<1>6. RequestsNamed' BY <1>1, <1>3 DEF RequestsNamed
<1>7. parent # Null => parent <= used /\ Below(comments, p, parent)
  BY DEF ReadParent, MayReply, IdsSpent, Below
<1>8. ParentsRead' BY <1>1, <1>2, <1>3, <1>7 DEF ParentsRead, Below, OnRecord
<1>9. QED BY <1>4, <1>5, <1>6, <1>8

LEMMA ReadOwnInv ==
    ASSUME IInv, NEW w \in Workers, NEW u \in Users, NEW c \in CommentIds, ReadOwn(w, u, c)
    PROVE  IInv'
<1> DEFINE t == [NoTalk EXCEPT !.pc = "delete", !.user = u, !.id = c]
<1>1. t \in TalkRow /\ t.pc = "delete" /\ t.id = c BY RecordTypes DEF TalkRow
<1>2. Serve(w, t) BY DEF ReadOwn
<1> HIDE DEF t
<1>3. QED BY <1>1, <1>2, ServeInv DEF ReadOwn

LEMMA ReadVoteInv ==
    ASSUME IInv, NEW w \in Workers, NEW u \in Users, NEW c \in CommentIds, NEW v \in {1, -1},
           ReadVote(w, u, c, v)
    PROVE  IInv'
<1> DEFINE t == [NoTalk EXCEPT !.pc = "vote", !.user = u, !.id = c, !.vote = v,
                               !.had = votes[<<u, c>>]]
<1>1. t \in TalkRow /\ t.pc = "vote"
  <2>1. votes[<<u, c>>] \in -1..1 BY DEF IInv, CommunityTypeOK
  <2>2. v \in -1..1 OBVIOUS
  <2>3. QED BY <2>1, <2>2, RecordTypes DEF TalkRow
<1>2. Serve(w, t) BY DEF ReadVote
<1> HIDE DEF t
<1>3. QED BY <1>1, <1>2, ServeInv DEF ReadVote

LEMMA ToggleVoteInv ==
    ASSUME IInv, NEW w \in Workers, ToggleVote(w)
    PROVE  IInv'
<1> DEFINE t == talk[w]
           now == votes[<<t.user, t.id>>]
           new == CASE t.had = t.vote               -> 0
                    [] t.had # 0 /\ t.had # t.vote  -> IF now # 0 THEN t.vote ELSE 0
                    [] t.had = 0 -> IF now = 0 /\ OnRecord(t.id) THEN t.vote ELSE now
<1>1. t \in TalkRow BY DEF IInv, CommunityTypeOK, TalkRow, CommentRow
<1>2. votes' = [votes EXCEPT ![<<t.user, t.id>>] = new] BY DEF ToggleVote
<1>3. new \in {0, t.vote, now} BY <1>1 DEF TalkRow
<1>4. new # 0 => now # 0 \/ OnRecord(t.id) BY <1>1 DEF TalkRow
<1> HIDE DEF new
<1>5. \A v \in Users \X CommentIds :
          votes'[v] = IF v = <<t.user, t.id>> THEN new ELSE votes[v]
  BY <1>2 DEF IInv, CommunityTypeOK
<1>6. votes' \in [Users \X CommentIds -> -1..1]
  <2>1. votes \in [Users \X CommentIds -> -1..1] /\ t.vote \in -1..1
    BY <1>1 DEF IInv, CommunityTypeOK, TalkRow
  <2>2. \A v \in Users \X CommentIds : votes'[v] \in -1..1 BY <1>3, <1>5, <2>1
  <2>3. QED BY <1>2, <2>1, <2>2
<1>7. NoOrphanVotes'
  <2>1. \A v \in Users \X CommentIds : votes'[v] # 0 => OnRecord(v[2])
    BY <1>4, <1>5 DEF IInv, NoOrphanVotes
  <2>2. QED BY <2>1 DEF IInv, NoOrphanVotes, OnRecord, ToggleVote
<1>8. QED BY <1>6, <1>7, FinishTalk, VotesInv DEF ToggleVote, IInv, CommunityTypeOK

LEMMA DeleteInv ==
    ASSUME IInv, (\E w \in Workers : DeleteOwn(w)) \/ (\E c \in CommentIds : Moderate(c))
    PROVE  IInv'
<1>1. ASSUME NEW w \in Workers, DeleteOwn(w) PROVE IInv'
  <2>1. talk[w].id \in CommentIds BY <1>1 DEF IInv, RequestsNamed, DeleteOwn
  <2>2. QED BY <1>1, <2>1, FinishTalk, DropInv DEF DeleteOwn, IInv, NoOrphanVotes
<1>2. ASSUME NEW c \in CommentIds, Moderate(c) PROVE IInv'
  BY <1>2, DropInv DEF Moderate, IInv, NoOrphanVotes, CommunityTypeOK, TalkRow, CommentRow, RequestsNamed
<1>3. QED BY <1>1, <1>2

LEMMA DropProblemInv ==
    ASSUME IInv, NEW p \in Problems, DropProblem(p)
    PROVE  IInv'
<1>1. \A l \in likes' : l \in likes /\ l[2] \in posted' BY DEF DropProblem, IInv, NoOrphanVotes
<1>2. QED
  BY <1>1, DropInv DEF DropProblem, IInv, CommunityTypeOK, TalkRow, CommentRow, RequestsNamed

LEMMA NextInv == IInv /\ [CommunityNext]_communityVars => IInv'
<1> SUFFICES ASSUME IInv, [CommunityNext]_communityVars PROVE IInv' OBVIOUS
<1>1. CASE UNCHANGED communityVars
  BY <1>1 DEF communityVars, IInv, CommunityTypeOK, IdsSpent, TwoLevels, Below, OnRecord,
              ParentsRead, RequestsNamed, NoOrphanVotes
<1>2. CASE CommunityNext
  BY <1>2, ReadLikeInv, ToggleLikeInv, ReadParentInv, InsertInv, ReadOwnInv, ReadVoteInv,
     ToggleVoteInv, DeleteInv, DropProblemInv
     DEF CommunityNext, LikeNext, CommentNext, ProblemGone
<1>3. QED BY <1>1, <1>2

LEMMA InitInv == CommunityInit => IInv
BY RecordTypes, NullFacts, CommunityAssumption
   DEF CommunityInit, IInv, CommunityTypeOK, TalkRow, CommentRow, IdsSpent, TwoLevels, OnRecord,
       ParentsRead, RequestsNamed, NoOrphanVotes

----------------------------------------------------------------------------
(* Two levels of comments, on one problem each, survive every history.     *)
THEOREM CommunityInductive == CommunitySpec => []IInv
BY InitInv, NextInv, PTL DEF CommunitySpec

(* Votes and likes go with what they are about, whatever was read before.  *)
THEOREM VotesHaveRows == CommunitySpec => []NoOrphanVotes
BY CommunityInductive, PTL DEF IInv

(* Two levels are enough for the pages: each comment is shown once.        *)
LEMMA ShownOnce == IInv => EveryCommentShown
<1> SUFFICES ASSUME IInv, NEW c \in CommentIds, OnRecord(c), NEW p \in Problems
             PROVE  {t \in TopLevel(p) : c \in ShownUnder(p, t)} =
                        IF comments[c].problem # p THEN {}
                        ELSE {IF comments[c].parent = Null THEN c ELSE comments[c].parent}
  BY DEF EveryCommentShown
<1> DEFINE q == comments[c].parent
<1>1. q \in CommentIds \cup {Null} BY DEF IInv, CommunityTypeOK
<1>2. q # Null => Below(comments, comments[c].problem, q) BY DEF IInv, TwoLevels
<1>3. \A t \in TopLevel(p) : c \in ShownUnder(p, t) <=> c = t \/ q = t
  BY DEF ShownUnder, Replies
<1>4. CASE q = Null BY <1>1, <1>3, <1>4, NullFacts DEF TopLevel
<1>5. CASE q # Null BY <1>1, <1>2, <1>3, <1>5, NullFacts DEF TopLevel, Below
<1>6. QED BY <1>4, <1>5

(* Every comment is shown exactly once, on the pages of its own problem    *)
(* only, for every history of posts, deletions and moderations.            *)
THEOREM CommentsShown == CommunitySpec => []EveryCommentShown
BY CommunityInductive, ShownOnce, PTL
=============================================================================
