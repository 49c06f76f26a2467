----------------------------- MODULE Community -----------------------------
(***************************************************************************)
(* What users say about problems: likes, comments and the votes on them    *)
(* (votes and comments routers, moderation in admin/router.py).            *)
(*                                                                         *)
(* Every handler reads what it needs, and writes in a later statement: a   *)
(* parent, a comment or the problem itself may be gone by then.            *)
(***************************************************************************)
EXTENDS Platform

CONSTANTS
    MaxComments     \* bound: rows core.comments will ever have

ASSUME CommunityAssumption == MaxComments \in Nat /\ Null \notin 1..MaxComments

CommentIds == 1..MaxComments    \* in the order in which they are given out

VARIABLES
    posted,     \* problems on record
    likes,      \* core.problem_votes
    comments,   \* core.comments
    used,       \* how many comment ids were given out
    votes,      \* core.comment_votes, 0 where there is no row
    talk        \* what the request a worker serves has read

communityVars == <<posted, likes, comments, used, votes, talk>>

----------------------------------------------------------------------------
NoComment == [problem |-> Null, user |-> Null, parent |-> Null]
NoTalk    == [pc |-> "idle", user |-> Null, id |-> Null, row |-> NoComment, vote |-> 0, had |-> 0]

OnRecord(c) == comments[c].problem # Null
Replies(c)  == {r \in CommentIds : OnRecord(r) /\ comments[r].parent = c}

(* ON DELETE CASCADE of core.comments: the comments C, their replies, the  *)
(* replies of those, and every vote on them. Mutated form: of the replies  *)
(* only, the votes stay.                                                   *)
Thread(C) == C \cup UNION {Replies(c) : c \in C}
Without(gone) == [c \in CommentIds |-> IF c \in gone THEN NoComment ELSE comments[c]]
DropThread(C) ==
    /\ comments' = Without(Thread(Thread(C)))
    /\ UNCHANGED votes
Drop(C) ==
    LET gone == Thread(Thread(C)) IN
    /\ comments' = Without(gone)
    /\ votes' = [v \in Users \X CommentIds |-> IF v[2] \in gone THEN 0 ELSE votes[v]]

Serve(w, t) == talk[w].pc = "idle" /\ talk' = [talk EXCEPT ![w] = t]
Finish(w)   == talk' = [talk EXCEPT ![w] = NoTalk]

CommunityInit ==
    /\ posted = Problems
    /\ likes = {}
    /\ comments = [c \in CommentIds |-> NoComment]
    /\ used = 0
    /\ votes = [v \in Users \X CommentIds |-> 0]
    /\ talk = [w \in Workers |-> NoTalk]

----------------------------------------------------------------------------
(* toggle_vote of votes/router.py: SELECT EXISTS, then INSERT or DELETE;   *)
(* the primary key or the foreign key refuses the INSERT.                  *)
ReadLike(w, u, p) ==
    /\ Serve(w, [NoTalk EXCEPT !.pc = "like", !.user = u, !.row.problem = p,
                               !.had = IF <<u, p>> \in likes THEN 1 ELSE 0])
    /\ UNCHANGED <<posted, likes, comments, used, votes>>

ToggleLike(w) ==
    LET t == talk[w]  like == <<t.user, t.row.problem>> IN
    /\ t.pc = "like"
    /\ likes' = IF t.had = 1 THEN likes \ {like}
                ELSE IF t.row.problem \in posted THEN likes \cup {like} ELSE likes
    /\ Finish(w)
    /\ UNCHANGED <<posted, comments, used, votes>>

(* post_comment: a reply names a parent of this problem that is no reply.  *)
(* Mutated form: a reply to a reply.                                       *)
AnyDepth(p, parent)   == parent # Null => OnRecord(parent) /\ comments[parent].problem = p
MayReply(p, parent) ==
    parent # Null => OnRecord(parent) /\ comments[parent].problem = p /\ comments[parent].parent = Null

ReadParent(w, u, p, parent) ==
    /\ MayReply(p, parent)
    /\ Serve(w, [NoTalk EXCEPT !.pc = "post", !.row = [problem |-> p, user |-> u, parent |-> parent]])
    /\ UNCHANGED <<posted, likes, comments, used, votes>>

InsertComment(w) ==
    LET row == talk[w].row IN
    /\ talk[w].pc = "post" /\ used < MaxComments
    /\ IF row.problem \in posted /\ (row.parent # Null => OnRecord(row.parent))
       THEN used' = used + 1 /\ comments' = [comments EXCEPT ![used'] = row]
       ELSE UNCHANGED <<comments, used>>
    /\ Finish(w)
    /\ UNCHANGED <<posted, likes, votes>>

(* delete_comment: one's own; the admin's deletes any comment at once.     *)
ReadOwn(w, u, c) ==
    /\ OnRecord(c) /\ comments[c].user = u
    /\ Serve(w, [NoTalk EXCEPT !.pc = "delete", !.user = u, !.id = c])
    /\ UNCHANGED <<posted, likes, comments, used, votes>>

DeleteOwn(w) ==
    /\ talk[w].pc = "delete"
    /\ Drop({talk[w].id})
    /\ Finish(w)
    /\ UNCHANGED <<posted, likes, used>>

Moderate(c) ==
    /\ OnRecord(c)
    /\ Drop({c})
    /\ UNCHANGED <<posted, likes, used, talk>>

(* toggle_vote of comments/router.py: delete the same vote, update the     *)
(* other one, insert where there was none (refused if there is one now).   *)
ReadVote(w, u, c, v) ==
    /\ OnRecord(c)
    /\ Serve(w, [NoTalk EXCEPT !.pc = "vote", !.user = u, !.id = c, !.vote = v,
                               !.had = votes[<<u, c>>]])
    /\ UNCHANGED <<posted, likes, comments, used, votes>>

ToggleVote(w) ==
    LET t == talk[w]  now == votes[<<t.user, t.id>>] IN
    /\ t.pc = "vote"
    /\ votes' = [votes EXCEPT ![<<t.user, t.id>>] =
                   CASE t.had = t.vote               -> 0
                     [] t.had # 0 /\ t.had # t.vote  -> IF now # 0 THEN t.vote ELSE 0
                     [] t.had = 0                    -> IF now = 0 /\ OnRecord(t.id) THEN t.vote ELSE now]
    /\ Finish(w)
    /\ UNCHANGED <<posted, likes, comments, used>>

(* A problem deleted in the CMS takes its likes and comments with it.      *)
DropProblem(p) ==
    /\ p \in posted
    /\ posted' = posted \ {p}
    /\ likes' = {l \in likes : l[2] # p}
    /\ Drop({c \in CommentIds : comments[c].problem = p})
    /\ UNCHANGED <<used, talk>>

LikeNext ==
    \/ \E w \in Workers, u \in Users, p \in Problems : ReadLike(w, u, p)
    \/ \E w \in Workers : ToggleLike(w)

CommentNext ==
    \/ \E w \in Workers, u \in Users, p \in Problems, parent \in CommentIds \cup {Null} :
           ReadParent(w, u, p, parent)
    \/ \E w \in Workers : InsertComment(w) \/ DeleteOwn(w) \/ ToggleVote(w)
    \/ \E w \in Workers, u \in Users, c \in CommentIds : ReadOwn(w, u, c)
    \/ \E c \in CommentIds : Moderate(c)
    \/ \E w \in Workers, u \in Users, c \in CommentIds, v \in {1, -1} : ReadVote(w, u, c, v)

ProblemGone == \E p \in Problems : DropProblem(p)

CommunityNext == LikeNext \/ CommentNext \/ ProblemGone

CommunitySpec == CommunityInit /\ [][CommunityNext]_communityVars

----------------------------------------------------------------------------
(* get_comments: the pages of a problem, each top-level comment with its   *)
(* replies; count_only counts the former.                                  *)
TopLevel(p) == {c \in CommentIds : comments[c].problem = p /\ comments[c].parent = Null}
ShownUnder(p, t) == {t} \cup Replies(t)

CommunityTypeOK ==
    /\ posted \subseteq Problems
    /\ likes \subseteq Users \X Problems
    /\ comments \in [CommentIds -> [problem : Problems \cup {Null}, user : Users \cup {Null},
                                    parent : CommentIds \cup {Null}]]
    /\ used \in 0..MaxComments
    /\ votes \in [Users \X CommentIds -> -1..1]
    /\ talk \in [Workers -> [pc : {"idle", "like", "post", "delete", "vote"}, user : Users \cup {Null},
                             id : CommentIds \cup {Null}, vote : -1..1, had : -1..1,
                             row : [problem : Problems \cup {Null}, user : Users \cup {Null},
                                    parent : CommentIds \cup {Null}]]]

(* Whatever is posted, deleted and moderated at once, a comment on record  *)
(* is shown on the pages of its own problem, exactly once, and on no other *)
(* problem's: a page holds one level of replies, and takes them wherever   *)
(* their problem column points (get_comments, post_comment).               *)
EveryCommentShown ==
    \A c \in CommentIds : OnRecord(c) =>
        \A p \in Problems :
            {t \in TopLevel(p) : c \in ShownUnder(p, t)} =
                IF comments[c].problem # p THEN {}
                ELSE {IF comments[c].parent = Null THEN c ELSE comments[c].parent}

(* Nobody's vote or like outlives what it is about, though the statement   *)
(* that writes it checks nothing (the foreign keys of both vote tables).   *)
NoOrphanVotes ==
    /\ \A v \in Users \X CommentIds : votes[v] # 0 => OnRecord(v[2])
    /\ \A l \in likes : l[2] \in posted
=============================================================================
