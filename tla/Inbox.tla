------------------------------- MODULE Inbox -------------------------------
(***************************************************************************)
(* What visitors and admins leave for each other: feedback, the banner,    *)
(* the waitlist with the whitelist it feeds, the WhatsApp checklist        *)
(* (feedback and announcements routers, auth/router.py, admin/router.py).  *)
(***************************************************************************)
EXTENDS Platform

CONSTANTS
    Addresses,      \* e-mail addresses, trimmed and in lower case
    EntryIds,       \* every id core.waitlist will ever have
    Banners,        \* texts of the announcement
    DefaultBanner,
    MaxFeedback     \* bound: rows of core.feedback

ASSUME InboxAssumption ==
    /\ Null \notin EntryIds /\ Null \notin Addresses
    /\ DefaultBanner \in Banners /\ Null \notin Banners /\ MaxFeedback \in Nat

VARIABLES
    topics,     \* problems on record
    feedback,   \* core.feedback
    banner,     \* core.announcements, id = 1
    waitlist,   \* core.waitlist
    filed,      \* entry ids given out
    whitelist,  \* core.whitelist
    approval,   \* what approve_waitlist has read, and written in its transaction
    group,      \* core.wa_group_members
    struck      \* addresses an admin took off the whitelist (history)

inboxVars == <<topics, feedback, banner, waitlist, filed, whitelist, approval, group, struck>>
listVars  == <<waitlist, filed, whitelist, approval, struck>>
noteVars  == <<topics, feedback, banner, group>>

----------------------------------------------------------------------------
NoEntry    == [email |-> Null, status |-> "pending"]
NoApproval == [pc |-> "idle", id |-> Null, email |-> Null, listed |-> FALSE]

EntriesOf(e) == {i \in EntryIds : waitlist[i].email = e}

InboxInit ==
    /\ topics = Problems
    /\ feedback = {}
    /\ banner = Null
    /\ waitlist = [i \in EntryIds |-> NoEntry]
    /\ filed = {}
    /\ whitelist = {}
    /\ approval = [w \in Workers |-> NoApproval]
    /\ group = {}
    /\ struck = {}

----------------------------------------------------------------------------
(* submit_feedback: anonymous or not, rating and source made canonical;    *)
(* the foreign key refuses a problem that is gone.                         *)
Feedback(u, mail, rating, source, p) ==
    /\ Cardinality(feedback) < MaxFeedback
    /\ p # Null => p \in topics
    /\ feedback' = feedback \cup
           {[user |-> u, mail |-> u = Null /\ mail,
             rating |-> IF rating \in 1..3 THEN rating ELSE 0,
             source |-> IF source \in {"fab", "dislike"} THEN source ELSE "fab", problem |-> p]}
    /\ UNCHANGED <<topics, banner, group>> /\ UNCHANGED listVars

(* A problem is deleted in the CMS: ON DELETE SET NULL.                    *)
DropTopic(p) ==
    /\ p \in topics
    /\ topics' = topics \ {p}
    /\ feedback' = {[f EXCEPT !.problem = IF @ = p THEN Null ELSE @] : f \in feedback}
    /\ UNCHANGED <<banner, group>> /\ UNCHANGED listVars

(* Every announcement endpoint first ensures the row. *)
ReadBanner ==
    /\ banner' = IF banner = Null THEN DefaultBanner ELSE banner
    /\ UNCHANGED <<topics, feedback, group>> /\ UNCHANGED listVars

SetBanner(b) ==
    /\ banner' = b
    /\ UNCHANGED <<topics, feedback, group>> /\ UNCHANGED listVars

AddToGroup(u) ==
    /\ group' = group \cup {u}
    /\ UNCHANGED <<topics, feedback, banner>> /\ UNCHANGED listVars

RemoveFromGroup(u) ==
    /\ group' = group \ {u}
    /\ UNCHANGED <<topics, feedback, banner>> /\ UNCHANGED listVars

----------------------------------------------------------------------------
(* join_waitlist, the definition registered first: whoever joins again     *)
(* waits again.                                                            *)
JoinWaitlist(e, i) ==
    /\ i \in EntriesOf(e) \/ (EntriesOf(e) = {} /\ i \notin filed)
    /\ waitlist' = [waitlist EXCEPT ![i] = [email |-> e, status |-> "pending"]]
    /\ filed' = filed \cup {i}
    /\ UNCHANGED <<whitelist, approval, struck>> /\ UNCHANGED noteVars

(* approve_waitlist, one transaction at READ COMMITTED: the address is     *)
(* read, whitelisted and then the entry approved, if it is still there.    *)
ReadEntry(w, i) ==
    /\ approval[w].pc = "idle" /\ waitlist[i].email # Null
    /\ approval' = [approval EXCEPT ![w] = [pc |-> "read", id |-> i, email |-> waitlist[i].email,
                                            listed |-> FALSE]]
    /\ UNCHANGED <<waitlist, filed, whitelist, struck>> /\ UNCHANGED noteVars

(* Not visible to others before the commit. Waits for an insertion of the  *)
(* same address that has not committed.                                    *)
Holds(w, e) == approval[w].pc = "listed" /\ approval[w].listed /\ approval[w].email = e

Whitelist(w) ==
    LET a == approval[w] IN
    /\ a.pc = "read"
    /\ \A v \in Workers : ~Holds(v, a.email)
    /\ approval' = [approval EXCEPT ![w].pc = "listed", ![w].listed = a.email \notin whitelist]
    /\ UNCHANGED <<waitlist, filed, whitelist, struck>> /\ UNCHANGED noteVars

(* Mutated form: the commit loses the insertion. *)
ListNothing(w) == whitelist
Listing(w)     == IF approval[w].listed THEN whitelist \cup {approval[w].email} ELSE whitelist

Approve(w) ==
    LET a == approval[w] IN
    /\ a.pc = "listed"
    /\ whitelist' = Listing(w)
    /\ waitlist' = IF waitlist[a.id].email # Null
                   THEN [waitlist EXCEPT ![a.id].status = "approved"] ELSE waitlist
    /\ struck' = struck \ (Listing(w) \ whitelist)
    /\ approval' = [approval EXCEPT ![w] = NoApproval]
    /\ UNCHANGED filed /\ UNCHANGED noteVars

(* The request is cut off: the transaction leaves nothing. *)
Abort(w) ==
    /\ approval[w].pc # "idle"
    /\ approval' = [approval EXCEPT ![w] = NoApproval]
    /\ UNCHANGED <<waitlist, filed, whitelist, struck>> /\ UNCHANGED noteVars

RejectEntry(i) ==
    /\ waitlist[i].email # Null
    /\ waitlist' = [waitlist EXCEPT ![i].status = "rejected"]
    /\ UNCHANGED <<filed, whitelist, approval, struck>> /\ UNCHANGED noteVars

DeleteEntry(i) ==
    /\ waitlist[i].email # Null
    /\ waitlist' = [waitlist EXCEPT ![i] = NoEntry]
    /\ UNCHANGED <<filed, whitelist, approval, struck>> /\ UNCHANGED noteVars

(* add_to_whitelist and the bulk form: one statement for each address.     *)
AddToWhitelist(e) ==
    /\ e \notin whitelist /\ \A w \in Workers : ~Holds(w, e)
    /\ whitelist' = whitelist \cup {e}
    /\ struck' = struck \ {e}
    /\ UNCHANGED <<waitlist, filed, approval>> /\ UNCHANGED noteVars

RemoveFromWhitelist(e) ==
    /\ e \in whitelist
    /\ whitelist' = whitelist \ {e}
    /\ struck' = struck \cup {e}
    /\ UNCHANGED <<waitlist, filed, approval>> /\ UNCHANGED noteVars

InboxNext ==
    \/ \E u \in Users \cup {Null}, mail \in BOOLEAN, rating \in {0, 1}, source \in {"dislike", "other"},
          p \in Problems \cup {Null} : Feedback(u, mail, rating, source, p)
    \/ \E p \in Problems : DropTopic(p)
    \/ ReadBanner
    \/ \E b \in Banners : SetBanner(b)
    \/ \E u \in Users : AddToGroup(u) \/ RemoveFromGroup(u)
    \/ \E e \in Addresses, i \in EntryIds : JoinWaitlist(e, i)
    \/ \E w \in Workers, i \in EntryIds : ReadEntry(w, i)
    \/ \E w \in Workers : Whitelist(w) \/ Approve(w) \/ Abort(w)
    \/ \E i \in EntryIds : RejectEntry(i) \/ DeleteEntry(i)
    \/ \E e \in Addresses : AddToWhitelist(e) \/ RemoveFromWhitelist(e)

InboxSpec == InboxInit /\ [][InboxNext]_inboxVars

----------------------------------------------------------------------------
InboxTypeOK ==
    /\ topics \subseteq Problems
    /\ feedback \subseteq [user : Users \cup {Null}, mail : BOOLEAN, rating : 0..3,
                           source : {"fab", "dislike"}, problem : topics \cup {Null}]
    /\ banner \in Banners \cup {Null}
    /\ waitlist \in [EntryIds -> [email : Addresses \cup {Null},
                                  status : {"pending", "approved", "rejected"}]]
    /\ filed \subseteq EntryIds
    /\ whitelist \subseteq Addresses
    /\ approval \in [Workers -> [pc : {"idle", "read", "listed"}, id : EntryIds \cup {Null},
                                 email : Addresses \cup {Null}, listed : BOOLEAN]]
    /\ group \subseteq Users
    /\ struck \subseteq Addresses

(* Admins may approve, reject and delete entries at once, a visitor may    *)
(* join again, a request may be cut off: an entry the list calls approved  *)
(* is on the whitelist, unless an admin took it off (approve_waitlist,     *)
(* whose UPDATE comes after, and depends on nothing it read).              *)
ApprovedIsWhitelisted ==
    \A i \in EntryIds : waitlist[i].email # Null /\ waitlist[i].status = "approved" =>
        waitlist[i].email \in whitelist \cup struck
=============================================================================
