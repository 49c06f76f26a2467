----------------------------- MODULE SiteProofs -----------------------------
(***************************************************************************)
(* Theorems about the waitlist (Inbox), the staff's accounts (Staff) and   *)
(* the services that run code (Runners), for every number of entries,      *)
(* addresses, accounts, tokens, jobs and requests at work at once.         *)
(***************************************************************************)
EXTENDS Inbox, Staff, Runners, TLAPS

----------------------------------------------------------------------------
(* Inbox: the invariant *)

(* The address of an entry is given once and for all: who joins again with *)
(* another address files another entry.                                    *)
AddressesKept ==
    /\ \A i \in EntryIds : waitlist[i].email # Null => i \in filed
    /\ \A w \in Workers : approval[w].pc # "idle" =>
           /\ approval[w].id \in filed /\ approval[w].email \in Addresses
           /\ waitlist[approval[w].id].email # Null =>
                  waitlist[approval[w].id].email = approval[w].email

(* An address that an approval found whitelisted still is, or was struck.  *)
ListedStays ==
    \A w \in Workers : approval[w].pc = "listed" /\ ~approval[w].listed =>
        approval[w].email \in whitelist \cup struck

ListsInv == InboxTypeOK /\ AddressesKept /\ ListedStays /\ ApprovedIsWhitelisted

----------------------------------------------------------------------------
LEMMA EntryTypes ==
    /\ NoEntry \in [email : Addresses \cup {Null}, status : {"pending", "approved", "rejected"}]
    /\ NoApproval \in [pc : {"idle", "read", "listed"}, id : EntryIds \cup {Null},
                       email : Addresses \cup {Null}, listed : BOOLEAN]
    /\ NoEntry.email = Null /\ NoApproval.pc = "idle"
BY DEF NoEntry, NoApproval

LEMMA ListsInit == InboxInit => ListsInv
BY EntryTypes, InboxAssumption
   DEF InboxInit, ListsInv, InboxTypeOK, AddressesKept, ListedStays, ApprovedIsWhitelisted

(* Steps that leave the lists alone. *)
LEMMA NotesInv ==
    ASSUME ListsInv, UNCHANGED listVars, InboxTypeOK'
    PROVE  ListsInv'
BY DEF ListsInv, listVars, AddressesKept, ListedStays, ApprovedIsWhitelisted

LEMMA FeedbackInv ==
    ASSUME ListsInv, NEW u \in Users \cup {Null}, NEW mail \in BOOLEAN, NEW rating \in {0, 1},
           NEW source \in {"dislike", "other"}, NEW p \in Problems \cup {Null},
           Feedback(u, mail, rating, source, p)
    PROVE  ListsInv'
<1> DEFINE f == [user |-> u, mail |-> u = Null /\ mail,
                 rating |-> IF rating \in 1..3 THEN rating ELSE 0,
                 source |-> IF source \in {"fab", "dislike"} THEN source ELSE "fab", problem |-> p]
<1>1. p \in topics \cup {Null} BY DEF Feedback
<1>2. f \in [user : Users \cup {Null}, mail : BOOLEAN, rating : 0..3,
             source : {"fab", "dislike"}, problem : topics \cup {Null}]
  BY <1>1
<1>3. feedback' = feedback \cup {f} /\ UNCHANGED <<topics, banner, group>> /\ UNCHANGED listVars
  BY DEF Feedback
<1>4. InboxTypeOK' BY <1>2, <1>3 DEF ListsInv, InboxTypeOK, listVars
<1>5. QED BY <1>3, <1>4, NotesInv

LEMMA DropTopicInv ==
    ASSUME ListsInv, NEW p \in Problems, DropTopic(p)
    PROVE  ListsInv'
<1> DEFINE New(f) == [f EXCEPT !.problem = IF @ = p THEN Null ELSE @]
<1>1. \A f \in feedback : New(f) \in [user : Users \cup {Null}, mail : BOOLEAN, rating : 0..3,
                                      source : {"fab", "dislike"}, problem : topics' \cup {Null}]
  BY DEF ListsInv, InboxTypeOK, DropTopic
<1>2. feedback' = {New(f) : f \in feedback} BY DEF DropTopic
<1>3. InboxTypeOK' BY <1>1, <1>2 DEF ListsInv, InboxTypeOK, DropTopic, listVars
<1>4. QED BY <1>3, NotesInv DEF DropTopic

LEMMA BannerInv ==
    ASSUME ListsInv, ReadBanner \/ \E b \in Banners : SetBanner(b)
    PROVE  ListsInv'
<1>1. InboxTypeOK'
  BY InboxAssumption DEF ListsInv, InboxTypeOK, ReadBanner, SetBanner, listVars
<1>2. QED BY <1>1, NotesInv DEF ReadBanner, SetBanner

LEMMA GroupInv ==
    ASSUME ListsInv, NEW u \in Users, AddToGroup(u) \/ RemoveFromGroup(u)
    PROVE  ListsInv'
<1>1. InboxTypeOK' BY DEF ListsInv, InboxTypeOK, AddToGroup, RemoveFromGroup, listVars
<1>2. QED BY <1>1, NotesInv DEF AddToGroup, RemoveFromGroup

LEMMA JoinInv ==
    ASSUME ListsInv, NEW e \in Addresses, NEW i \in EntryIds, JoinWaitlist(e, i)
    PROVE  ListsInv'
<1> USE DEF JoinWaitlist, ListsInv, noteVars
<1>1. InboxTypeOK' BY DEF InboxTypeOK
<1>2. waitlist[i].email = e \/ (waitlist[i].email = Null /\ i \notin filed)
  BY DEF EntriesOf, AddressesKept, InboxTypeOK
<1>3. \A j \in EntryIds : waitlist'[j] = IF j = i THEN [email |-> e, status |-> "pending"]
                                         ELSE waitlist[j]
  BY DEF InboxTypeOK
<1>4. AddressesKept'
  <2>1. \A j \in EntryIds : waitlist'[j].email # Null => j \in filed' BY <1>3 DEF AddressesKept
  <2>2. ASSUME NEW w \in Workers, approval'[w].pc # "idle"
        PROVE  /\ approval'[w].id \in filed' /\ approval'[w].email \in Addresses
               /\ waitlist'[approval'[w].id].email # Null =>
                      waitlist'[approval'[w].id].email = approval'[w].email
    BY <1>2, <1>3, <2>2, InboxAssumption DEF AddressesKept, InboxTypeOK
  <2>3. QED BY <2>1, <2>2 DEF AddressesKept
<1>5. ListedStays' BY DEF ListedStays
<1>6. ApprovedIsWhitelisted' BY <1>3 DEF ApprovedIsWhitelisted
<1>7. QED BY <1>1, <1>4, <1>5, <1>6

LEMMA ReadEntryInv ==
    ASSUME ListsInv, NEW w \in Workers, NEW i \in EntryIds, ReadEntry(w, i)
    PROVE  ListsInv'
<1> USE DEF ReadEntry, ListsInv, noteVars
<1>1. InboxTypeOK' BY DEF InboxTypeOK
<1>2. AddressesKept' BY DEF AddressesKept, InboxTypeOK
<1>3. ListedStays' BY DEF ListedStays, InboxTypeOK
<1>4. ApprovedIsWhitelisted' BY DEF ApprovedIsWhitelisted
<1>5. QED BY <1>1, <1>2, <1>3, <1>4

LEMMA WhitelistInv ==
    ASSUME ListsInv, NEW w \in Workers, Whitelist(w)
    PROVE  ListsInv'
<1> USE DEF Whitelist, ListsInv, noteVars
<1>1. InboxTypeOK' BY DEF InboxTypeOK
<1>2. AddressesKept' BY DEF AddressesKept, InboxTypeOK
<1>3. ListedStays' BY DEF ListedStays, InboxTypeOK
<1>4. ApprovedIsWhitelisted' BY DEF ApprovedIsWhitelisted
<1>5. QED BY <1>1, <1>2, <1>3, <1>4

LEMMA ApproveInv ==
    ASSUME ListsInv, NEW w \in Workers, Approve(w)
    PROVE  ListsInv'
<1> USE DEF Approve, ListsInv, noteVars
<1> DEFINE a == approval[w]
<1>1. approval[w] \in [pc : {"idle", "read", "listed"}, id : EntryIds \cup {Null},
                       email : Addresses \cup {Null}, listed : BOOLEAN]
  BY DEF InboxTypeOK
<1>2. a.id \in filed /\ a.id \in EntryIds BY InboxAssumption DEF AddressesKept, InboxTypeOK
<1>3. whitelist \cup struck \subseteq whitelist' \cup struck' BY DEF Listing
<1>4. a.email \in whitelist' \cup struck' BY <1>1, <1>3 DEF Listing, ListedStays
<1>5. \A j \in EntryIds : waitlist'[j] =
          IF j = a.id /\ waitlist[j].email # Null THEN [waitlist[j] EXCEPT !.status = "approved"]
          ELSE waitlist[j]
  BY <1>2 DEF InboxTypeOK
<1>6. waitlist[a.id].email # Null => a.email = waitlist[a.id].email BY DEF AddressesKept
<1>7. InboxTypeOK'
  <2>1. whitelist' \subseteq Addresses BY <1>1 DEF Listing, AddressesKept, InboxTypeOK
  <2>2. waitlist' \in [EntryIds -> [email : Addresses \cup {Null},
                                   status : {"pending", "approved", "rejected"}]]
    <3>1. waitlist' = IF waitlist[a.id].email # Null
                      THEN [waitlist EXCEPT ![a.id].status = "approved"] ELSE waitlist
      OBVIOUS
    <3> HIDE DEF Approve, ListsInv, noteVars
    <3>2. waitlist \in [EntryIds -> [email : Addresses \cup {Null},
                                    status : {"pending", "approved", "rejected"}]]
      BY DEF ListsInv, InboxTypeOK
    <3>3. QED BY <3>1, <3>2
  <2>3. approval' = [approval EXCEPT ![w] = NoApproval] /\ UNCHANGED <<topics, feedback, banner, group, filed>>
    OBVIOUS
  <2>4. struck' \subseteq Addresses BY DEF InboxTypeOK
  <2>5. QED BY <2>1, <2>2, <2>3, <2>4, EntryTypes DEF InboxTypeOK
<1>8. AddressesKept' BY <1>5, EntryTypes DEF AddressesKept, InboxTypeOK
<1>9. ListedStays' BY <1>3, EntryTypes DEF ListedStays, InboxTypeOK
<1>10. ApprovedIsWhitelisted' BY <1>3, <1>4, <1>5, <1>6 DEF ApprovedIsWhitelisted, InboxTypeOK
<1>11. QED BY <1>7, <1>8, <1>9, <1>10

LEMMA AbortInv ==
    ASSUME ListsInv, NEW w \in Workers, Abort(w)
    PROVE  ListsInv'
<1> USE DEF Abort, ListsInv, noteVars
<1>1. InboxTypeOK' BY EntryTypes DEF InboxTypeOK
<1>2. AddressesKept' BY EntryTypes DEF AddressesKept, InboxTypeOK
<1>3. ListedStays' BY EntryTypes DEF ListedStays, InboxTypeOK
<1>4. ApprovedIsWhitelisted' BY DEF ApprovedIsWhitelisted
<1>5. QED BY <1>1, <1>2, <1>3, <1>4

LEMMA EntryInv ==
    ASSUME ListsInv, NEW i \in EntryIds, RejectEntry(i) \/ DeleteEntry(i)
    PROVE  ListsInv'
<1> USE DEF ListsInv, noteVars
<1>1. UNCHANGED <<filed, whitelist, approval, struck, topics, feedback, banner, group>>
  BY DEF RejectEntry, DeleteEntry
<1>2. \A j \in EntryIds : waitlist'[j] = waitlist[j] \/ waitlist'[j] = NoEntry
                         \/ (waitlist'[j].email = waitlist[j].email /\ waitlist'[j].status = "rejected")
  BY DEF RejectEntry, DeleteEntry, InboxTypeOK
<1>3. InboxTypeOK' BY <1>1, EntryTypes DEF InboxTypeOK, RejectEntry, DeleteEntry
<1>4. AddressesKept' BY <1>1, <1>2, EntryTypes DEF AddressesKept, InboxTypeOK
<1>5. ListedStays' BY <1>1 DEF ListedStays
<1>6. ApprovedIsWhitelisted' BY <1>1, <1>2, EntryTypes DEF ApprovedIsWhitelisted
<1>7. QED BY <1>3, <1>4, <1>5, <1>6

LEMMA AdminListInv ==
    ASSUME ListsInv, NEW e \in Addresses, AddToWhitelist(e) \/ RemoveFromWhitelist(e)
    PROVE  ListsInv'
<1> USE DEF AddToWhitelist, RemoveFromWhitelist, ListsInv, noteVars
<1>1. whitelist \cup struck \subseteq whitelist' \cup struck' OBVIOUS
<1>2. InboxTypeOK' BY DEF InboxTypeOK
<1>3. AddressesKept' BY DEF AddressesKept
<1>4. ListedStays' BY <1>1 DEF ListedStays
<1>5. ApprovedIsWhitelisted' BY <1>1 DEF ApprovedIsWhitelisted
<1>6. QED BY <1>2, <1>3, <1>4, <1>5

LEMMA ListsNext == ListsInv /\ [InboxNext]_inboxVars => ListsInv'
<1> SUFFICES ASSUME ListsInv, [InboxNext]_inboxVars PROVE ListsInv' OBVIOUS
<1>1. CASE UNCHANGED inboxVars
  BY <1>1 DEF inboxVars, ListsInv, InboxTypeOK, AddressesKept, ListedStays, ApprovedIsWhitelisted
<1>2. CASE InboxNext
  BY <1>2, FeedbackInv, DropTopicInv, BannerInv, GroupInv, JoinInv, ReadEntryInv, WhitelistInv,
     ApproveInv, AbortInv, EntryInv, AdminListInv DEF InboxNext
<1>3. QED BY <1>1, <1>2

----------------------------------------------------------------------------
(* The lists of the CMS never contradict themselves in shape.              *)
THEOREM InboxInductive == InboxSpec => []ListsInv
BY ListsInit, ListsNext, PTL DEF InboxSpec

(* An entry the waitlist calls approved is on the whitelist, unless an     *)
(* admin took the address off, whoever approves, rejects, deletes or joins *)
(* at the same time (approve_waitlist).                                    *)
THEOREM ApprovedListed == InboxSpec => []ApprovedIsWhitelisted
BY InboxInductive, PTL DEF ListsInv

----------------------------------------------------------------------------
(* Runners: the invariant *)

JobRow == [pc : OnThread \cup {"new", "queued", "done"}, sess : 0..sessions,
           left : SUBSET Tables, read : SUBSET Jobs]

SparkShapes ==
    /\ spark \in 0..sessions /\ sessions \in 0..MaxSession /\ broken \in BOOLEAN
    /\ views \in [Tables -> Jobs \cup {Null}]
    /\ job \in [Jobs -> JobRow]
    /\ shared \subseteq Jobs /\ saved \subseteq Jobs

(* Two jobs on the pool's threads at once have not had it for themselves.  *)
PoolShared == \A j, k \in Jobs : job[j].pc \in OnThread /\ job[k].pc \in OnThread /\ j # k => j \in shared

(* While the session lives, a view is of a job that is still on its thread *)
(* in that session and has its clean-up to come.                           *)
ViewsOwned ==
    ~broken =>
        \A t \in Tables : views[t] # Null => /\ job[views[t]].pc \in {"load", "run", "clean"}
                                             /\ job[views[t]].sess = spark

SparkInv == SparkShapes /\ PoolShared /\ ViewsOwned /\ NothingInherited

SandboxShapes ==
    /\ proc \subseteq Runs /\ database \subseteq Runs /\ spoiled \subseteq Runs
    /\ run \in [Runs -> {"new", "process", "loaded", "drop", "done"}]

(* What a run left to take down is there only while the run is, or what    *)
(* should have taken it down did not.                                       *)
RunsOwn ==
    \A r \in Runs : /\ r \in proc => run[r] = "process" \/ r \in spoiled
                    /\ r \in database => run[r] \in {"loaded", "drop"} \/ r \in spoiled

SandboxInv == SandboxShapes /\ RunsOwn

----------------------------------------------------------------------------
(* A step that leaves the session and the views alone and moves one job,   *)
(* not out of the reach of the views it owns; what it reads is its own, was *)
(* saved, or it shares the pool.                                            *)
LEMMA MoveInv ==
    ASSUME SparkInv, NEW j \in Jobs, job[j].pc \in OnThread, NEW row \in JobRow,
           row.read \subseteq job[j].read \cup {j} \cup saved \/ j \in shared,
           job[j].pc \in {"load", "run", "clean"} =>
               row.sess = job[j].sess /\ row.pc \in {"load", "run", "clean"},
           job' = [job EXCEPT ![j] = row],
           saved \subseteq saved', saved' \subseteq Jobs,
           UNCHANGED <<spark, sessions, broken, views, shared>>
    PROVE  SparkInv'
<1>1. SparkShapes' BY DEF SparkInv, SparkShapes, JobRow
<1>2. \A k \in Jobs : job'[k] = IF k = j THEN row ELSE job[k]
  BY DEF SparkInv, SparkShapes
<1>3. PoolShared' BY <1>2 DEF SparkInv, PoolShared
<1>4. ViewsOwned'
  <2> SUFFICES ASSUME ~broken, NEW t \in Tables, views[t] # Null
               PROVE  /\ job'[views[t]].pc \in {"load", "run", "clean"}
                      /\ job'[views[t]].sess = spark
    BY DEF ViewsOwned
  <2>1. views[t] \in Jobs BY DEF SparkInv, SparkShapes
  <2>2. job[views[t]].pc \in {"load", "run", "clean"} /\ job[views[t]].sess = spark
    BY DEF SparkInv, ViewsOwned
  <2>3. QED BY <2>1, <2>2, <1>2
<1>5. NothingInherited'
  <2> SUFFICES ASSUME NEW k \in Jobs, k \notin shared PROVE job'[k].read \subseteq {k} \cup saved'
    BY DEF NothingInherited
  <2>1. job[k].read \subseteq {k} \cup saved BY DEF SparkInv, NothingInherited
  <2>2. CASE k # j BY <2>1, <2>2, <1>2
  <2>3. CASE k = j BY <2>1, <2>3, <1>2
  <2>4. QED BY <2>2, <2>3
<1>6. QED BY <1>1, <1>3, <1>4, <1>5 DEF SparkInv

(* A job on its thread that makes a view in its own session, which lives,   *)
(* and stays there.                                                         *)
LEMMA ViewInv ==
    ASSUME SparkInv, NEW j \in Jobs, NEW t \in Tables, NEW row \in JobRow,
           job[j].pc \in {"load", "run"}, job[j].sess = spark,
           row.read = job[j].read, row.pc \in {"load", "run"}, row.sess = job[j].sess,
           job' = [job EXCEPT ![j] = row], views' = [views EXCEPT ![t] = j],
           UNCHANGED <<spark, sessions, broken, shared, saved>>
    PROVE  SparkInv'
<1>1. \A k \in Jobs : job'[k] = IF k = j THEN row ELSE job[k] BY DEF SparkInv, SparkShapes
<1>2. SparkShapes' BY DEF SparkInv, SparkShapes, JobRow
<1>3. PoolShared' BY <1>1 DEF SparkInv, PoolShared, OnThread
<1>4. ViewsOwned'
  <2> SUFFICES ASSUME ~broken, NEW s \in Tables, views'[s] # Null
               PROVE  /\ job'[views'[s]].pc \in {"load", "run", "clean"}
                      /\ job'[views'[s]].sess = spark
    BY DEF ViewsOwned
  <2>1. CASE s = t
    <3>1. views'[s] = j BY <2>1 DEF SparkInv, SparkShapes
    <3>2. QED BY <3>1, <1>1
  <2>2. CASE s # t
    <3>1. views'[s] = views[s] BY <2>2 DEF SparkInv, SparkShapes
    <3>2. views[s] \in Jobs BY <3>1 DEF SparkInv, SparkShapes
    <3>3. job[views[s]].pc \in {"load", "run", "clean"} /\ job[views[s]].sess = spark
      BY <3>1 DEF SparkInv, ViewsOwned
    <3>4. QED BY <3>1, <3>2, <3>3, <1>1
  <2>3. QED BY <2>1, <2>2
<1>5. NothingInherited' BY <1>1 DEF SparkInv, NothingInherited
<1>6. QED BY <1>2, <1>3, <1>4, <1>5 DEF SparkInv

LEMMA SubmitInv == ASSUME SparkInv, NEW j \in Jobs, Submit(j) PROVE SparkInv'
<1>0. job[j] \in JobRow /\ job[j].pc = "new" BY DEF SparkInv, SparkShapes, Submit
<1>1. \A k \in Jobs : job'[k] = IF k = j THEN [job[j] EXCEPT !.pc = "queued"] ELSE job[k]
  BY DEF SparkInv, SparkShapes, Submit, Goto
<1>2. SparkShapes'
  <2>1. [job[j] EXCEPT !.pc = "queued"] \in JobRow BY <1>0 DEF JobRow
  <2>2. job' = [job EXCEPT ![j] = [job[j] EXCEPT !.pc = "queued"]]
    BY DEF Submit, Goto, SparkInv, SparkShapes
  <2>3. QED BY <2>1, <2>2 DEF SparkInv, SparkShapes, Submit, JobRow
<1>3. PoolShared' BY <1>0, <1>1 DEF SparkInv, PoolShared, Submit, OnThread, JobRow
<1>4. ViewsOwned' BY <1>0, <1>1 DEF SparkInv, SparkShapes, ViewsOwned, Submit, JobRow
<1>5. NothingInherited' BY <1>0, <1>1 DEF SparkInv, NothingInherited, Submit, JobRow
<1>6. QED BY <1>2, <1>3, <1>4, <1>5 DEF SparkInv

LEMMA StartInv == ASSUME SparkInv, NEW j \in Jobs, Start(j) PROVE SparkInv'
<1>0. job[j] \in JobRow /\ job[j].pc = "queued" BY DEF SparkInv, SparkShapes, Start
<1>1. \A k \in Jobs : job'[k] = IF k = j THEN [job[j] EXCEPT !.pc = "check"] ELSE job[k]
  BY DEF SparkInv, SparkShapes, Start, Goto
<1>9. shared \subseteq shared' BY DEF Start
<1>2. SparkShapes'
  <2>1. [job[j] EXCEPT !.pc = "check"] \in JobRow BY <1>0 DEF JobRow, OnThread
  <2>2. job' = [job EXCEPT ![j] = [job[j] EXCEPT !.pc = "check"]]
    BY DEF Start, Goto, SparkInv, SparkShapes
  <2>3. QED BY <2>1, <2>2 DEF SparkInv, SparkShapes, Start, Busy, JobRow
<1>3. PoolShared'
  <2> SUFFICES ASSUME NEW a \in Jobs, NEW b \in Jobs, a # b,
                      job'[a].pc \in OnThread, job'[b].pc \in OnThread
               PROVE  a \in shared'
    BY DEF PoolShared
  <2>1. CASE a # j /\ b # j BY <2>1, <1>1, <1>9 DEF SparkInv, PoolShared
  <2>2. CASE a = j
    <3>1. b \in Busy BY <2>2, <1>1 DEF Busy
    <3>2. QED BY <3>1, <2>2 DEF Start
  <2>3. CASE b = j
    <3>1. a \in Busy BY <2>3, <1>1 DEF Busy
    <3>2. QED BY <3>1, <2>3 DEF Start
  <2>4. QED BY <2>1, <2>2, <2>3
<1>4. ViewsOwned' BY <1>0, <1>1 DEF SparkInv, SparkShapes, ViewsOwned, Start, JobRow
<1>8. saved' = saved BY DEF Start
<1>5. NothingInherited' BY <1>0, <1>1, <1>8, <1>9 DEF SparkInv, NothingInherited, JobRow
<1>6. QED BY <1>2, <1>3, <1>4, <1>5 DEF SparkInv

(* The row of a job that is over. *)
LEMMA OverRow ==
    ASSUME SparkInv, NEW j \in Jobs, Ends(j)
    PROVE  \E row \in JobRow : /\ row.read = job[j].read /\ row.pc = "done"
                              /\ job' = [job EXCEPT ![j] = row]
<1> DEFINE row == [pc |-> "done", sess |-> 0, left |-> {}, read |-> job[j].read]
<1>1. job[j] \in JobRow /\ sessions \in Nat BY RunnersAssumption DEF SparkInv, SparkShapes
<1>2. job[j].read \in SUBSET Jobs BY <1>1 DEF JobRow
<1>3. 0 \in 0..sessions BY <1>1
<1>4. row \in JobRow /\ row.read = job[j].read /\ row.pc = "done" BY <1>2, <1>3 DEF JobRow
<1>5. job' = [job EXCEPT ![j] = row] BY DEF Ends, SparkInv, SparkShapes
<1>6. QED BY <1>4, <1>5

LEMMA TimeoutInv == ASSUME SparkInv, NEW j \in Jobs, Timeout(j) PROVE SparkInv'
<1>0. job[j].pc = "queued" /\ UNCHANGED <<spark, sessions, broken, views, shared, saved>> /\ Ends(j)
  BY DEF Timeout
<1>1. PICK row \in JobRow : /\ row.read = job[j].read /\ row.pc = "done"
                           /\ job' = [job EXCEPT ![j] = row]
  BY <1>0, OverRow
<1>2. \A k \in Jobs : job'[k] = IF k = j THEN row ELSE job[k] BY <1>1 DEF SparkInv, SparkShapes
<1>3. SparkShapes' BY <1>0, <1>1 DEF SparkInv, SparkShapes, JobRow
<1>4. PoolShared' BY <1>0, <1>1, <1>2 DEF SparkInv, PoolShared, OnThread
<1>5. ViewsOwned' BY <1>0, <1>1, <1>2 DEF SparkInv, SparkShapes, ViewsOwned
<1>6. NothingInherited' BY <1>0, <1>1, <1>2 DEF SparkInv, NothingInherited
<1>7. QED BY <1>3, <1>4, <1>5, <1>6 DEF SparkInv

(* With the JVM of the session gone, no view of it is there to be read.    *)
LEMMA BreakInv ==
    ASSUME SparkInv, broken' = TRUE, UNCHANGED <<spark, sessions, views, shared, saved>>,
           NEW j \in Jobs, NEW row \in JobRow, row.read = job[j].read,
           row.pc \in OnThread => job[j].pc \in OnThread,
           job' = [job EXCEPT ![j] = row]
    PROVE  SparkInv'
<1>1. SparkShapes' BY DEF SparkInv, SparkShapes, JobRow
<1>2. \A k \in Jobs : job'[k] = IF k = j THEN row ELSE job[k] BY DEF SparkInv, SparkShapes
<1>3. PoolShared' BY <1>2 DEF SparkInv, PoolShared
<1>4. ViewsOwned' BY DEF ViewsOwned
<1>5. NothingInherited' BY <1>2 DEF SparkInv, NothingInherited
<1>6. QED BY <1>1, <1>3, <1>4, <1>5 DEF SparkInv

LEMMA JvmDiesInv == ASSUME SparkInv, JvmDies PROVE SparkInv'
BY DEF JvmDies, SparkInv, SparkShapes, JobRow, PoolShared, ViewsOwned, NothingInherited

LEMMA CheckInv == ASSUME SparkInv, NEW j \in Jobs, Check(j) PROVE SparkInv'
<1>0. job[j] \in JobRow /\ job[j].pc = "check" BY DEF SparkInv, SparkShapes, Check
<1>1. UNCHANGED <<spark, sessions, broken, views, shared, saved>> BY DEF Check
<1>2. saved \subseteq Jobs BY DEF SparkInv, SparkShapes
<1>3. PICK row \in JobRow : row.read = job[j].read /\ job' = [job EXCEPT ![j] = row]
  <2>1. CASE spark # 0 /\ ~broken
    <3> DEFINE row == [job[j] EXCEPT !.pc = "load", !.sess = spark, !.left = DataOf[j]]
    <3>1. row \in JobRow BY <1>0, RunnersAssumption DEF JobRow, OnThread, SparkInv, SparkShapes
    <3>2. row.read = job[j].read BY <1>0 DEF JobRow
    <3>3. job' = [job EXCEPT ![j] = row] BY <2>1 DEF Check, SparkInv, SparkShapes
    <3>4. QED BY <3>1, <3>2, <3>3
  <2>2. CASE ~(spark # 0 /\ ~broken)
    <3> DEFINE row == [job[j] EXCEPT !.pc = IF spark = 0 THEN "create" ELSE "stop"]
    <3>1. row \in JobRow BY <1>0 DEF JobRow, OnThread
    <3>2. row.read = job[j].read BY <1>0 DEF JobRow
    <3>3. job' = [job EXCEPT ![j] = row] BY <2>2 DEF Check, SparkInv, SparkShapes
    <3>4. QED BY <3>1, <3>2, <3>3
  <2>3. QED BY <2>1, <2>2
<1>4. QED BY <1>0, <1>1, <1>2, <1>3, MoveInv DEF OnThread

LEMMA StopSparkInv == ASSUME SparkInv, NEW j \in Jobs, StopSpark(j) PROVE SparkInv'
<1> DEFINE row == [job[j] EXCEPT !.pc = "create"]
<1>0. job[j] \in JobRow /\ job[j].pc = "stop" BY DEF SparkInv, SparkShapes, StopSpark
<1>1. row \in JobRow /\ row.read = job[j].read BY <1>0 DEF JobRow, OnThread
<1>2. job' = [job EXCEPT ![j] = row] BY DEF StopSpark, Goto, SparkInv, SparkShapes
<1>3. broken' = TRUE /\ UNCHANGED <<spark, sessions, views, shared, saved>> BY DEF StopSpark
<1>4. QED BY <1>0, <1>1, <1>2, <1>3, BreakInv DEF OnThread

LEMMA CreateSparkInv == ASSUME SparkInv, NEW j \in Jobs, CreateSpark(j) PROVE SparkInv'
<1> DEFINE row == [job[j] EXCEPT !.pc = "load", !.sess = spark', !.left = DataOf[j]]
<1>0. job[j] \in JobRow /\ job[j].pc = "create" BY DEF SparkInv, SparkShapes, CreateSpark
<1>1. job' = [job EXCEPT ![j] = row] BY DEF CreateSpark, SparkInv, SparkShapes
<1>2. UNCHANGED <<shared, saved>> /\ saved \subseteq Jobs BY DEF CreateSpark, SparkInv, SparkShapes
<1>3. CASE spark # 0 /\ ~broken
  <2>1. UNCHANGED <<spark, sessions, broken, views>> BY <1>3 DEF CreateSpark
  <2>2. row \in JobRow BY <1>0, <2>1, RunnersAssumption DEF JobRow, OnThread, SparkInv, SparkShapes
  <2>3. row.read = job[j].read BY <1>0 DEF JobRow
  <2>4. QED BY <1>0, <1>1, <1>2, <2>1, <2>2, <2>3, MoveInv DEF OnThread
<1>4. CASE ~(spark # 0 /\ ~broken)
  <2>1. /\ sessions < MaxSession /\ sessions' = sessions + 1 /\ spark' = sessions'
        /\ broken' = FALSE /\ views' = NoViews
    BY <1>4 DEF CreateSpark
  <2>2. sessions' \in 0..MaxSession /\ 0..sessions \subseteq 0..sessions' /\ spark' \in 0..sessions'
    BY <2>1, RunnersAssumption DEF SparkInv, SparkShapes
  <2>3. row \in JobRow' BY <1>0, <2>2, RunnersAssumption DEF JobRow, OnThread
  <2>4. row.read = job[j].read BY <1>0 DEF JobRow
  <2>5. JobRow \subseteq JobRow' BY <2>2 DEF JobRow
  <2>6. \A k \in Jobs : job'[k] = IF k = j THEN row ELSE job[k] BY <1>1 DEF SparkInv, SparkShapes
  <2>7. SparkShapes'
    <3>1. job' \in [Jobs -> JobRow'] BY <1>1, <2>3, <2>5 DEF SparkInv, SparkShapes
    <3>2. views' \in [Tables -> Jobs \cup {Null}] BY <2>1 DEF NoViews
    <3>3. QED BY <3>1, <3>2, <2>1, <2>2, <1>2 DEF SparkInv, SparkShapes
  <2>8. PoolShared' BY <1>0, <1>2, <2>6 DEF SparkInv, PoolShared, OnThread, JobRow
  <2>9. ViewsOwned' BY <2>1 DEF ViewsOwned, NoViews
  <2>10. NothingInherited' BY <2>4, <1>2, <2>6 DEF SparkInv, NothingInherited
  <2>11. QED BY <2>7, <2>8, <2>9, <2>10 DEF SparkInv
<1>5. QED BY <1>3, <1>4

LEMMA CreateFailsInv == ASSUME SparkInv, NEW j \in Jobs, CreateFails(j) PROVE SparkInv'
<1>1. /\ job[j].pc = "create" /\ Ends(j) /\ saved \subseteq Jobs
      /\ UNCHANGED <<spark, sessions, broken, views, shared, saved>>
  BY DEF CreateFails, SparkInv, SparkShapes
<1>2. PICK row \in JobRow : row.read = job[j].read /\ job' = [job EXCEPT ![j] = row]
  BY <1>1, OverRow
<1>3. QED BY <1>1, <1>2, MoveInv DEF OnThread

LEMMA LoadInv == ASSUME SparkInv, NEW j \in Jobs, NEW t \in Tables, Load(j, t) PROVE SparkInv'
<1> DEFINE row == [job[j] EXCEPT !.left = @ \ {t}]
<1>1. job[j] \in JobRow /\ job[j].pc = "load" /\ job[j].sess = spark
  BY DEF SparkInv, SparkShapes, Load, Usable
<1>2. /\ row \in JobRow /\ row.read = job[j].read
      /\ row.pc = job[j].pc /\ row.sess = job[j].sess
  BY <1>1 DEF JobRow
<1>3. /\ job' = [job EXCEPT ![j] = row] /\ views' = [views EXCEPT ![t] = j]
      /\ UNCHANGED <<spark, sessions, broken, shared, saved>>
  BY DEF Load, SparkInv, SparkShapes
<1>4. QED BY <1>1, <1>2, <1>3, ViewInv

(* Code that runs is on a thread, in the session that lives. *)
LEMMA CodeRuns ==
    ASSUME SparkInv, NEW j \in Jobs, InCode(j)
    PROVE  /\ job[j] \in JobRow /\ job[j].pc \in {"load", "run"} /\ job[j].pc \in OnThread
           /\ job[j].sess = spark /\ ~broken /\ saved \subseteq Jobs /\ job[j].read \subseteq Jobs
<1>1. job[j] \in JobRow /\ saved \subseteq Jobs BY DEF SparkInv, SparkShapes
<1>2. QED BY <1>1 DEF InCode, Usable, OnThread, JobRow

LEMMA MakeViewInv == ASSUME SparkInv, NEW j \in Jobs, NEW t \in Tables, MakeView(j, t) PROVE SparkInv'
<1> DEFINE row == [job[j] EXCEPT !.pc = "run"]
<1>1. InCode(j) BY DEF MakeView
<1>2. row \in JobRow /\ row.read = job[j].read /\ row.pc = "run" /\ row.sess = job[j].sess
  BY <1>1, CodeRuns DEF JobRow, OnThread
<1>3. /\ job' = [job EXCEPT ![j] = row] /\ views' = [views EXCEPT ![t] = j]
      /\ UNCHANGED <<spark, sessions, broken, shared, saved>>
  BY DEF MakeView, Goto, SparkInv, SparkShapes
<1>4. QED BY <1>1, <1>2, <1>3, CodeRuns, ViewInv

LEMMA SaveRowsInv == ASSUME SparkInv, NEW j \in Jobs, SaveRows(j) PROVE SparkInv'
<1> DEFINE row == [job[j] EXCEPT !.pc = "run"]
<1>1. InCode(j) /\ UNCHANGED <<spark, sessions, broken, views, shared>> BY DEF SaveRows
<1>2. row \in JobRow /\ row.read = job[j].read /\ row.pc = "run" /\ row.sess = job[j].sess
  BY <1>1, CodeRuns DEF JobRow, OnThread
<1>3. job' = [job EXCEPT ![j] = row] BY DEF SaveRows, Goto, SparkInv, SparkShapes
<1>4. saved \subseteq saved' /\ saved' \subseteq Jobs BY <1>1, CodeRuns DEF SaveRows, SeenBy
<1>5. QED BY <1>1, <1>2, <1>3, <1>4, CodeRuns, MoveInv

(* Rows that code reads: its own, saved ones, or those of a job it shares   *)
(* the pool with.                                                           *)
LEMMA ReadInv ==
    ASSUME SparkInv, NEW j \in Jobs, NEW k \in Jobs, InCode(j), ReadRows(j, k),
           k \in job[j].read \cup {j} \cup saved \/ j \in shared,
           UNCHANGED <<spark, sessions, broken, views, shared, saved>>
    PROVE  SparkInv'
<1> DEFINE row == [job[j] EXCEPT !.pc = "run", !.read = @ \cup {k}]
<1>1. /\ row \in JobRow /\ row.pc = "run" /\ row.sess = job[j].sess
      /\ row.read = job[j].read \cup {k}
  BY CodeRuns DEF JobRow, OnThread
<1>2. job' = [job EXCEPT ![j] = row] BY DEF ReadRows, SparkInv, SparkShapes
<1>3. QED BY <1>1, <1>2, CodeRuns, MoveInv

LEMMA ReadSavedInv == ASSUME SparkInv, NEW j \in Jobs, NEW k \in Jobs, ReadSaved(j, k) PROVE SparkInv'
BY ReadInv DEF ReadSaved

(* The heart of it: a view in a live session is of a job on a thread, so    *)
(* whoever reads it made it or shares the pool with its maker.              *)
LEMMA QueryInv == ASSUME SparkInv, NEW j \in Jobs, NEW t \in Tables, Query(j, t) PROVE SparkInv'
<1>1. /\ InCode(j) /\ views[t] # Null
      /\ UNCHANGED <<spark, sessions, broken, views, shared, saved>>
  BY DEF Query
<1>2. views[t] \in Jobs BY <1>1 DEF SparkInv, SparkShapes
<1>3. job[views[t]] \in JobRow BY <1>2 DEF SparkInv, SparkShapes
<1>4. PICK k \in SeenBy(views[t]) : ReadRows(j, k) BY DEF Query
<1>5. k \in Jobs BY <1>2, <1>3, <1>4 DEF SeenBy, JobRow
<1>6. k \in job[j].read \cup {j} \/ j \in shared
  <2>1. CASE views[t] = j BY <2>1, <1>4 DEF SeenBy
  <2>2. CASE views[t] # j
    <3>1. job[views[t]].pc \in OnThread BY <1>1, <1>2, CodeRuns DEF SparkInv, ViewsOwned, OnThread
    <3>2. QED BY <3>1, <2>2, <1>1, <1>2, CodeRuns DEF SparkInv, PoolShared
  <2>3. QED BY <2>1, <2>2
<1>7. QED BY <1>1, <1>4, <1>5, <1>6, ReadInv

(* To the clean-up: the job keeps its views and its session.               *)
LEMMA LeaveInv == ASSUME SparkInv, NEW j \in Jobs, Leave(j) PROVE SparkInv'
<1> DEFINE row == [job[j] EXCEPT !.pc = "clean"]
<1>1. /\ job[j] \in JobRow /\ job[j].pc \in {"load", "run"} /\ saved \subseteq Jobs
      /\ UNCHANGED <<spark, sessions, broken, views, shared, saved>>
  BY DEF Leave, SparkInv, SparkShapes
<1>2. row \in JobRow /\ row.read = job[j].read /\ row.pc = "clean" /\ row.sess = job[j].sess
  BY <1>1 DEF JobRow, OnThread
<1>3. job' = [job EXCEPT ![j] = row] BY DEF Leave, Goto, SparkInv, SparkShapes
<1>4. QED BY <1>1, <1>2, <1>3, MoveInv DEF OnThread

(* In a session that lives the clean-up empties it; in any other there is  *)
(* nothing the job still owns.                                             *)
LEMMA CleanupInv == ASSUME SparkInv, NEW j \in Jobs, Cleanup(j) PROVE SparkInv'
<1>0. /\ job[j] \in JobRow /\ job[j].pc = "clean" /\ Ends(j)
      /\ UNCHANGED <<spark, sessions, broken, shared, saved>>
  BY DEF SparkInv, SparkShapes, Cleanup
<1>1. PICK row \in JobRow : /\ row.read = job[j].read /\ row.pc = "done"
                           /\ job' = [job EXCEPT ![j] = row]
  BY <1>0, OverRow
<1>2. /\ job' = [job EXCEPT ![j] = row]
      /\ UNCHANGED <<spark, sessions, broken, shared, saved>>
  BY <1>0, <1>1
<1>3. \A k \in Jobs : job'[k] = IF k = j THEN row ELSE job[k] BY <1>2 DEF SparkInv, SparkShapes
<1>4. SparkShapes'
  <2>1. views' \in [Tables -> Jobs \cup {Null}]
    BY DEF Cleanup, Cleaned, NoViews, SparkInv, SparkShapes
  <2>2. QED BY <2>1, <1>1, <1>2 DEF SparkInv, SparkShapes, JobRow
<1>5. PoolShared' BY <1>0, <1>1, <1>2, <1>3 DEF SparkInv, PoolShared, OnThread
<1>6. ViewsOwned'
  <2>1. CASE Usable(j)
    <3>1. views' = NoViews BY <2>1 DEF Cleanup, Cleaned
    <3>2. QED BY <3>1 DEF ViewsOwned, NoViews
  <2>2. CASE ~Usable(j)
    <3>1. views' = views BY <2>2 DEF Cleanup, Cleaned
    <3> SUFFICES ASSUME ~broken, NEW s \in Tables, views[s] # Null
                 PROVE  /\ job'[views[s]].pc \in {"load", "run", "clean"}
                        /\ job'[views[s]].sess = spark
      BY <1>2, <3>1 DEF ViewsOwned
    <3>2. views[s] \in Jobs BY DEF SparkInv, SparkShapes
    <3>3. job[views[s]].pc \in {"load", "run", "clean"} /\ job[views[s]].sess = spark
      BY DEF SparkInv, ViewsOwned
    <3>4. views[s] # j BY <3>3, <2>2 DEF Usable
    <3>5. QED BY <3>2, <3>3, <3>4, <1>3
  <2>3. QED BY <2>1, <2>2
<1>7. NothingInherited' BY <1>1, <1>2, <1>3 DEF SparkInv, NothingInherited
<1>8. QED BY <1>4, <1>5, <1>6, <1>7 DEF SparkInv

LEMMA SparkNextInv == SparkInv /\ SparkNext => SparkInv'
<1> SUFFICES ASSUME SparkInv, SparkNext PROVE SparkInv' OBVIOUS
<1>1. CASE \E j \in Jobs : \/ Submit(j) \/ Start(j) \/ Timeout(j) \/ Check(j) \/ StopSpark(j)
                           \/ CreateSpark(j) \/ CreateFails(j) \/ SaveRows(j)
                           \/ Leave(j) \/ Cleanup(j)
  BY <1>1, SubmitInv, StartInv, TimeoutInv, CheckInv, StopSparkInv, CreateSparkInv, CreateFailsInv,
     SaveRowsInv, LeaveInv, CleanupInv
<1>2. CASE \E j \in Jobs, t \in Tables : Load(j, t) \/ Query(j, t) \/ MakeView(j, t)
  BY <1>2, LoadInv, QueryInv, MakeViewInv
<1>3. CASE \E j, k \in Jobs : ReadSaved(j, k) BY <1>3, ReadSavedInv
<1>4. CASE JvmDies BY <1>4, JvmDiesInv
<1>5. QED BY <1>1, <1>2, <1>3, <1>4 DEF SparkNext

LEMMA SparkRests == SparkInv /\ UNCHANGED sparkVars => SparkInv'
BY DEF sparkVars, SparkInv, SparkShapes, JobRow, PoolShared, ViewsOwned, NothingInherited

----------------------------------------------------------------------------
(* The processes and the databases *)

LEMMA SpawnInv == ASSUME SandboxInv, NEW r \in Runs, Spawn(r) PROVE SandboxInv'
BY DEF SandboxInv, SandboxShapes, RunsOwn, Spawn

LEMMA EndProcessInv == ASSUME SandboxInv, NEW r \in Runs, EndProcess(r) PROVE SandboxInv'
BY DEF SandboxInv, SandboxShapes, RunsOwn, EndProcess

LEMMA ProcessExitsInv == ASSUME SandboxInv, NEW r \in Runs, ProcessExits(r) PROVE SandboxInv'
BY DEF SandboxInv, SandboxShapes, RunsOwn, ProcessExits

LEMMA CreateDatabaseInv == ASSUME SandboxInv, NEW r \in Runs, CreateDatabase(r) PROVE SandboxInv'
BY DEF SandboxInv, SandboxShapes, RunsOwn, CreateDatabase

LEMMA RunQueryInv == ASSUME SandboxInv, NEW r \in Runs, RunQuery(r) PROVE SandboxInv'
BY DEF SandboxInv, SandboxShapes, RunsOwn, RunQuery

LEMMA DropDatabaseInv == ASSUME SandboxInv, NEW r \in Runs, DropDatabase(r) PROVE SandboxInv'
BY DEF SandboxInv, SandboxShapes, RunsOwn, DropDatabase

LEMMA BackendStopsInv == ASSUME SandboxInv, BackendStops PROVE SandboxInv'
BY DEF SandboxInv, SandboxShapes, RunsOwn, BackendStops

LEMMA SandboxNextInv == SandboxInv /\ SandboxNext => SandboxInv'
BY SpawnInv, EndProcessInv, ProcessExitsInv, CreateDatabaseInv, RunQueryInv, DropDatabaseInv, BackendStopsInv
   DEF SandboxNext

LEMMA SandboxRests == SandboxInv /\ UNCHANGED sandboxVars => SandboxInv'
BY DEF sandboxVars, SandboxInv, SandboxShapes, RunsOwn

----------------------------------------------------------------------------
LEMMA RunnersStart == RunnersInit => SparkInv /\ SandboxInv
<1> SUFFICES ASSUME RunnersInit PROVE SparkInv /\ SandboxInv OBVIOUS
<1>1. SparkShapes
  <2>1. NewJob \in JobRow BY DEF NewJob, JobRow, RunnersInit
  <2>2. MaxSession \in Nat /\ spark = 0 /\ sessions = 0 /\ broken = FALSE
    BY RunnersAssumption DEF RunnersInit
  <2>3. views \in [Tables -> Jobs \cup {Null}] BY DEF RunnersInit, NoViews
  <2>4. job \in [Jobs -> JobRow] BY <2>1 DEF RunnersInit
  <2>5. shared \subseteq Jobs /\ saved \subseteq Jobs
    BY DEF RunnersInit
  <2>6. spark \in 0..sessions /\ sessions \in 0..MaxSession BY <2>2
  <2>7. QED BY <2>2, <2>3, <2>4, <2>5, <2>6 DEF SparkShapes
<1>2. PoolShared BY DEF RunnersInit, PoolShared, NewJob, OnThread
<1>3. ViewsOwned BY DEF RunnersInit, ViewsOwned, NoViews
<1>4. NothingInherited BY DEF RunnersInit, NothingInherited, NewJob
<1>5. SandboxInv BY DEF RunnersInit, SandboxInv, SandboxShapes, RunsOwn
<1>6. QED BY <1>1, <1>2, <1>3, <1>4, <1>5 DEF SparkInv

LEMMA RunnersNextInv == SparkInv /\ SandboxInv /\ [RunnersNext]_runnerVars => (SparkInv /\ SandboxInv)'
<1> SUFFICES ASSUME SparkInv, SandboxInv, [RunnersNext]_runnerVars PROVE SparkInv' /\ SandboxInv'
  OBVIOUS
<1>1. CASE SparkNext /\ UNCHANGED sandboxVars BY <1>1, SparkNextInv, SandboxRests
<1>2. CASE SandboxNext /\ UNCHANGED sparkVars BY <1>2, SandboxNextInv, SparkRests
<1>3. CASE UNCHANGED runnerVars
  <2>1. UNCHANGED sparkVars /\ UNCHANGED sandboxVars BY <1>3 DEF runnerVars, sparkVars, sandboxVars
  <2>2. QED BY <2>1, SparkRests, SandboxRests
<1>4. QED BY <1>1, <1>2, <1>3 DEF RunnersNext

(* The types and the two invariants hold of every behaviour of the runners, *)
(* for any number of jobs, tables, threads, runs and sessions.              *)
THEOREM RunnersInductive == RunnersSpec => [](SparkInv /\ SandboxInv)
BY RunnersStart, RunnersNextInv, PTL DEF RunnersSpec

(* What an execution that had the pool, a process or a database for itself *)
(* meets of another: rows that code saved where no clean-up looks, and what *)
(* the services failed to take down; nothing else, whatever time-outs, JVM  *)
(* deaths and failed clean-ups came before it (cleanup_spark, get_spark,    *)
(* execute, MySQLEngine.run).                                               *)
THEOREM ExecutionsApart == RunnersSpec => []RunsApart
<1>1. SandboxInv => NothingLeftBehind BY DEF SandboxInv, SandboxShapes, RunsOwn, NothingLeftBehind
<1>2. SparkInv /\ SandboxInv => RunsApart BY <1>1 DEF SparkInv, RunsApart
<1>3. QED BY <1>2, RunnersInductive, PTL

----------------------------------------------------------------------------
(* Staff: the invariant *)

AccountRow == [email : StaffEmails \cup {Null}, role : StaffRoles, active : BOOLEAN,
               password : Passwords]
DeskRow    == [pc : {"idle", "login", "change", "create"}, id : StaffIds \cup {Null},
               row : AccountRow, since : Nat]

StaffShapes ==
    /\ staff \in [StaffIds -> AccountRow]
    /\ spent \subseteq StaffIds
    /\ tokens \subseteq [id : StaffIds, role : StaffRoles, exp : Nat]
    /\ desk \in [Desks -> DeskRow]
    /\ day \in Nat

HeldTyped == held \in [StaffIds -> [StaffRoles -> Nat]]

(* Whoever is active with a role today is known to be.                     *)
ActiveIsHeld == \A i \in StaffIds : staff[i].active => held[i][staff[i].role] = day

(* A valid token was issued within its life, and the role it carries was   *)
(* held the day before that at the latest.                                 *)
TokensEarned ==
    \A t \in tokens : /\ t.exp <= day + TokenDays
                      /\ Valid(t) => held[t.id][t.role] >= t.exp - TokenDays - 1

(* A sign-in under way read an account that had the role on that day.      *)
SignInsEarned ==
    \A w \in Desks : desk[w].pc = "login" =>
        /\ desk[w].id \in StaffIds
        /\ day - 1 <= desk[w].since /\ desk[w].since <= day
        /\ held[desk[w].id][desk[w].row.role] >= desk[w].since

StaffInv == StaffShapes /\ HeldTyped /\ ActiveIsHeld /\ TokensEarned /\ SignInsEarned

----------------------------------------------------------------------------
LEMMA StaffRows ==
    /\ NoStaff \in AccountRow /\ NoDesk \in DeskRow /\ NoDesk.pc = "idle" /\ ~NoStaff.active
    /\ \A e \in StaffEmails, role \in StaffRoles, p \in Passwords :
           StaffRow(e, role, p) \in AccountRow
BY StaffAssumption DEF NoStaff, NoDesk, AccountRow, DeskRow, StaffRow, StaffRoles

LEMMA StaffStart == StaffInit => StaffInv
<1> SUFFICES ASSUME StaffInit PROVE StaffInv OBVIOUS
<1>1. StaffShapes BY StaffRows, StaffAssumption DEF StaffInit, StaffShapes
<1>2. HeldTyped BY DEF StaffInit, HeldTyped
<1>3. ActiveIsHeld BY StaffRows DEF StaffInit, ActiveIsHeld
<1>4. TokensEarned BY DEF StaffInit, TokensEarned
<1>5. SignInsEarned BY StaffRows DEF StaffInit, SignInsEarned
<1>6. QED BY <1>1, <1>2, <1>3, <1>4, <1>5 DEF StaffInv

(* What held does in a step, whatever the step.                            *)
LEMMA HeldStep ==
    ASSUME StaffInv, StaffNext, StaffShapes', day' \in {day, day + 1}
    PROVE  /\ HeldTyped' /\ ActiveIsHeld'
           /\ \A i \in StaffIds, r \in StaffRoles, x \in Int :
                  held[i][r] >= x /\ x <= day' /\ x >= day' - TokenDays => held'[i][r] >= x
<1> DEFINE after(i, r) == IF staff'[i].active /\ staff'[i].role = r THEN day'
                          ELSE IF held[i][r] >= day' - TokenDays THEN held[i][r] ELSE 0
<1>1. held' = [i \in StaffIds |-> [r \in StaffRoles |-> after(i, r)]] BY DEF StaffNext
<1>2. \A i \in StaffIds, r \in StaffRoles : held'[i][r] = after(i, r) BY <1>1
<1>3. day' \in Nat /\ TokenDays \in Nat /\ \A i \in StaffIds, r \in StaffRoles : held[i][r] \in Nat
  BY StaffAssumption DEF StaffInv, StaffShapes, HeldTyped
<1>4. HeldTyped'
  <2>1. \A i \in StaffIds, r \in StaffRoles : after(i, r) \in Nat BY <1>3
  <2>2. QED BY <1>1, <2>1 DEF HeldTyped
<1>5. ActiveIsHeld'
  <2>1. \A i \in StaffIds : staff'[i].role \in StaffRoles BY DEF StaffShapes, AccountRow
  <2>2. QED BY <1>2, <2>1 DEF ActiveIsHeld
<1>6. ASSUME NEW i \in StaffIds, NEW r \in StaffRoles, NEW x \in Int,
             held[i][r] >= x, x <= day', x >= day' - TokenDays
      PROVE  held'[i][r] >= x
  <2>1. held'[i][r] = after(i, r) BY <1>2
  <2>2. CASE staff'[i].active /\ staff'[i].role = r BY <2>1, <2>2, <1>6
  <2>3. CASE ~(staff'[i].active /\ staff'[i].role = r)
    <3>0. held[i][r] \in Int /\ day' - TokenDays \in Int BY <1>3
    <3>1. held[i][r] >= day' - TokenDays BY <3>0, <1>6
    <3>2. held'[i][r] = held[i][r] BY <2>1, <2>3, <3>1
    <3>3. QED BY <3>2, <1>6
  <2>4. QED BY <2>2, <2>3
<1>7. QED BY <1>4, <1>5, <1>6

(* A step that issues no token and begins no sign-in; the clock may move.  *)
LEMMA EarnedKept ==
    ASSUME StaffInv, StaffNext, StaffShapes', day' \in {day, day + 1}, tokens' \subseteq tokens,
           \A w \in Desks : desk'[w].pc = "login" =>
               desk'[w] = desk[w] /\ (day' = day \/ desk[w].since = day)
    PROVE  StaffInv'
<1>0. TokenDays \in Nat /\ TokenDays >= 1 /\ day \in Nat /\ day' \in Nat
  BY StaffAssumption DEF StaffInv, StaffShapes
<1>1. TokensEarned'
  <2> SUFFICES ASSUME NEW t \in tokens'
               PROVE  /\ t.exp <= day' + TokenDays
                      /\ Valid(t)' => held'[t.id][t.role] >= t.exp - TokenDays - 1
    BY DEF TokensEarned
  <2>1. t \in tokens /\ t.id \in StaffIds /\ t.role \in StaffRoles /\ t.exp \in Nat
    BY DEF StaffInv, StaffShapes
  <2>2. /\ t.exp <= day + TokenDays
        /\ day < t.exp => held[t.id][t.role] >= t.exp - TokenDays - 1
    BY <2>1 DEF StaffInv, TokensEarned, Valid
  <2>3. ASSUME day' < t.exp PROVE held'[t.id][t.role] >= t.exp - TokenDays - 1
    <3>1. /\ held[t.id][t.role] >= t.exp - TokenDays - 1 /\ t.exp - TokenDays - 1 <= day'
          /\ t.exp - TokenDays - 1 >= day' - TokenDays /\ t.exp - TokenDays - 1 \in Int
      BY <2>1, <2>2, <2>3, <1>0
    <3>2. QED BY <2>1, <3>1, HeldStep
  <2>4. t.exp <= day' + TokenDays BY <2>1, <2>2, <1>0
  <2>5. QED BY <2>3, <2>4 DEF Valid
<1>2. SignInsEarned'
  <2> SUFFICES ASSUME NEW w \in Desks, desk'[w].pc = "login"
               PROVE  /\ desk'[w].id \in StaffIds
                      /\ day' - 1 <= desk'[w].since /\ desk'[w].since <= day'
                      /\ held'[desk'[w].id][desk'[w].row.role] >= desk'[w].since
    BY DEF SignInsEarned
  <2>1. desk'[w] = desk[w] /\ (day' = day \/ desk[w].since = day) OBVIOUS
  <2>2. /\ desk[w].id \in StaffIds
        /\ day - 1 <= desk[w].since /\ desk[w].since <= day
        /\ held[desk[w].id][desk[w].row.role] >= desk[w].since
    BY <2>1 DEF StaffInv, SignInsEarned
  <2>3. desk[w].since \in Nat /\ desk[w].row.role \in StaffRoles
    BY DEF StaffInv, StaffShapes, DeskRow, AccountRow
  <2>4. day' - 1 <= desk[w].since /\ desk[w].since <= day' BY <2>1, <2>2, <2>3, <1>0
  <2>5. desk[w].since >= day' - TokenDays BY <2>4, <2>3, <1>0
  <2>6. held'[desk[w].id][desk[w].row.role] >= desk[w].since BY <2>2, <2>3, <2>4, <2>5, HeldStep
  <2>7. QED BY <2>1, <2>2, <2>4, <2>6
<1>3. HeldTyped' /\ ActiveIsHeld' BY HeldStep
<1>4. QED BY <1>1, <1>2, <1>3 DEF StaffInv

LEMMA StaffLoginInv ==
    ASSUME StaffInv, StaffNext, NEW w \in Desks, NEW e \in StaffEmails, NEW p \in Passwords,
           StaffLogin(w, e, p)
    PROVE  StaffInv'
<1>1. PICK i \in StaffIds :
          /\ staff[i].active
          /\ desk' = [desk EXCEPT ![w] = [pc |-> "login", id |-> i, row |-> staff[i], since |-> day]]
          /\ UNCHANGED <<staff, spent, tokens, day>>
  BY DEF StaffLogin, RowsOf, MaySignIn
<1>0. TokenDays \in Nat /\ TokenDays >= 1 /\ day \in Nat /\ staff[i] \in AccountRow
      /\ staff[i].role \in StaffRoles
  BY StaffAssumption DEF StaffInv, StaffShapes, AccountRow
<1>2. [pc |-> "login", id |-> i, row |-> staff[i], since |-> day] \in DeskRow BY <1>0 DEF DeskRow
<1>3. StaffShapes' BY <1>1, <1>2 DEF StaffInv, StaffShapes
<1>4. held[i][staff[i].role] = day BY <1>1 DEF StaffInv, ActiveIsHeld
<1>5. day <= day' /\ day >= day' - TokenDays /\ day \in Int /\ held[i][staff[i].role] >= day
      /\ day' \in {day, day + 1}
  BY <1>0, <1>1, <1>4
<1>6. held'[i][staff[i].role] >= day BY <1>0, <1>3, <1>5, HeldStep
<1>7. TokensEarned'
  <2> SUFFICES ASSUME NEW t \in tokens
               PROVE  /\ t.exp <= day + TokenDays
                      /\ day < t.exp => held'[t.id][t.role] >= t.exp - TokenDays - 1
    BY <1>1 DEF TokensEarned, Valid
  <2>1. t.id \in StaffIds /\ t.role \in StaffRoles /\ t.exp \in Nat BY DEF StaffInv, StaffShapes
  <2>2. /\ t.exp <= day + TokenDays
        /\ day < t.exp => held[t.id][t.role] >= t.exp - TokenDays - 1
    BY DEF StaffInv, TokensEarned, Valid
  <2>3. ASSUME day < t.exp PROVE held'[t.id][t.role] >= t.exp - TokenDays - 1
    <3>1. /\ held[t.id][t.role] >= t.exp - TokenDays - 1 /\ t.exp - TokenDays - 1 <= day'
          /\ t.exp - TokenDays - 1 >= day' - TokenDays /\ t.exp - TokenDays - 1 \in Int
      BY <2>1, <2>2, <2>3, <1>0, <1>1
    <3>2. QED BY <2>1, <3>1, <1>3, <1>5, HeldStep
  <2>4. QED BY <2>2, <2>3
<1>8. SignInsEarned'
  <2> SUFFICES ASSUME NEW v \in Desks, desk'[v].pc = "login"
               PROVE  /\ desk'[v].id \in StaffIds
                      /\ day - 1 <= desk'[v].since /\ desk'[v].since <= day
                      /\ held'[desk'[v].id][desk'[v].row.role] >= desk'[v].since
    BY <1>1 DEF SignInsEarned
  <2>1. CASE v = w
    <3>1. desk'[v] = [pc |-> "login", id |-> i, row |-> staff[i], since |-> day]
      BY <2>1, <1>1 DEF StaffInv, StaffShapes
    <3>2. desk'[v].id = i /\ desk'[v].row = staff[i] /\ desk'[v].since = day BY <3>1
    <3>3. QED BY <3>2, <1>6, <1>0
  <2>2. CASE v # w
    <3>1. desk'[v] = desk[v] BY <2>2, <1>1 DEF StaffInv, StaffShapes
    <3>2. /\ desk[v].id \in StaffIds
          /\ day - 1 <= desk[v].since /\ desk[v].since <= day
          /\ held[desk[v].id][desk[v].row.role] >= desk[v].since
      BY <3>1 DEF StaffInv, SignInsEarned
    <3>3. desk[v].since \in Nat /\ desk[v].row.role \in StaffRoles
      BY DEF StaffInv, StaffShapes, DeskRow, AccountRow
    <3>4. desk[v].since <= day' /\ desk[v].since >= day' - TokenDays /\ desk[v].since \in Int
      BY <3>2, <3>3, <1>0, <1>1
    <3>5. held'[desk[v].id][desk[v].row.role] >= desk[v].since
      BY <3>2, <3>3, <3>4, <1>3, <1>5, HeldStep
    <3>6. QED BY <3>1, <3>2, <3>5
  <2>3. QED BY <2>1, <2>2
<1>9. HeldTyped' /\ ActiveIsHeld' BY <1>3, <1>5, HeldStep
<1>10. QED BY <1>3, <1>7, <1>8, <1>9 DEF StaffInv

(* The token goes to whoever had the role when the row was read, the day   *)
(* before at the latest.                                                   *)
LEMMA IssueTokenInv ==
    ASSUME StaffInv, StaffNext, NEW w \in Desks, IssueToken(w)
    PROVE  StaffInv'
<1> DEFINE new == [id |-> desk[w].id, role |-> desk[w].row.role, exp |-> day + TokenDays]
<1>1. /\ desk[w].pc = "login" /\ tokens' = tokens \cup {new}
      /\ desk' = [desk EXCEPT ![w] = NoDesk] /\ UNCHANGED <<staff, spent, day>>
  BY DEF IssueToken
<1>2. TokenDays \in Nat /\ TokenDays >= 1 /\ day \in Nat
  BY StaffAssumption DEF StaffInv, StaffShapes
<1>3. /\ desk[w].id \in StaffIds /\ desk[w].row.role \in StaffRoles /\ desk[w].since \in Nat
      /\ day - 1 <= desk[w].since /\ desk[w].since <= day
      /\ held[desk[w].id][desk[w].row.role] >= desk[w].since
  BY <1>1 DEF StaffInv, StaffShapes, SignInsEarned, DeskRow, AccountRow
<1>4. new \in [id : StaffIds, role : StaffRoles, exp : Nat] BY <1>2, <1>3
<1>5. StaffShapes' BY <1>1, <1>4, StaffRows DEF StaffInv, StaffShapes
<1>6. \A v \in Desks : desk'[v].pc = "login" => desk'[v] = desk[v] /\ v # w
  BY <1>1, StaffRows DEF StaffInv, StaffShapes
<1>7. day' = day /\ day' \in {day, day + 1} BY <1>1
<1>8. HeldTyped' /\ ActiveIsHeld' BY <1>5, <1>7, HeldStep
<1>9. \A i \in StaffIds, r \in StaffRoles, x \in Int :
          held[i][r] >= x /\ x <= day /\ x >= day - TokenDays => held'[i][r] >= x
  BY <1>5, <1>7, HeldStep
<1>10. TokensEarned'
  <2> SUFFICES ASSUME NEW t \in tokens'
               PROVE  /\ t.exp <= day + TokenDays
                      /\ day < t.exp => held'[t.id][t.role] >= t.exp - TokenDays - 1
    BY <1>7 DEF TokensEarned, Valid
  <2>1. CASE t = new
    <3>1. t.id = desk[w].id /\ t.role = desk[w].row.role /\ t.exp = day + TokenDays BY <2>1
    <3>2. held'[desk[w].id][desk[w].row.role] >= desk[w].since
      <4>1. desk[w].since \in Int /\ desk[w].since >= day - TokenDays BY <1>2, <1>3
      <4>2. QED BY <4>1, <1>3, <1>9
    <3>3. held'[desk[w].id][desk[w].row.role] \in Nat BY <1>3, <1>8 DEF HeldTyped
    <3>4. held'[desk[w].id][desk[w].row.role] >= day - 1 BY <3>2, <3>3, <1>2, <1>3
    <3>5. t.exp - TokenDays - 1 = day - 1 BY <3>1, <1>2
    <3>6. QED BY <3>1, <3>4, <3>5, <1>2
  <2>2. CASE t \in tokens
    <3>1. t.id \in StaffIds /\ t.role \in StaffRoles /\ t.exp \in Nat
      BY <2>2 DEF StaffInv, StaffShapes
    <3>2. /\ t.exp <= day + TokenDays
          /\ day < t.exp => held[t.id][t.role] >= t.exp - TokenDays - 1
      BY <2>2 DEF StaffInv, TokensEarned, Valid
    <3>3. ASSUME day < t.exp PROVE held'[t.id][t.role] >= t.exp - TokenDays - 1
      <4>1. /\ t.exp - TokenDays - 1 <= day /\ t.exp - TokenDays - 1 >= day - TokenDays
            /\ t.exp - TokenDays - 1 \in Int
        BY <3>1, <3>2, <3>3, <1>2
      <4>2. QED BY <3>1, <3>2, <3>3, <4>1, <1>9
    <3>4. QED BY <3>2, <3>3
  <2>3. QED BY <2>1, <2>2, <1>1
<1>11. SignInsEarned'
  <2> SUFFICES ASSUME NEW v \in Desks, desk'[v].pc = "login"
               PROVE  /\ desk'[v].id \in StaffIds
                      /\ day - 1 <= desk'[v].since /\ desk'[v].since <= day
                      /\ held'[desk'[v].id][desk'[v].row.role] >= desk'[v].since
    BY <1>7 DEF SignInsEarned
  <2>1. desk'[v] = desk[v] BY <1>6
  <2>2. /\ desk[v].id \in StaffIds
        /\ day - 1 <= desk[v].since /\ desk[v].since <= day
        /\ held[desk[v].id][desk[v].row.role] >= desk[v].since
    BY <2>1 DEF StaffInv, SignInsEarned
  <2>3. desk[v].since \in Nat /\ desk[v].row.role \in StaffRoles
    BY DEF StaffInv, StaffShapes, DeskRow, AccountRow
  <2>4. desk[v].since >= day - TokenDays /\ desk[v].since \in Int BY <2>2, <2>3, <1>2
  <2>5. held'[desk[v].id][desk[v].row.role] >= desk[v].since BY <2>2, <2>3, <2>4, <1>9
  <2>6. QED BY <2>1, <2>2, <2>5
<1>12. QED BY <1>5, <1>8, <1>10, <1>11 DEF StaffInv

(* A step of a request that signs nobody in, or an admin's on the table.   *)
LEMMA DeskStep ==
    ASSUME StaffInv, StaffNext, NEW w \in Desks, NEW d \in DeskRow, d.pc # "login",
           desk' = [desk EXCEPT ![w] = d], UNCHANGED <<tokens, day>>,
           staff' \in [StaffIds -> AccountRow], spent' \subseteq StaffIds
    PROVE  StaffInv'
<1>1. StaffShapes' BY DEF StaffInv, StaffShapes
<1>2. \A v \in Desks : desk'[v].pc = "login" => desk'[v] = desk[v] /\ day' = day
  BY DEF StaffInv, StaffShapes
<1>3. QED BY <1>1, <1>2, EarnedKept

LEMMA TableStep ==
    ASSUME StaffInv, StaffNext, UNCHANGED <<tokens, desk, day>>,
           staff' \in [StaffIds -> AccountRow], spent' \subseteq StaffIds
    PROVE  StaffInv'
<1>1. StaffShapes' BY DEF StaffInv, StaffShapes
<1>2. QED BY <1>1, EarnedKept

LEMMA BeginChangeInv ==
    ASSUME StaffInv, StaffNext, NEW w \in Desks, NEW t \in tokens, NEW p \in Passwords,
           NEW q \in Passwords, BeginChange(w, t, p, q)
    PROVE  StaffInv'
<1> DEFINE d == [pc |-> "change", id |-> t.id, since |-> 0, row |-> [staff[t.id] EXCEPT !.password = q]]
<1>1. t.id \in StaffIds /\ staff[t.id] \in AccountRow BY DEF StaffInv, StaffShapes
<1>2. [staff[t.id] EXCEPT !.password = q] \in AccountRow BY <1>1 DEF AccountRow
<1>3. d \in DeskRow /\ d.pc # "login" BY <1>1, <1>2 DEF DeskRow
<1>4. /\ desk' = [desk EXCEPT ![w] = d] /\ UNCHANGED <<tokens, day>>
      /\ staff' \in [StaffIds -> AccountRow] /\ spent' \subseteq StaffIds
  BY DEF BeginChange, StaffInv, StaffShapes
<1>5. QED BY <1>3, <1>4, DeskStep

LEMMA CommitChangeInv ==
    ASSUME StaffInv, StaffNext, NEW w \in Desks, CommitChange(w)
    PROVE  StaffInv'
<1>1. desk[w] \in DeskRow /\ desk[w].row.password \in Passwords
  BY DEF StaffInv, StaffShapes, DeskRow, AccountRow
<1>2. staff' \in [StaffIds -> AccountRow]
  BY <1>1 DEF CommitChange, StaffInv, StaffShapes, AccountRow
<1>3. desk' = [desk EXCEPT ![w] = NoDesk] /\ UNCHANGED <<tokens, day>> /\ spent' \subseteq StaffIds
  BY DEF CommitChange, StaffInv, StaffShapes
<1>4. QED BY <1>2, <1>3, StaffRows, DeskStep

LEMMA BeginCreateInv ==
    ASSUME StaffInv, StaffNext, NEW w \in Desks, NEW a \in StaffIds, NEW e \in StaffEmails,
           NEW role \in StaffRoles, NEW p \in Passwords, BeginCreate(w, a, e, role, p)
    PROVE  StaffInv'
<1> DEFINE d == [pc |-> "create", id |-> a, row |-> StaffRow(e, role, p), since |-> 0]
<1>1. d \in DeskRow /\ d.pc # "login" BY StaffRows DEF DeskRow
<1>2. /\ desk' = [desk EXCEPT ![w] = d] /\ UNCHANGED <<tokens, day>>
      /\ staff' \in [StaffIds -> AccountRow] /\ spent' \subseteq StaffIds
  BY DEF BeginCreate, StaffInv, StaffShapes
<1>3. QED BY <1>1, <1>2, DeskStep

LEMMA CommitCreateInv ==
    ASSUME StaffInv, StaffNext, NEW w \in Desks, NEW i \in StaffIds, CommitCreate(w, i)
    PROVE  StaffInv'
<1>1. desk[w].row \in AccountRow BY DEF StaffInv, StaffShapes, DeskRow
<1>2. staff' \in [StaffIds -> AccountRow] /\ spent' \subseteq StaffIds
  BY <1>1 DEF CommitCreate, StaffInv, StaffShapes
<1>3. desk' = [desk EXCEPT ![w] = NoDesk] /\ UNCHANGED <<tokens, day>> BY DEF CommitCreate
<1>4. QED BY <1>2, <1>3, StaffRows, DeskStep

LEMMA UpdateStaffInv ==
    ASSUME StaffInv, StaffNext, NEW a, NEW i \in StaffIds, NEW role \in StaffRoles,
           NEW on \in BOOLEAN, NEW p \in Passwords, UpdateStaff(a, i, role, on, p)
    PROVE  StaffInv'
<1>1. staff' \in [StaffIds -> AccountRow]
  <2>1. staff[i] \in AccountRow BY DEF StaffInv, StaffShapes
  <2>2. staff' = [staff EXCEPT ![i] = [staff[i] EXCEPT !.role = role, !.active = on, !.password = p]]
    BY DEF UpdateStaff, StaffInv, StaffShapes
  <2>3. [staff[i] EXCEPT !.role = role, !.active = on, !.password = p] \in AccountRow
    BY <2>1 DEF AccountRow
  <2>4. QED BY <2>2, <2>3 DEF StaffInv, StaffShapes
<1>2. UNCHANGED <<tokens, desk, day>> /\ spent' \subseteq StaffIds
  BY DEF UpdateStaff, StaffInv, StaffShapes
<1>3. QED BY <1>1, <1>2, TableStep

LEMMA DeleteStaffInv ==
    ASSUME StaffInv, StaffNext, NEW a, NEW i \in StaffIds, DeleteStaff(a, i)
    PROVE  StaffInv'
<1>1. staff' \in [StaffIds -> AccountRow] /\ UNCHANGED <<tokens, desk, day>>
      /\ spent' \subseteq StaffIds
  BY StaffRows DEF DeleteStaff, StaffInv, StaffShapes
<1>2. QED BY <1>1, TableStep

LEMMA SeedStaffInv ==
    ASSUME StaffInv, StaffNext, NEW i \in StaffIds, NEW e \in StaffEmails,
           NEW role \in StaffRoles, NEW p \in Passwords, SeedStaff(i, e, role, p)
    PROVE  StaffInv'
<1>1. staff' \in [StaffIds -> AccountRow] /\ UNCHANGED <<tokens, desk, day>>
      /\ spent' \subseteq StaffIds
  BY StaffRows DEF SeedStaff, StaffInv, StaffShapes
<1>2. QED BY <1>1, TableStep

LEMMA StartupInv ==
    ASSUME StaffInv, StaffNext, NEW i \in StaffIds, Startup(i)
    PROVE  StaffInv'
<1>1. StaffRow(DefaultEmail, "admin", DefaultPassword) \in AccountRow
  BY StaffRows, StaffAssumption DEF StaffRoles
<1>2. staff' \in [StaffIds -> AccountRow] /\ spent' \subseteq StaffIds
  BY <1>1 DEF Startup, StaffInv, StaffShapes
<1>3. desk' = [w \in Desks |-> NoDesk] /\ UNCHANGED <<tokens, day>> BY DEF Startup
<1>4. StaffShapes' BY <1>2, <1>3, StaffRows DEF StaffInv, StaffShapes
<1>5. \A v \in Desks : desk'[v].pc # "login" BY <1>3, StaffRows
<1>6. QED BY <1>3, <1>4, <1>5, EarnedKept

LEMMA StaffTickInv == ASSUME StaffInv, StaffNext, StaffTick PROVE StaffInv'
<1>1. /\ day' = day + 1 /\ UNCHANGED <<staff, spent, desk>> /\ tokens' \subseteq tokens
      /\ \A w \in Desks : desk[w].pc = "login" => desk[w].since = day
  BY DEF StaffTick
<1>2. StaffShapes' BY <1>1 DEF StaffInv, StaffShapes
<1>3. QED BY <1>1, <1>2, EarnedKept

LEMMA StaffNextInv == StaffInv /\ [StaffNext]_staffVars => StaffInv'
<1> SUFFICES ASSUME StaffInv, [StaffNext]_staffVars PROVE StaffInv' OBVIOUS
<1>1. CASE UNCHANGED staffVars
  BY <1>1 DEF staffVars, StaffInv, StaffShapes, HeldTyped, ActiveIsHeld, TokensEarned, SignInsEarned, Valid
<1>2. CASE StaffNext
  <2>1. StaffStep BY <1>2 DEF StaffNext
  <2>2. CASE \E w \in Desks, e \in StaffEmails, p \in Passwords : StaffLogin(w, e, p)
    BY <1>2, <2>2, StaffLoginInv
  <2>3. CASE \E w \in Desks : IssueToken(w) \/ CommitChange(w)
    BY <1>2, <2>3, IssueTokenInv, CommitChangeInv
  <2>4. CASE \E w \in Desks, t \in tokens, p, q \in Passwords : BeginChange(w, t, p, q)
    BY <1>2, <2>4, BeginChangeInv
  <2>5. CASE \E w \in Desks, a \in StaffIds, e \in StaffEmails, role \in StaffRoles, p \in Passwords :
                 BeginCreate(w, a, e, role, p)
    BY <1>2, <2>5, BeginCreateInv
  <2>6. CASE \E w \in Desks, i \in StaffIds : CommitCreate(w, i) BY <1>2, <2>6, CommitCreateInv
  <2>7. CASE \E a \in StaffIds \cup {Null}, i \in StaffIds, role \in StaffRoles, on \in BOOLEAN,
                p \in Passwords : UpdateStaff(a, i, role, on, p)
    BY <1>2, <2>7, UpdateStaffInv
  <2>8. CASE \E a \in StaffIds \cup {Null}, i \in StaffIds : DeleteStaff(a, i)
    BY <1>2, <2>8, DeleteStaffInv
  <2>9. CASE \E i \in StaffIds, e \in StaffEmails, role \in StaffRoles, p \in Passwords :
                 SeedStaff(i, e, role, p)
    BY <1>2, <2>9, SeedStaffInv
  <2>10. CASE \E i \in StaffIds : Startup(i) BY <1>2, <2>10, StartupInv
  <2>11. CASE StaffTick BY <1>2, <2>11, StaffTickInv
  <2>12. QED BY <2>1, <2>2, <2>3, <2>4, <2>5, <2>6, <2>7, <2>8, <2>9, <2>10, <2>11 DEF StaffStep
<1>3. QED BY <1>1, <1>2

(* The invariant of the staff's table and tokens, for any number of        *)
(* accounts, desks and tokens and any life of a token.                     *)
THEOREM StaffInductive == StaffSpec => []StaffInv
BY StaffStart, StaffNextInv, PTL DEF StaffSpec

(* Rights that were taken away end with the token that carries them: a     *)
(* valid token's account had that role within the last TokenDays days      *)
(* (staff_login, create_staff_token, update_staff_member).                 *)
THEOREM RightsEnd == StaffSpec => []StaleAccessEnds
<1>1. StaffInv => StaleAccessEnds
  <2> SUFFICES ASSUME StaffInv, NEW t \in tokens, Valid(t)
               PROVE  held[t.id][t.role] >= day - TokenDays
    BY DEF StaleAccessEnds
  <2>1. /\ t.id \in StaffIds /\ t.role \in StaffRoles /\ t.exp \in Nat /\ day \in Nat
        /\ held[t.id][t.role] \in Nat /\ TokenDays \in Nat
    BY StaffAssumption DEF StaffInv, StaffShapes, HeldTyped
  <2>2. held[t.id][t.role] >= t.exp - TokenDays - 1 /\ day < t.exp
    BY DEF StaffInv, TokensEarned, Valid
  <2>3. QED BY <2>1, <2>2
<1>2. QED BY <1>1, StaffInductive, PTL
=============================================================================
