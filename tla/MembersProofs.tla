---------------------------- MODULE MembersProofs ----------------------------
(***************************************************************************)
(* Theorems about what members hold: the username of a public page         *)
(* (Profiles), the coupon left to use (Coupons), the access of an old      *)
(* order (Cashfree) and the verdict on an answer (Judge), for any number   *)
(* of members, names, addresses, codes, orders, refunds, requests at once  *)
(* and rows of a result.                                                   *)
(***************************************************************************)
EXTENDS Profiles, Coupons, Cashfree, Judge, FiniteSetTheorems, SequenceTheorems, TLAPS

----------------------------------------------------------------------------
(* Usernames *)

AccountRow == [known : BOOLEAN, name : Names \cup NoName, onboarded : BOOLEAN]
FormRow    == [pc : {"idle", "save"}, user : Members \cup {Null}, name : Names \cup NoName]

ProfileShapes == account \in [Members -> AccountRow] /\ form \in [Workers -> FormRow]

(* A username, once given, is never taken away: a form without one is only *)
(* sent for an account that has it already.                                *)
FormsName ==
    \A w \in Workers : form[w].pc = "save" =>
        /\ form[w].user \in Members
        /\ form[w].name # Null \/ account[form[w].user].name # Null

NamesUnique == \A u, v \in Members : account[u].name # Null /\ account[u].name = account[v].name => u = v
NamesGiven  == \A u \in Members : account[u].onboarded => account[u].name # Null
BlanksSent  == \A u \in Members : account[u].name = Blank => u \in blanked

NamesInv == ProfileShapes /\ FormsName /\ NamesUnique /\ NamesGiven /\ BlanksSent

LEMMA NamesInit == ProfilesInit => NamesInv
BY ProfilesAssumption
   DEF ProfilesInit, NamesInv, ProfileShapes, FormsName, NamesUnique, NamesGiven, BlanksSent, NoName,
       NoAccount, NoForm, AccountRow, FormRow

(* Any change of one account that keeps its name, or gives it a free one,  *)
(* the empty one only if its user sent it.                                 *)
LEMMA AccountInv ==
    ASSUME NamesInv, NEW u \in Members, NEW row \in AccountRow,
           account' = [account EXCEPT ![u] = row],
           row.name = account[u].name \/ (row.name # Null /\ ~Taken(row.name, u)),
           row.onboarded => row.name # Null,
           blanked \subseteq blanked', row.name = Blank => u \in blanked',
           form' \in [Workers -> FormRow],
           \A w \in Workers : form'[w].pc = "save" => form'[w] = form[w]
    PROVE  NamesInv'
<1> USE DEF NamesInv
<1>1. account'[u] = row /\ \A v \in Members \ {u} : account'[v] = account[v] BY DEF ProfileShapes
<1>2. ProfileShapes' BY DEF ProfileShapes
<1>3. \A v \in Members : account[v].name # Null => account'[v].name # Null BY <1>1
<1>4. FormsName' BY <1>3 DEF FormsName
<1>5. NamesUnique'
  <2>1. ASSUME NEW v \in Members \ {u}, row.name # Null PROVE row.name # account[v].name
    <3>1. CASE row.name = account[u].name BY <2>1, <3>1 DEF NamesUnique
    <3>2. CASE ~Taken(row.name, u) BY <2>1, <3>2 DEF Taken
    <3>3. QED BY <3>1, <3>2
  <2>2. QED BY <1>1, <2>1 DEF NamesUnique
<1>6. NamesGiven' BY <1>1 DEF NamesGiven
<1>7. BlanksSent' BY <1>1 DEF BlanksSent
<1>8. QED BY <1>2, <1>4, <1>5, <1>6, <1>7

LEMMA OpenFormNames ==
    ASSUME NamesInv, NEW w \in Workers, NEW u \in Members, NEW wanted \in Names \cup NoName,
           NEW drawn_ \in Names, OpenForm(w, u, wanted, drawn_)
    PROVE  NamesInv'
<1> USE DEF NamesInv
<1> DEFINE name == IF {wanted, account[u].name} \subseteq NoName THEN drawn_ ELSE wanted
           row  == [pc |-> "save", user |-> u, name |-> name]
<1>1. UNCHANGED <<account, blanked>> /\ form' = [form EXCEPT ![w] = row] BY DEF OpenForm
<1>2. row \in FormRow /\ row.pc = "save" /\ row.user = u
      /\ (row.name # Null \/ account[u].name # Null)
  BY ProfilesAssumption DEF FormRow, NoName
<1> HIDE DEF row
<1>3. form' \in [Workers -> FormRow] /\ form'[w] = row
      /\ \A v \in Workers \ {w} : form'[v] = form[v]
  BY <1>1, <1>2 DEF ProfileShapes
<1>4. FormsName' BY <1>1, <1>2, <1>3 DEF FormsName
<1>5. ProfileShapes' BY <1>1, <1>3 DEF ProfileShapes
<1>6. QED BY <1>1, <1>4, <1>5 DEF NamesUnique, NamesGiven, BlanksSent

LEMMA SaveFormNames == ASSUME NamesInv, NEW w \in Workers, SaveForm(w) PROVE NamesInv'
<1> USE DEF NamesInv
<1> DEFINE u == form[w].user
           n == form[w].name
           row == [known |-> TRUE, onboarded |-> TRUE, name |-> Coalesce(n, account[u].name)]
<1>1. /\ u \in Members /\ n \in Names \cup NoName /\ account[u] \in AccountRow
      /\ n # Null \/ account[u].name # Null
  BY DEF SaveForm, FormsName, ProfileShapes, FormRow
<1>2. form' = [form EXCEPT ![w] = NoForm] BY DEF SaveForm
<1>3. NoForm \in FormRow /\ NoForm.pc # "save" BY DEF NoForm, FormRow, NoName
<1>4. form' \in [Workers -> FormRow] /\ \A v \in Workers : form'[v].pc = "save" => form'[v] = form[v]
  BY <1>2, <1>3 DEF ProfileShapes
<1>5. CASE n # Null /\ Taken(n, u)
  <2>1. account' = [account EXCEPT ![u] = account[u]] BY <1>5 DEF SaveForm, ProfileShapes
  <2>2. account[u].onboarded => account[u].name # Null BY <1>1 DEF NamesGiven
  <2>3. blanked \subseteq blanked' /\ (account[u].name = Blank => u \in blanked')
    BY <1>1, <1>5 DEF SaveForm, BlanksSent
  <2>4. QED BY <1>1, <1>4, <2>1, <2>2, <2>3, AccountInv
<1>6. CASE ~(n # Null /\ Taken(n, u))
  <2>1. account' = [account EXCEPT ![u] = row] BY <1>6 DEF SaveForm
  <2>2. /\ Coalesce(n, account[u].name) \in Names \cup NoName
        /\ Coalesce(n, account[u].name) # Null
    BY <1>1 DEF Coalesce, AccountRow
  <2>3. row \in AccountRow BY <2>2 DEF AccountRow
  <2>4. row.name = account[u].name \/ (row.name # Null /\ ~Taken(row.name, u))
    BY <1>1, <1>6 DEF Coalesce
  <2>5. row.name # Null BY <2>2
  <2>6. blanked \subseteq blanked' /\ (row.name = Blank => u \in blanked')
    BY <1>1, <1>6 DEF SaveForm, Coalesce, BlanksSent
  <2> HIDE DEF row
  <2>7. QED BY <1>1, <1>4, <2>1, <2>3, <2>4, <2>5, <2>6, AccountInv
<1>7. QED BY <1>5, <1>6

LEMMA NamesNext == NamesInv /\ [ProfilesNext]_profileVars => NamesInv'
<1> SUFFICES ASSUME NamesInv, [ProfilesNext]_profileVars PROVE NamesInv' OBVIOUS
<1> USE DEF NamesInv
<1>1. ASSUME NEW u \in Members, Register(u) PROVE NamesInv'
  <2> DEFINE row == [account[u] EXCEPT !.known = TRUE]
  <2>1. account \in [Members -> AccountRow] /\ account[u] \in AccountRow
        /\ form \in [Workers -> FormRow]
    BY DEF ProfileShapes
  <2>2. row \in AccountRow /\ row.name = account[u].name /\ row.onboarded = account[u].onboarded
    BY <2>1 DEF AccountRow
  <2>3. account' = [account EXCEPT ![u] = row] /\ form' = form /\ blanked' = blanked
    BY <1>1, <2>1 DEF Register
  <2> HIDE DEF row
  <2>4. row.onboarded => row.name # Null BY <2>2 DEF NamesGiven
  <2>5. row.name = Blank => u \in blanked' BY <2>2, <2>3 DEF BlanksSent
  <2>6. QED BY <2>1, <2>2, <2>3, <2>4, <2>5, AccountInv
<1>2. ASSUME NEW u \in Members, NEW n \in Names, Migrate(u, n) PROVE NamesInv'
  <2> DEFINE row == [account[u] EXCEPT !.name = n]
  <2>1. account \in [Members -> AccountRow] /\ account[u] \in AccountRow
        /\ form \in [Workers -> FormRow] /\ n # Null /\ n # Blank
    BY ProfilesAssumption DEF ProfileShapes
  <2>2. row \in AccountRow /\ row.name = n BY <2>1 DEF AccountRow
  <2>3. account' = [account EXCEPT ![u] = row] /\ form' = form /\ blanked' = blanked /\ ~Taken(n, u)
    BY <1>2, <2>1 DEF Migrate
  <2> HIDE DEF row
  <2>4. QED BY <2>1, <2>2, <2>3, AccountInv
<1>3. ASSUME UNCHANGED <<account, form, blanked>> PROVE NamesInv'
  BY <1>3 DEF ProfileShapes, FormsName, NamesUnique, NamesGiven, BlanksSent
<1>4. QED
  BY <1>1, <1>2, <1>3, OpenFormNames, SaveFormNames
     DEF ProfilesNext, profileVars, Solve, Vanish

(* Whatever forms, sign-ups and migrations meet, whoever is past the       *)
(* onboarding has a name, and a page, of their own, but for who sent the   *)
(* empty name over it, and no two of those (update_my_profile).            *)
THEOREM PageOfTheirOwn == ProfilesSpec => []OnboardedHasPage
<1>1. NamesInv => OnboardedHasPage
  <2> SUFFICES ASSUME NamesInv, NEW u \in Members, account[u].onboarded
               PROVE  /\ account[u].name \in Names \/ (account[u].name = Blank /\ u \in blanked)
                      /\ ~Taken(account[u].name, u)
    BY DEF OnboardedHasPage
  <2>1. account[u].name \in Names \cup NoName /\ account[u].name # Null
    BY DEF NamesInv, ProfileShapes, AccountRow, NamesGiven
  <2>2. account[u].name \in Names \/ (account[u].name = Blank /\ u \in blanked)
    BY <2>1 DEF NoName, NamesInv, BlanksSent
  <2>3. ~Taken(account[u].name, u) BY <2>1 DEF NamesInv, NamesUnique, Taken
  <2>4. QED BY <2>2, <2>3
<1>2. QED BY <1>1, NamesInit, NamesNext, PTL DEF ProfilesSpec

----------------------------------------------------------------------------
(* Coupons *)

CouponRow == [email : Mailboxes \cup {Null}, used : BOOLEAN, expires : Int]
ClerkRow  == [left : SUBSET Mailboxes, email : Mailboxes \cup {Null}, found : Codes \cup {Null},
              expires : Int, script : BOOLEAN]

CouponShapes ==
    /\ coupons \in [Codes -> CouponRow] /\ clerk \in [Clerks -> ClerkRow]
    /\ drawn \in Nat /\ today \in Nat

AtMostOne == \A e \in Mailboxes : \A c, d \in UnusedOf(e) : c = d

(* A generation that found no coupon is right until it inserts one.        *)
FoundNone == \A k \in Clerks : clerk[k].email # Null /\ clerk[k].found = Null =>
                                   UnusedOf(clerk[k].email) = {}

CouponsInv == CouponShapes /\ AtMostOne /\ FoundNone

(* One generation at a time: two may find no coupon for an address at once *)
(* and give it one each.                                                   *)
OneClerk == \A k, l \in Clerks : k = l

LEMMA CouponsInitInv == CouponsInit => CouponsInv
<1> SUFFICES ASSUME CouponsInit PROVE CouponsInv OBVIOUS
<1>1. CouponShapes
  BY CouponsAssumption DEF CouponsInit, CouponShapes, NoCoupon, NoClerk, CouponRow, ClerkRow
<1>2. \A e \in Mailboxes : UnusedOf(e) = {}
  BY CouponsAssumption DEF CouponsInit, UnusedOf, Issued, NoCoupon
<1>3. QED BY <1>1, <1>2 DEF CouponsInv, AtMostOne, FoundNone, CouponsInit, NoClerk

(* Nothing more is left to use, and generations go on with what they knew  *)
(* or learn that there is none.                                            *)
LEMMA FewerCoupons ==
    ASSUME CouponsInv, CouponShapes',
           \A c \in Codes, e \in Mailboxes : c \in UnusedOf(e)' => c \in UnusedOf(e),
           \A k \in Clerks : clerk'[k].email # Null /\ clerk'[k].found = Null =>
                                 UnusedOf(clerk'[k].email) = {} /\ clerk'[k].email \in Mailboxes
    PROVE  CouponsInv'
<1> USE DEF CouponsInv
<1>1. \A e \in Mailboxes : UnusedOf(e)' \subseteq UnusedOf(e) BY DEF UnusedOf
<1>2. AtMostOne' BY <1>1 DEF AtMostOne
<1>3. \A k \in Clerks, e \in Mailboxes : clerk'[k].email = e => UnusedOf(clerk[k].email)' = UnusedOf(e)'
  BY DEF UnusedOf
<1>4. FoundNone' BY <1>1, <1>3 DEF FoundNone
<1>5. QED BY <1>2, <1>4

(* What becomes of the generation that has served an address. *)
LEMMA ServedClerk ==
    ASSUME CouponsInv, NEW k \in Clerks, Served(k)
    PROVE  /\ clerk' \in [Clerks -> ClerkRow] /\ clerk'[k].email = Null
           /\ \A l \in Clerks \ {k} : clerk'[l] = clerk[l]
<1> DEFINE row == IF clerk[k].left = {} THEN NoClerk
                  ELSE [clerk[k] EXCEPT !.email = Null, !.found = Null]
<1>1. clerk \in [Clerks -> ClerkRow] /\ clerk[k] \in ClerkRow BY DEF CouponsInv, CouponShapes
<1>2. row \in ClerkRow /\ row.email = Null
  <2>1. NoClerk \in ClerkRow /\ NoClerk.email = Null BY DEF NoClerk, ClerkRow
  <2>2. [clerk[k] EXCEPT !.email = Null, !.found = Null] \in ClerkRow
        /\ [clerk[k] EXCEPT !.email = Null, !.found = Null].email = Null
    BY <1>1 DEF ClerkRow
  <2>3. QED BY <2>1, <2>2
<1>3. clerk' = [clerk EXCEPT ![k] = row] BY <1>1 DEF Served
<1> HIDE DEF row
<1>4. QED BY <1>1, <1>2, <1>3

LEMMA BeginGenerateCoupons ==
    ASSUME CouponsInv, NEW k \in Clerks, NEW named \in SUBSET Mailboxes, NEW days \in Validity,
           NEW script \in BOOLEAN, BeginGenerate(k, named, days, script)
    PROVE  CouponsInv'
<1> USE DEF CouponsInv
<1> DEFINE whom == IF named = {} THEN Registered \ lifetime ELSE named
           row == [NoClerk EXCEPT !.left = whom, !.expires = today + days, !.script = script]
<1>1. clerk' = [clerk EXCEPT ![k] = row] /\ UNCHANGED <<drawn, coupons, lifetime, today>>
  BY DEF BeginGenerate
<1>2. whom \subseteq Mailboxes /\ today + days \in Int
  BY CouponsAssumption DEF CouponShapes
<1> HIDE DEF whom
<1>3. row \in ClerkRow /\ row.email = Null BY <1>2 DEF NoClerk, ClerkRow
<1> HIDE DEF row
<1>4. clerk \in [Clerks -> ClerkRow] BY DEF CouponShapes
<1>5. clerk' \in [Clerks -> ClerkRow] /\ clerk'[k] = row
      /\ \A l \in Clerks \ {k} : clerk'[l] = clerk[l]
  BY <1>1, <1>3, <1>4
<1>6. CouponShapes' BY <1>1, <1>5 DEF CouponShapes
<1>7. \A c \in Codes, e \in Mailboxes : c \in UnusedOf(e)' => c \in UnusedOf(e)
  BY <1>1 DEF UnusedOf, Issued
<1>8. \A l \in Clerks : clerk'[l].email # Null /\ clerk'[l].found = Null =>
                            UnusedOf(clerk'[l].email) = {} /\ clerk'[l].email \in Mailboxes
  BY <1>3, <1>5 DEF FoundNone, ClerkRow
<1>9. QED BY <1>6, <1>7, <1>8, FewerCoupons

LEMMA ReadUnusedCoupons ==
    ASSUME CouponsInv, NEW k \in Clerks, NEW e \in Mailboxes, ReadUnused(k, e) PROVE CouponsInv'
<1> USE DEF CouponsInv
<1>1. PICK c \in (IF Find(e) = {} THEN {Null} ELSE Find(e)) :
          clerk' = [clerk EXCEPT ![k].email = e, ![k].found = c, ![k].left = @ \ {e}]
  BY DEF ReadUnused
<1> DEFINE row == [clerk[k] EXCEPT !.email = e, !.found = c, !.left = @ \ {e}]
<1>2. clerk \in [Clerks -> ClerkRow] /\ clerk[k] \in ClerkRow BY DEF CouponShapes
<1>3. c \in Codes \cup {Null} BY <1>1 DEF Find, UnusedOf
<1>4. row \in ClerkRow /\ row.email = e /\ row.found = c BY <1>2, <1>3 DEF ClerkRow
<1>5. clerk' = [clerk EXCEPT ![k] = row] BY <1>1, <1>2
<1> HIDE DEF row
<1>6. clerk' \in [Clerks -> ClerkRow] /\ clerk'[k] = row
      /\ \A l \in Clerks \ {k} : clerk'[l] = clerk[l]
  BY <1>2, <1>4, <1>5
<1>7. UNCHANGED <<drawn, coupons, lifetime, today>> BY DEF ReadUnused
<1>8. CouponShapes' BY <1>6, <1>7 DEF CouponShapes
<1>9. \A b \in Codes, f \in Mailboxes : b \in UnusedOf(f)' => b \in UnusedOf(f)
  BY <1>7 DEF UnusedOf, Issued
<1>10. c = Null => UnusedOf(e) = {}
  BY <1>1, CouponsAssumption DEF Find, UnusedOf, Codes
<1>11. \A l \in Clerks : clerk'[l].email # Null /\ clerk'[l].found = Null =>
                             UnusedOf(clerk'[l].email) = {} /\ clerk'[l].email \in Mailboxes
  BY <1>4, <1>6, <1>10 DEF FoundNone, ClerkRow, CouponShapes
<1>12. QED BY <1>8, <1>9, <1>11, FewerCoupons

(* A refresh, a revocation, a redemption: one coupon, with its address.    *)
LEMMA CouponKept ==
    ASSUME CouponsInv, NEW c \in Codes, NEW row \in CouponRow, coupons' = [coupons EXCEPT ![c] = row],
           row.email = coupons[c].email \/ row.email = Null,
           coupons[c].used => row.used \/ row.email = Null
    PROVE  /\ coupons' \in [Codes -> CouponRow]
           /\ \A b \in Codes, e \in Mailboxes : b \in UnusedOf(e)' => b \in UnusedOf(e)
<1>1. coupons \in [Codes -> CouponRow] BY DEF CouponsInv, CouponShapes
<1>2. coupons'[c] = row /\ \A b \in Codes \ {c} : coupons'[b] = coupons[b] BY <1>1
<1>3. ASSUME NEW b \in Codes, NEW e \in Mailboxes, b \in UnusedOf(e)' PROVE b \in UnusedOf(e)
  <2>1. coupons'[b].email = e /\ e # Null /\ ~coupons'[b].used
    BY <1>3, CouponsAssumption DEF UnusedOf
  <2>2. CASE b = c BY <1>2, <2>1, <2>2 DEF UnusedOf, Issued
  <2>3. CASE b # c BY <1>2, <2>1, <2>3 DEF UnusedOf, Issued
  <2>4. QED BY <2>2, <2>3
<1>4. QED BY <1>1, <1>3

LEMMA RefreshCoupons == ASSUME CouponsInv, NEW k \in Clerks, Refresh(k) PROVE CouponsInv'
<1> USE DEF CouponsInv
<1> DEFINE c == clerk[k].found
           row == [coupons[c] EXCEPT !.expires = clerk[k].expires]
<1>1. Served(k) /\ UNCHANGED <<drawn, lifetime, today>> BY DEF Refresh
<1>2. /\ clerk[k] \in ClerkRow /\ clerk[k].expires \in Int /\ c \in Codes
      /\ coupons \in [Codes -> CouponRow]
  BY DEF Refresh, CouponShapes, ClerkRow
<1>3. /\ coupons' \in [Codes -> CouponRow]
      /\ \A b \in Codes, e \in Mailboxes : b \in UnusedOf(e)' => b \in UnusedOf(e)
  <2>1. CASE coupons' = coupons BY <1>2, <2>1 DEF UnusedOf, Issued
  <2>2. CASE coupons' = [coupons EXCEPT ![c].expires = clerk[k].expires]
    <3>1. coupons[c] \in CouponRow BY <1>2
    <3>2. row \in CouponRow /\ row.email = coupons[c].email /\ row.used = coupons[c].used
      BY <1>2, <3>1 DEF CouponRow
    <3>3. coupons' = [coupons EXCEPT ![c] = row] BY <1>2, <2>2
    <3> HIDE DEF row
    <3>4. QED BY <1>2, <3>2, <3>3, CouponKept
  <2>3. QED BY <2>1, <2>2 DEF Refresh
<1>4. CouponShapes' BY <1>1, <1>3, ServedClerk DEF CouponShapes
<1>5. \A l \in Clerks : clerk'[l].email # Null /\ clerk'[l].found = Null =>
                            UnusedOf(clerk'[l].email) = {} /\ clerk'[l].email \in Mailboxes
  BY <1>1, ServedClerk DEF FoundNone, CouponShapes, ClerkRow
<1>6. QED BY <1>3, <1>4, <1>5, FewerCoupons

(* The one that inserts found none left, and nobody else inserts.          *)
LEMMA InsertCouponKept ==
    ASSUME CouponsInv, OneClerk, NEW k \in Clerks, NEW c \in Codes, InsertCoupon(k, c)
    PROVE  CouponsInv'
<1> USE DEF CouponsInv
<1> DEFINE new == [email |-> clerk[k].email, used |-> FALSE, expires |-> clerk[k].expires]
           row == [coupons[c] EXCEPT !.expires = clerk[k].expires]
<1>1. /\ Served(k) /\ UNCHANGED <<lifetime, today>>
      /\ clerk[k].email # Null /\ clerk[k].found = Null
  BY DEF InsertCoupon
<1>2. /\ clerk[k] \in ClerkRow /\ clerk[k].expires \in Int /\ clerk[k].email \in Mailboxes
      /\ coupons \in [Codes -> CouponRow] /\ drawn \in Nat
  BY <1>1 DEF CouponShapes, ClerkRow
<1>3. drawn' \in Nat BY <1>2 DEF InsertCoupon, Codes
<1>4. \A l \in Clerks : clerk'[l].email = Null BY <1>1, ServedClerk DEF OneClerk
<1>5. CASE ~Issued(c)
  <2>1. coupons' = [coupons EXCEPT ![c] = new] BY <1>5 DEF InsertCoupon
  <2>2. new \in CouponRow BY <1>2 DEF CouponRow
  <2>3. coupons' \in [Codes -> CouponRow] /\ coupons'[c] = new
        /\ \A b \in Codes \ {c} : coupons'[b] = coupons[b]
    BY <1>2, <2>1, <2>2
  <2>4. CouponShapes' BY <1>1, <1>3, <2>3, ServedClerk DEF CouponShapes
  <2>5. UnusedOf(clerk[k].email) = {} BY <1>1 DEF FoundNone
  <2>6. ASSUME NEW e \in Mailboxes, NEW b \in UnusedOf(e)', NEW d \in UnusedOf(e)'
        PROVE  b = d
    <3>1. CASE e = clerk[k].email
      <4>1. \A a \in UnusedOf(e)' : a = c
        BY <2>3, <2>5, <3>1, CouponsAssumption DEF UnusedOf, Issued
      <4>2. QED BY <2>6, <4>1
    <3>2. CASE e # clerk[k].email
      <4>1. \A a \in UnusedOf(e)' : a \in UnusedOf(e) BY <2>3, <3>2 DEF UnusedOf, Issued
      <4>2. QED BY <2>6, <4>1 DEF AtMostOne
    <3>3. QED BY <3>1, <3>2
  <2>7. AtMostOne' BY <2>6 DEF AtMostOne
  <2>8. QED BY <1>4, <2>4, <2>7 DEF FoundNone
<1>6. CASE Issued(c)
  <2>1. /\ coupons' \in [Codes -> CouponRow]
        /\ \A b \in Codes, e \in Mailboxes : b \in UnusedOf(e)' => b \in UnusedOf(e)
    <3>1. CASE coupons' = coupons BY <1>2, <3>1 DEF UnusedOf, Issued
    <3>2. CASE coupons' = [coupons EXCEPT ![c].expires = clerk[k].expires]
      <4>1. coupons[c] \in CouponRow BY <1>2
      <4>2. row \in CouponRow /\ row.email = coupons[c].email /\ row.used = coupons[c].used
        BY <1>2, <4>1 DEF CouponRow
      <4>3. coupons' = [coupons EXCEPT ![c] = row] BY <1>2, <3>2
      <4> HIDE DEF row
      <4>4. QED BY <4>2, <4>3, CouponKept
    <3>3. QED BY <1>6, <3>1, <3>2 DEF InsertCoupon
  <2>2. CouponShapes' BY <1>1, <1>3, <2>1, ServedClerk DEF CouponShapes
  <2>3. QED BY <1>4, <2>1, <2>2, FewerCoupons
<1>7. QED BY <1>5, <1>6

(* Steps that leave the generations alone. *)
LEMMA ClerkWaits ==
    ASSUME CouponsInv, clerk' = clerk, drawn' \in Nat, today' \in Nat,
           coupons' \in [Codes -> CouponRow],
           \A b \in Codes, e \in Mailboxes : b \in UnusedOf(e)' => b \in UnusedOf(e)
    PROVE  CouponsInv'
<1>1. CouponShapes' BY DEF CouponsInv, CouponShapes
<1>2. \A l \in Clerks : clerk'[l].email # Null /\ clerk'[l].found = Null =>
                            UnusedOf(clerk'[l].email) = {} /\ clerk'[l].email \in Mailboxes
  BY DEF CouponsInv, FoundNone, CouponShapes, ClerkRow
<1>3. QED BY <1>1, <1>2, FewerCoupons

LEMMA RevokeCoupons == ASSUME CouponsInv, NEW c \in Codes, Revoke(c) PROVE CouponsInv'
<1>1. NoCoupon \in CouponRow /\ NoCoupon.email = Null BY DEF NoCoupon, CouponRow
<1>2. coupons' = [coupons EXCEPT ![c] = NoCoupon] /\ UNCHANGED <<drawn, lifetime, clerk, today>>
  BY DEF Revoke
<1>3. drawn \in Nat /\ today \in Nat BY DEF CouponsInv, CouponShapes
<1>4. QED BY <1>1, <1>2, <1>3, CouponKept, ClerkWaits

LEMMA RedeemCoupons ==
    ASSUME CouponsInv, NEW e \in Mailboxes, NEW c \in Codes, Redeem(e, c) PROVE CouponsInv'
<1> DEFINE row == [coupons[c] EXCEPT !.used = TRUE]
<1>1. /\ coupons \in [Codes -> CouponRow] /\ coupons[c] \in CouponRow /\ drawn \in Nat /\ today \in Nat
  BY DEF CouponsInv, CouponShapes
<1>2. row \in CouponRow /\ row.email = coupons[c].email /\ row.used BY <1>1 DEF CouponRow
<1>3. coupons' = [coupons EXCEPT ![c] = row] /\ UNCHANGED <<drawn, clerk, today>>
  BY <1>1 DEF Redeem
<1> HIDE DEF row
<1>4. QED BY <1>1, <1>2, <1>3, CouponKept, ClerkWaits

LEMMA CouponsNextInv == OneClerk /\ CouponsInv /\ [CouponsNext]_couponVars => CouponsInv'
<1> SUFFICES ASSUME OneClerk, CouponsInv, [CouponsNext]_couponVars PROVE CouponsInv' OBVIOUS
<1>1. ASSUME UNCHANGED <<drawn, coupons, clerk>>, today' \in Nat PROVE CouponsInv'
  <2>1. coupons' \in [Codes -> CouponRow] /\ drawn' \in Nat
        /\ \A b \in Codes, e \in Mailboxes : b \in UnusedOf(e)' => b \in UnusedOf(e)
    BY <1>1 DEF CouponsInv, CouponShapes, UnusedOf, Issued
  <2>2. QED BY <1>1, <2>1, ClerkWaits
<1>2. today \in Nat BY DEF CouponsInv, CouponShapes
<1>3. CASE CouponTick BY <1>1, <1>2, <1>3 DEF CouponTick
<1>4. CASE \E e \in Mailboxes : LosePlan(e) BY <1>1, <1>2, <1>4 DEF LosePlan
<1>5. CASE UNCHANGED couponVars BY <1>1, <1>2, <1>5 DEF couponVars
<1>6. QED
  BY <1>3, <1>4, <1>5, BeginGenerateCoupons, ReadUnusedCoupons, RefreshCoupons, InsertCouponKept,
     RevokeCoupons, RedeemCoupons
     DEF CouponsNext

(* With one generation at a time, an address has at most one coupon left   *)
(* to use, whatever is refreshed, revoked, redeemed and drawn twice        *)
(* (generate_coupons_for_users).                                           *)
THEOREM OneCouponLeft == OneClerk /\ CouponsSpec => []OneUnusedPerEmail
<1>1. CouponsInv => OneUnusedPerEmail
  <2> SUFFICES ASSUME CouponsInv, NEW e \in Mailboxes PROVE Cardinality(UnusedOf(e)) <= 1
    BY DEF OneUnusedPerEmail
  <2>1. CASE UnusedOf(e) = {} BY <2>1, FS_EmptySet
  <2>2. CASE UnusedOf(e) # {}
    <3>1. PICK c \in UnusedOf(e) : TRUE BY <2>2
    <3>2. UnusedOf(e) = {c} BY <3>1 DEF CouponsInv, AtMostOne
    <3>3. Cardinality(UnusedOf(e)) = 1 BY <3>2, FS_Singleton
    <3>4. QED BY <3>3
  <2>3. QED BY <2>1, <2>2
<1>2. ASSUME OneClerk PROVE CouponsSpec => []OneUnusedPerEmail
  <2>1. CouponsInv /\ [CouponsNext]_couponVars => CouponsInv' BY <1>2, CouponsNextInv
  <2>2. QED BY <1>1, <2>1, CouponsInitInv, PTL DEF CouponsSpec
<1>3. QED BY <1>2

----------------------------------------------------------------------------
(* Old orders *)

OrderRow == [status : Activates \cup InUse \cup {"refunded", "disputed", "expired"},
             expected : Nat \cup {Null}, paid : Nat, refunded : Nat]

OrderShapes ==
    /\ orders \in [OldOrders -> OrderRow]
    /\ refunds \in [RefundIds -> [of : OldOrders \cup {Null}, amount : Nat]]
    /\ handler \in [Workers -> [refund : RefundIds \cup {Null}, due : Nat]]
    /\ planPrice \in PlanPrices

(* What an order with a stored amount is compared with never varies.       *)
Stored(o) == orders[o].expected # Null

StoredIsCharge == \A o \in OldOrders : Stored(o) =>
    orders[o].expected = Charge[o] /\ orders[o].paid \in {0, Charge[o]}

HandlerKnows == \A w \in Workers : handler[w] # NoHandler =>
    /\ handler[w].refund \in RefundIds /\ refunds[handler[w].refund].of \in OldOrders
    /\ Stored(refunds[handler[w].refund].of) =>
           handler[w].due = Charge[refunds[handler[w].refund].of]

AnsweredWereMade == \A r \in reversed \cap RefundIds : refunds[r].of \in OldOrders

(* The event that ends o was answered.                                     *)
Over(o) == \/ o \in reversed
           \/ /\ Stored(o)
              /\ \E r \in reversed \cap RefundIds : refunds[r] = [of |-> o, amount |-> Charge[o]]

StaysOver == \A o \in OldOrders : Over(o) => orders[o].status \notin Revokes

OrdersInv == OrderShapes /\ StoredIsCharge /\ HandlerKnows /\ AnsweredWereMade /\ StaysOver

LEMMA OrdersInit == CashfreeInit => OrdersInv
<1> SUFFICES ASSUME CashfreeInit PROVE OrdersInv OBVIOUS
<1> USE CashfreeAssumption
<1>1. PICK st \in [OldOrders -> Activates \cup InUse], stored \in SUBSET OldOrders :
        orders = [o \in OldOrders |->
                    [status |-> st[o], expected |-> IF o \in stored THEN Charge[o] ELSE Null,
                     paid |-> IF st[o] \in InUse THEN Charge[o] ELSE 0, refunded |-> 0]]
  BY DEF CashfreeInit
<1>2. reversed = {} /\ planPrice \in PlanPrices /\ refunds = [r \in RefundIds |-> NoRefund]
      /\ handler = [w \in Workers |-> NoHandler]
  BY DEF CashfreeInit
<1>3. OrderShapes BY <1>1, <1>2 DEF OrderShapes, OrderRow, NoRefund, NoHandler
<1>4. StoredIsCharge BY <1>1 DEF StoredIsCharge, Stored
<1>5. HandlerKnows /\ AnsweredWereMade /\ StaysOver
  BY <1>2 DEF HandlerKnows, AnsweredWereMade, StaysOver, Over
<1>6. QED BY <1>3, <1>4, <1>5 DEF OrdersInv

(* A new row of one order that keeps its stored amount, and leaves the     *)
(* orders in use if an event that ends it was answered.                    *)
LEMMA OrderMoves ==
    ASSUME OrdersInv, NEW o \in OldOrders, NEW row \in OrderRow,
           orders' = [orders EXCEPT ![o] = row],
           row.expected = orders[o].expected, row.paid \in {orders[o].paid, Charge[o]},
           UNCHANGED <<planPrice, refunds>>,
           handler' \in [Workers -> [refund : RefundIds \cup {Null}, due : Nat]],
           \A w \in Workers : handler'[w] # NoHandler => handler'[w] = handler[w],
           \A r \in reversed' \cap RefundIds : refunds[r].of \in OldOrders,
           \A p \in OldOrders : Over(p)' => Over(p) \/ p = o,
           Over(o)' => row.status \notin Revokes
    PROVE  OrdersInv'
<1> USE DEF OrdersInv
<1>1. orders'[o] = row /\ \A p \in OldOrders \ {o} : orders'[p] = orders[p] BY DEF OrderShapes
<1>2. \A p \in OldOrders : Stored(p)' = Stored(p) BY <1>1 DEF Stored
<1>3. OrderShapes' BY DEF OrderShapes
<1>4. StoredIsCharge' BY <1>1, <1>2 DEF StoredIsCharge, Stored
<1>5. HandlerKnows' BY <1>2 DEF HandlerKnows
<1>6. AnsweredWereMade' BY DEF AnsweredWereMade
<1>7. StaysOver' BY <1>1 DEF StaysOver
<1>8. QED BY <1>3, <1>4, <1>5, <1>6, <1>7

(* Nothing new is answered: an order that keeps its stored amount is over  *)
(* as before.                                                              *)
LEMMA OverAsBefore ==
    ASSUME NEW o \in OldOrders, orders'[o].expected = orders[o].expected,
           UNCHANGED <<refunds, reversed>>
    PROVE  Over(o)' = Over(o)
BY DEF Over, Stored

LEMMA SuccessOrders ==
    ASSUME OrdersInv, NEW o \in OldOrders, PaymentSuccess(o) PROVE OrdersInv'
<1> DEFINE row == [orders[o] EXCEPT !.status = "active", !.paid = Charge[o]]
<1>1. orders \in [OldOrders -> OrderRow] /\ orders[o] \in OrderRow /\ Charge[o] \in Nat
  BY CashfreeAssumption DEF OrdersInv, OrderShapes
<1>2. /\ row \in OrderRow /\ row.expected = orders[o].expected /\ row.paid = Charge[o]
      /\ orders' = [orders EXCEPT ![o] = row]
      /\ UNCHANGED <<planPrice, refunds, handler, reversed>>
  BY <1>1 DEF PaymentSuccess, OrderRow, InUse
<1>3. ~Over(o) BY DEF OrdersInv, StaysOver, PaymentSuccess, Revokes
<1> HIDE DEF row
<1>4. \A p \in OldOrders : Over(p)' = Over(p) BY <1>1, <1>2, OverAsBefore
<1>5. QED BY <1>2, <1>3, <1>4, OrderMoves DEF OrdersInv, OrderShapes, AnsweredWereMade

LEMMA ExpireOrders == ASSUME OrdersInv, NEW o \in OldOrders, Expires(o) PROVE OrdersInv'
<1> DEFINE row == [orders[o] EXCEPT !.status = "expired"]
<1>1. orders \in [OldOrders -> OrderRow] /\ orders[o] \in OrderRow BY DEF OrdersInv, OrderShapes
<1>2. /\ row \in OrderRow /\ row.expected = orders[o].expected /\ row.paid = orders[o].paid
      /\ orders' = [orders EXCEPT ![o] = row]
      /\ UNCHANGED <<planPrice, refunds, handler, reversed>>
      /\ row.status \notin Revokes
  BY <1>1 DEF Expires, OrderRow, Revokes, Activates, InUse
<1> HIDE DEF row
<1>3. \A p \in OldOrders : Over(p)' = Over(p) BY <1>1, <1>2, OverAsBefore
<1>4. QED BY <1>2, <1>3, OrderMoves DEF OrdersInv, OrderShapes, AnsweredWereMade

LEMMA DisputeOrders == ASSUME OrdersInv, NEW o \in OldOrders, DisputeCreated(o) PROVE OrdersInv'
<1> DEFINE row == IF orders[o].status \in Revokes
                  THEN [orders[o] EXCEPT !.status = "disputed"] ELSE orders[o]
<1>1. orders \in [OldOrders -> OrderRow] /\ orders[o] \in OrderRow BY DEF OrdersInv, OrderShapes
<1>2. /\ row \in OrderRow /\ row.expected = orders[o].expected /\ row.paid = orders[o].paid
      /\ orders' = [orders EXCEPT ![o] = row]
      /\ row.status \notin Revokes
  BY <1>1 DEF DisputeCreated, OrderRow, Revokes, Activates, InUse
<1>3. UNCHANGED <<planPrice, refunds, handler>> /\ reversed' = reversed \cup {o}
  BY DEF DisputeCreated
<1> HIDE DEF row
<1>4. \A p \in OldOrders : Stored(p)' = Stored(p) BY <1>1, <1>2 DEF Stored
<1>5. reversed' \cap RefundIds = reversed \cap RefundIds BY <1>3, CashfreeAssumption
<1>6. \A p \in OldOrders : Over(p)' => Over(p) \/ p = o BY <1>3, <1>4, <1>5 DEF Over
<1>7. QED BY <1>2, <1>3, <1>5, <1>6, OrderMoves DEF OrdersInv, OrderShapes, AnsweredWereMade

LEMMA ReadPaidOrders ==
    ASSUME OrdersInv, NEW w \in Workers, NEW r \in RefundIds, ReadPaid(w, r) PROVE OrdersInv'
<1> DEFINE o   == refunds[r].of
           due == IF orders[o].paid > 0 THEN orders[o].paid ELSE AmountOf(o)
<1>1. UNCHANGED <<orders, planPrice, refunds, reversed>> BY DEF ReadPaid
<1>2. o \in OldOrders BY DEF OrdersInv, OrderShapes, ReadPaid
<1>3. handler' = [handler EXCEPT ![w] = [refund |-> r, due |-> due]] BY DEF ReadPaid
<1>4. /\ orders[o].paid \in Nat /\ Charge[o] \in Nat \ {0} /\ planPrice \in Nat
      /\ orders[o].expected \in Nat \cup {Null}
  BY <1>2, CashfreeAssumption DEF OrdersInv, OrderShapes, OrderRow
<1>5. due \in Nat BY <1>4 DEF AmountOf
<1>6. Stored(o) => due = Charge[o]
  BY <1>2, <1>4 DEF OrdersInv, StoredIsCharge, Stored, AmountOf
<1> HIDE DEF due
<1>7. OrderShapes' BY <1>1, <1>3, <1>5 DEF OrdersInv, OrderShapes
<1>8. HandlerKnows'
  <2> SUFFICES ASSUME NEW v \in Workers, handler'[v] # NoHandler
      PROVE  /\ handler'[v].refund \in RefundIds /\ refunds[handler'[v].refund].of \in OldOrders
             /\ Stored(refunds[handler'[v].refund].of) =>
                    handler'[v].due = Charge[refunds[handler'[v].refund].of]
    BY <1>1 DEF HandlerKnows, Stored
  <2>1. CASE v = w
    <3>1. handler'[v] = [refund |-> r, due |-> due] BY <1>3, <2>1 DEF OrdersInv, OrderShapes
    <3>2. QED BY <1>2, <1>6, <3>1
  <2>2. CASE v # w
    <3>1. handler'[v] = handler[v] BY <1>3, <2>2 DEF OrdersInv, OrderShapes
    <3>2. QED BY <3>1 DEF OrdersInv, HandlerKnows
  <2>3. QED BY <2>1, <2>2
<1>9. (StoredIsCharge /\ AnsweredWereMade /\ StaysOver)'
  BY <1>1 DEF OrdersInv, StoredIsCharge, AnsweredWereMade, StaysOver, Over, Stored
<1>10. QED BY <1>7, <1>8, <1>9 DEF OrdersInv

(* What the answer to a refund event is about. *)
LEMMA Answering ==
    ASSUME OrdersInv, NEW w \in Workers, handler[w] # NoHandler,
           handler' = [handler EXCEPT ![w] = NoHandler]
    PROVE  /\ handler[w].refund \in RefundIds \ OldOrders
           /\ refunds[handler[w].refund].of \in OldOrders
           /\ handler' \in [Workers -> [refund : RefundIds \cup {Null}, due : Nat]]
           /\ \A v \in Workers : handler'[v] # NoHandler => handler'[v] = handler[v]
<1>1. NoHandler \in [refund : RefundIds \cup {Null}, due : Nat] BY DEF NoHandler
<1>2. handler \in [Workers -> [refund : RefundIds \cup {Null}, due : Nat]]
  BY DEF OrdersInv, OrderShapes
<1>3. QED BY <1>1, <1>2, CashfreeAssumption DEF OrdersInv, HandlerKnows

(* Answering one refund ends no order but that of the refund. *)
LEMMA OneIsOver ==
    ASSUME NEW r \in RefundIds \ OldOrders, reversed' = reversed \cup {r}, refunds' = refunds,
           \A p \in OldOrders : Stored(p)' = Stored(p)
    PROVE  \A p \in OldOrders :
               Over(p)' => \/ Over(p)
                           \/ /\ Stored(p) /\ p = refunds[r].of
                              /\ refunds[r].amount = Charge[p]
<1> SUFFICES ASSUME NEW p \in OldOrders, Over(p)', ~Over(p)
    PROVE  Stored(p) /\ p = refunds[r].of /\ refunds[r].amount = Charge[p]
  OBVIOUS
<1>1. p \notin reversed' BY DEF Over
<1>2. PICK s \in reversed' \cap RefundIds : refunds[s] = [of |-> p, amount |-> Charge[p]]
  BY <1>1 DEF Over
<1>3. Stored(p) BY <1>1 DEF Over
<1>4. s = r BY <1>2, <1>3 DEF Over
<1>5. QED BY <1>2, <1>3, <1>4

LEMMA FullRefundOrders == ASSUME OrdersInv, NEW w \in Workers, FullRefund(w) PROVE OrdersInv'
<1> DEFINE r   == handler[w].refund
           o   == refunds[r].of
           row == IF orders[o].status \in Revokes
                  THEN [orders[o] EXCEPT !.status = "refunded", !.refunded = refunds[r].amount]
                  ELSE orders[o]
<1>0. /\ UNCHANGED <<planPrice, refunds>> /\ reversed' = reversed \cup {r}
      /\ handler' = [handler EXCEPT ![w] = NoHandler] /\ handler[w] # NoHandler
  BY DEF FullRefund, AnswerRefund
<1>1. r \in RefundIds \ OldOrders /\ o \in OldOrders BY <1>0, Answering
<1>2. orders \in [OldOrders -> OrderRow] /\ orders[o] \in OrderRow /\ refunds[r].amount \in Nat
  BY <1>1 DEF OrdersInv, OrderShapes
<1>3. /\ row \in OrderRow /\ row.expected = orders[o].expected /\ row.paid = orders[o].paid
      /\ row.status \notin Revokes
  BY <1>2 DEF OrderRow, Revokes, Activates, InUse
<1>4. orders' = [orders EXCEPT ![o] = row] BY <1>2 DEF FullRefund
<1> HIDE DEF row
<1>5. \A p \in OldOrders : Stored(p)' = Stored(p) BY <1>2, <1>3, <1>4 DEF Stored
<1>6. \A p \in OldOrders : Over(p)' => Over(p) \/ p = o
  <2>1. refunds' = refunds BY <1>0
  <2>2. \A p \in OldOrders : Over(p)' => Over(p) \/ p = refunds[r].of
    BY <1>0, <1>1, <1>5, <2>1, OneIsOver
  <2>3. QED BY <2>2
<1>7. \A s \in reversed' \cap RefundIds : refunds[s].of \in OldOrders
  BY <1>0, <1>1 DEF OrdersInv, AnsweredWereMade
<1>8. QED BY <1>0, <1>1, <1>3, <1>4, <1>6, <1>7, Answering, OrderMoves

LEMMA PartialRefundOrders ==
    ASSUME OrdersInv, NEW w \in Workers, PartialRefund(w) PROVE OrdersInv'
<1> DEFINE r   == handler[w].refund
           o   == refunds[r].of
           a   == refunds[r].amount
           row == [orders[o] EXCEPT !.refunded = IF @ > a THEN @ ELSE a]
<1>0. /\ UNCHANGED <<planPrice, refunds>> /\ reversed' = reversed \cup {r}
      /\ handler' = [handler EXCEPT ![w] = NoHandler] /\ handler[w] # NoHandler
      /\ a < handler[w].due /\ orders' = [orders EXCEPT ![o] = row]
  BY DEF PartialRefund, AnswerRefund
<1>1. r \in RefundIds \ OldOrders /\ o \in OldOrders BY <1>0, Answering
<1>2. /\ orders \in [OldOrders -> OrderRow] /\ orders[o] \in OrderRow /\ a \in Nat
      /\ Charge[o] \in Nat
  BY <1>1, CashfreeAssumption DEF OrdersInv, OrderShapes
<1>3. /\ row \in OrderRow /\ row.expected = orders[o].expected /\ row.paid = orders[o].paid
      /\ row.status = orders[o].status
  BY <1>2 DEF OrderRow
<1> HIDE DEF row
<1>4. \A p \in OldOrders : Stored(p)' = Stored(p) BY <1>0, <1>2, <1>3 DEF Stored
<1>5. Stored(o) => a # Charge[o] BY <1>0, <1>1, <1>2 DEF OrdersInv, HandlerKnows
<1>6. \A p \in OldOrders : Over(p)' => Over(p)
  <2>1. refunds' = refunds BY <1>0
  <2>2. \A p \in OldOrders :
          Over(p)' => Over(p) \/ (Stored(p) /\ p = o /\ a = Charge[p])
    BY <1>0, <1>1, <1>4, <2>1, OneIsOver
  <2>3. QED BY <1>5, <2>2
<1>7. Over(o) => row.status \notin Revokes BY <1>1, <1>3 DEF OrdersInv, StaysOver
<1>8. \A s \in reversed' \cap RefundIds : refunds[s].of \in OldOrders
  BY <1>0, <1>1 DEF OrdersInv, AnsweredWereMade
<1> HIDE DEF a, r, o
<1>9. QED BY <1>0, <1>1, <1>3, <1>6, <1>7, <1>8, Answering, OrderMoves DEF r, o

LEMMA LostOrders == ASSUME OrdersInv, NEW w \in Workers, EventLost(w) PROVE OrdersInv'
<1>1. /\ UNCHANGED <<orders, planPrice, refunds, reversed>> /\ handler[w] # NoHandler
      /\ handler' = [handler EXCEPT ![w] = NoHandler]
  BY DEF EventLost
<1>2. /\ handler' \in [Workers -> [refund : RefundIds \cup {Null}, due : Nat]]
      /\ \A v \in Workers : handler'[v] # NoHandler => handler'[v] = handler[v]
  BY <1>1, Answering
<1>3. OrderShapes' BY <1>1, <1>2 DEF OrdersInv, OrderShapes
<1>4. HandlerKnows' BY <1>1, <1>2 DEF OrdersInv, HandlerKnows, Stored
<1>5. (StoredIsCharge /\ AnsweredWereMade /\ StaysOver)'
  BY <1>1 DEF OrdersInv, StoredIsCharge, AnsweredWereMade, StaysOver, Over, Stored
<1>6. QED BY <1>3, <1>4, <1>5 DEF OrdersInv

(* A refund that is not made yet was not answered and is not handled.      *)
LEMMA MakeRefundOrders ==
    ASSUME OrdersInv, NEW r \in RefundIds, NEW o \in OldOrders, NEW amount \in Nat,
           MakeRefund(r, o, amount)
    PROVE  OrdersInv'
<1>1. /\ refunds[r].of = Null /\ UNCHANGED <<orders, planPrice, handler, reversed>>
      /\ refunds' = [refunds EXCEPT ![r] = [of |-> o, amount |-> amount]]
  BY DEF MakeRefund, NoRefund
<1>2. Null \notin OldOrders BY CashfreeAssumption
<1>3. \A s \in RefundIds \ {r} : refunds'[s] = refunds[s] BY <1>1 DEF OrdersInv, OrderShapes
<1>4. r \notin reversed BY <1>1, <1>2 DEF OrdersInv, AnsweredWereMade
<1>5. \A w \in Workers : handler[w] # NoHandler => handler[w].refund # r
  BY <1>1, <1>2 DEF OrdersInv, HandlerKnows
<1>6. OrderShapes' BY <1>1 DEF OrdersInv, OrderShapes
<1>7. HandlerKnows' BY <1>1, <1>3, <1>5 DEF OrdersInv, HandlerKnows, Stored
<1>8. AnsweredWereMade' BY <1>1, <1>3, <1>4 DEF OrdersInv, AnsweredWereMade
<1>9. \A p \in OldOrders : Over(p)' = Over(p) BY <1>1, <1>3, <1>4 DEF Over, Stored
<1>10. (StoredIsCharge /\ StaysOver)'
  BY <1>1, <1>9 DEF OrdersInv, StoredIsCharge, StaysOver, Stored
<1>11. QED BY <1>6, <1>7, <1>8, <1>10 DEF OrdersInv

LEMMA OrdersNext == OrdersInv /\ [CashfreeNext]_cashfreeVars => OrdersInv'
<1> SUFFICES ASSUME OrdersInv, [CashfreeNext]_cashfreeVars PROVE OrdersInv' OBVIOUS
<1>1. ASSUME UNCHANGED <<orders, refunds, handler, reversed>>, planPrice' \in PlanPrices
      PROVE  OrdersInv'
  BY <1>1 DEF OrdersInv, OrderShapes, StoredIsCharge, HandlerKnows, AnsweredWereMade, StaysOver,
              Over, Stored
<1>2. CASE \E amount \in PlanPrices : RepricePlan(amount) BY <1>1, <1>2 DEF RepricePlan
<1>3. CASE UNCHANGED cashfreeVars
  BY <1>1, <1>3 DEF cashfreeVars, OrdersInv, OrderShapes
<1>4. CASE \E r \in RefundIds, o \in OldOrders : \E amount \in 1..Charge[o] : MakeRefund(r, o, amount)
  <2>1. PICK r \in RefundIds, o \in OldOrders : \E amount \in 1..Charge[o] : MakeRefund(r, o, amount)
    BY <1>4
  <2>2. Charge[o] \in Nat BY CashfreeAssumption
  <2>3. PICK amount \in Nat : MakeRefund(r, o, amount) BY <2>1, <2>2
  <2>4. QED BY <2>3, MakeRefundOrders
<1>5. QED
  BY <1>2, <1>3, <1>4, SuccessOrders, DisputeOrders, ExpireOrders, ReadPaidOrders,
     FullRefundOrders, PartialRefundOrders, LostOrders
     DEF CashfreeNext

(* An old order that was disputed, or given back whole by one refund, is   *)
(* over for good once the event is answered: no success of its payment, no *)
(* other event and no redelivery brings it back into use, for any number   *)
(* of orders, refunds and prices (cashfree_webhook, revoke_subscription).  *)
THEOREM OverForGood == CashfreeSpec => []EndedForGood
<1>1. OrdersInv => EndedForGood
  BY DEF OrdersInv, StaysOver, Over, Stored, EndedForGood, Revokes
<1>2. QED BY <1>1, OrdersInit, OrdersNext, PTL DEF CashfreeSpec

----------------------------------------------------------------------------
(* The leaderboard *)

ScoresInv ==
    /\ IsFiniteSet(solved) /\ onFile \subseteq Problems
    /\ streak \in [Members -> Nat]

LEMMA ScoresInit == ProfilesInit => ScoresInv
BY FS_EmptySet DEF ProfilesInit, ScoresInv

LEMMA ScoresNext == ScoresInv /\ [ProfilesNext]_profileVars => ScoresInv'
<1> SUFFICES ASSUME ScoresInv, [ProfilesNext]_profileVars PROVE ScoresInv' OBVIOUS
<1>1. ASSUME NEW u \in Members, NEW p \in Problems, NEW s \in 1..MaxStreak, Solve(u, p, s)
      PROVE  ScoresInv'
  <2>1. IsFiniteSet(solved \cup {<<u, p>>}) BY FS_AddElement DEF ScoresInv
  <2>2. s \in Nat BY ProfilesAssumption
  <2>3. QED BY <1>1, <2>1, <2>2 DEF Solve, ScoresInv
<1>2. ASSUME NEW p \in Problems, Vanish(p) PROVE ScoresInv'
  BY <1>2 DEF Vanish, ScoresInv
<1>3. ASSUME UNCHANGED <<solved, streak, onFile>> PROVE ScoresInv'
  BY <1>3 DEF ScoresInv
<1>4. QED
  BY <1>1, <1>2, <1>3 DEF ProfilesNext, profileVars, Register, OpenForm, SaveForm, Migrate

(* Of two sets of which one holds the other and something else, it has     *)
(* more elements.                                                          *)
LEMMA MoreElements ==
    ASSUME NEW S, IsFiniteSet(S), NEW A \in SUBSET S, NEW B \in SUBSET S, A \subseteq B,
           NEW x \in B, x \notin A
    PROVE  /\ Cardinality(A) \in Nat /\ Cardinality(B) \in Nat
           /\ Cardinality(A) < Cardinality(B)
<1>1. IsFiniteSet(A) /\ IsFiniteSet(B) BY FS_Subset
<1>2. Cardinality(A) \in Nat /\ Cardinality(B) \in Nat BY <1>1, FS_CardinalityType
<1>3. Cardinality(A) <= Cardinality(B) /\ (Cardinality(B) = Cardinality(A) => B = A)
  BY <1>1, FS_Subset
<1>4. QED BY <1>2, <1>3

LEMMA ShownFinite == IsFiniteSet(Shown) /\ Shown \subseteq Members /\ Members \subseteq Nat
<1>1. IsFiniteSet(Members) BY ProfilesAssumption, FS_Interval DEF Members
<1>2. Shown \subseteq Members BY DEF Shown
<1>3. IsFiniteSet(Shown) BY <1>1, <1>2, FS_Subset
<1>4. Members \subseteq Nat BY DEF Members
<1>5. QED BY <1>2, <1>3, <1>4

(* Only finitely many problems were solved, even of infinitely many.       *)
LEMMA TotalCounts ==
    ASSUME ScoresInv, NEW u \in Members
    PROVE  /\ IsFiniteSet({p \in Problems : <<u, p>> \in solved})
           /\ Total(u) \in Nat /\ streak[u] \in Nat
           /\ Profile(u).solved <= Total(u)
<1> DEFINE mine == {p \in Problems : <<u, p>> \in solved}
           kept == {p \in onFile : <<u, p>> \in solved}
           f    == [p \in mine |-> <<u, p>>]
<1>1. f \in Injection(mine, solved) BY DEF Injection, IsInjective
<1>2. IsFiniteSet(mine) BY <1>1, FS_Injection DEF ScoresInv
<1>3. kept \subseteq mine BY DEF ScoresInv
<1>4. Cardinality(kept) <= Cardinality(mine) BY <1>2, <1>3, FS_Subset
<1>5. Cardinality(mine) \in Nat BY <1>2, FS_CardinalityType
<1>6. Total(u) = Cardinality(mine) /\ Profile(u).solved = Cardinality(kept)
  BY DEF Total, Profile, StatsSolved
<1>7. QED BY <1>2, <1>4, <1>5, <1>6 DEF ScoresInv

(* Who is ahead has the better rank: whoever is ahead of the one is ahead  *)
(* of the other.                                                           *)
LEMMA AheadRanks ==
    ASSUME ScoresInv, NEW u \in Shown, NEW v \in Shown, Ahead(u, v)
    PROVE  Rank(u) < Rank(v)
<1> DEFINE A == {x \in Shown : Ahead(x, u)}
           B == {x \in Shown : Ahead(x, v)}
<1>1. \A x \in Shown : Total(x) \in Nat /\ streak[x] \in Nat BY ShownFinite, TotalCounts
<1>2. A \subseteq B
  <2> SUFFICES ASSUME NEW x \in Shown, Ahead(x, u) PROVE Ahead(x, v) OBVIOUS
  <2>1. /\ Total(x) \in Nat /\ Total(u) \in Nat /\ Total(v) \in Nat
        /\ streak[x] \in Nat /\ streak[u] \in Nat /\ streak[v] \in Nat
    BY <1>1
  <2>2. QED BY <2>1 DEF Ahead
<1>3. u \in B /\ u \notin A BY <1>1 DEF Ahead
<1>4. A \in SUBSET Shown /\ B \in SUBSET Shown OBVIOUS
<1> HIDE DEF A, B
<1>5. Cardinality(A) \in Nat /\ Cardinality(B) \in Nat /\ Cardinality(A) < Cardinality(B)
  BY <1>2, <1>3, <1>4, ShownFinite, MoreElements
<1>6. Rank(u) = 1 + Cardinality(A) /\ Rank(v) = 1 + Cardinality(B) BY DEF Rank, A, B
<1>7. QED BY <1>5, <1>6

LEMMA RankCounts == ASSUME NEW u PROVE Rank(u) \in Nat
<1> DEFINE A == {x \in Shown : Ahead(x, u)}
<1>1. IsFiniteSet(A) BY ShownFinite, FS_Subset
<1>2. Cardinality(A) \in Nat BY <1>1, FS_CardinalityType
<1>3. QED BY <1>2 DEF Rank

(* Ties are broken by the id: one of two comes first, and before it come   *)
(* fewer.                                                                  *)
LEMMA PlaceOrder ==
    ASSUME NEW u \in Shown, NEW v \in Shown, Precedes(u, v)
    PROVE  Position(u) < Position(v)
<1> DEFINE A == {x \in Shown : Precedes(x, u)}
           B == {x \in Shown : Precedes(x, v)}
<1>1. \A x \in Shown : Rank(x) \in Nat /\ x \in Nat BY ShownFinite, RankCounts
<1>2. A \subseteq B
  <2> SUFFICES ASSUME NEW x \in Shown, Precedes(x, u) PROVE Precedes(x, v) OBVIOUS
  <2>1. /\ Rank(x) \in Nat /\ Rank(u) \in Nat /\ Rank(v) \in Nat
        /\ x \in Nat /\ u \in Nat /\ v \in Nat
    BY <1>1
  <2>2. QED BY <2>1 DEF Precedes
<1>3. u \in B /\ u \notin A BY <1>1 DEF Precedes
<1>4. A \in SUBSET Shown /\ B \in SUBSET Shown OBVIOUS
<1> HIDE DEF A, B
<1>5. Cardinality(A) \in Nat /\ Cardinality(B) \in Nat /\ Cardinality(A) < Cardinality(B)
  BY <1>2, <1>3, <1>4, ShownFinite, MoreElements
<1>6. Position(u) = 1 + Cardinality(A) /\ Position(v) = 1 + Cardinality(B)
  BY DEF Position, A, B
<1>7. QED BY <1>5, <1>6

LEMMA PlaceBounds == ASSUME NEW u \in Shown PROVE Position(u) \in 1..Cardinality(Shown)
<1> DEFINE A == {x \in Shown : Precedes(x, u)}
<1>1. u \notin A
  <2>1. Rank(u) \in Nat /\ u \in Nat BY ShownFinite, RankCounts
  <2>2. QED BY <2>1 DEF Precedes
<1>2. A \in SUBSET Shown /\ Shown \in SUBSET Shown /\ A \subseteq Shown OBVIOUS
<1>3. Position(u) = 1 + Cardinality(A) BY DEF Position
<1> HIDE DEF A
<1>4. Cardinality(A) \in Nat /\ Cardinality(Shown) \in Nat /\ Cardinality(A) < Cardinality(Shown)
  BY <1>1, <1>2, ShownFinite, MoreElements
<1>5. QED BY <1>3, <1>4

(* A place for each, and each in a place: as many places as are shown.     *)
LEMMA PlacesTaken == {Position(u) : u \in Shown} = 1..Cardinality(Shown)
<1> DEFINE n == Cardinality(Shown)
           f == [u \in Shown |-> Position(u)]
<1>1. n \in Nat BY ShownFinite, FS_CardinalityType
<1>2. IsFiniteSet(1..n) /\ Cardinality(1..n) = n BY <1>1, FS_Interval
<1>3. f \in [Shown -> 1..n] BY PlaceBounds
<1>4. ASSUME NEW u \in Shown, NEW v \in Shown, Position(u) = Position(v) PROVE u = v
  <2>1. /\ Rank(u) \in Nat /\ Rank(v) \in Nat /\ u \in Nat /\ v \in Nat
        /\ Position(u) \in 1..n /\ Position(v) \in 1..n
    BY ShownFinite, RankCounts, PlaceBounds
  <2>2. CASE Precedes(u, v) BY <1>4, <2>1, <2>2, PlaceOrder
  <2>3. CASE Precedes(v, u) BY <1>4, <2>1, <2>3, PlaceOrder
  <2>4. CASE ~Precedes(u, v) /\ ~Precedes(v, u) BY <2>1, <2>4 DEF Precedes
  <2>5. QED BY <2>2, <2>3, <2>4
<1>5. f \in Injection(Shown, 1..n) BY <1>3, <1>4 DEF Injection, IsInjective
<1>6. f \in Surjection(Shown, 1..n) BY <1>2, <1>5, FS_Injection
<1>7. \A k \in 1..n : \E u \in Shown : Position(u) = k BY <1>6 DEF Surjection
<1>8. QED BY <1>7, PlaceBounds

(* Whoever pages through the leaderboard meets everybody once, in the      *)
(* order of what they solved, however many tie; and no profile counts more *)
(* than the leaderboard (get_leaderboard, get_public_profile): for any     *)
(* number of members and of problems.                                      *)
THEOREM OnOnePage == ProfilesSpec => []EachOnOnePage
<1>1. ScoresInv => EachOnOnePage
  <2> SUFFICES ASSUME ScoresInv PROVE EachOnOnePage OBVIOUS
  <2> DEFINE place == [u \in Shown |-> Position(u)]
  <2>1. {place[u] : u \in Shown} = 1..Cardinality(Shown) BY PlacesTaken
  <2>2. ASSUME NEW u \in Shown, NEW v \in Shown, Total(u) > Total(v) PROVE place[u] < place[v]
    <3>1. Rank(u) < Rank(v) BY <2>2, AheadRanks DEF Ahead
    <3>2. QED BY <3>1, PlaceOrder DEF Precedes
  <2>3. \A u \in Shown : Profile(u).solved <= Total(u) BY ShownFinite, TotalCounts
  <2> HIDE DEF place
  <2>4. QED BY <2>1, <2>2, <2>3 DEF EachOnOnePage, place
<1>2. QED BY <1>1, ScoresInit, ScoresNext, PTL DEF ProfilesSpec

----------------------------------------------------------------------------
(* Verdicts *)

(* The place of x among S in the order R: a strict total order of a finite *)
(* set gives each its own place, and fills all of them.                    *)
PlaceIn(R, S, x) == 1 + Cardinality({y \in S : <<y, x>> \in R})

StrictlyOrders(R, S) ==
    /\ \A x \in S : <<x, x>> \notin R
    /\ \A x, y, z \in S : <<x, y>> \in R /\ <<y, z>> \in R => <<x, z>> \in R
    /\ \A x, y \in S : x = y \/ <<x, y>> \in R \/ <<y, x>> \in R

LEMMA PlacesFilled ==
    ASSUME NEW S, IsFiniteSet(S), NEW R, StrictlyOrders(R, S)
    PROVE  /\ Cardinality(S) \in Nat
           /\ \A x \in S : PlaceIn(R, S, x) \in 1..Cardinality(S)
           /\ \A x, y \in S : <<x, y>> \in R => PlaceIn(R, S, x) < PlaceIn(R, S, y)
           /\ \A x, y \in S : PlaceIn(R, S, x) = PlaceIn(R, S, y) => x = y
           /\ \A k \in 1..Cardinality(S) : \E x \in S : PlaceIn(R, S, x) = k
<1> DEFINE n == Cardinality(S)
           Below(x) == {y \in S : <<y, x>> \in R}
           f == [x \in S |-> PlaceIn(R, S, x)]
<1>1. n \in Nat BY FS_CardinalityType
<1>2. \A x \in S : Below(x) \in SUBSET S /\ x \notin Below(x) /\ PlaceIn(R, S, x) = 1 + Cardinality(Below(x))
  BY DEF StrictlyOrders, PlaceIn
<1>3. ASSUME NEW x \in S, NEW y \in S, <<x, y>> \in R
      PROVE  Below(x) \subseteq Below(y) /\ x \in Below(y)
  BY <1>3 DEF StrictlyOrders
<1> HIDE DEF Below
<1>4. \A x \in S : Cardinality(Below(x)) \in Nat /\ Cardinality(Below(x)) < n
  BY <1>2, MoreElements
<1>5. \A x \in S : PlaceIn(R, S, x) \in 1..n BY <1>1, <1>2, <1>4
<1>6. ASSUME NEW x \in S, NEW y \in S, <<x, y>> \in R
      PROVE  PlaceIn(R, S, x) < PlaceIn(R, S, y)
  <2>1. Cardinality(Below(x)) < Cardinality(Below(y)) BY <1>2, <1>3, <1>6, MoreElements
  <2>2. QED BY <1>2, <1>4, <2>1
<1>7. ASSUME NEW x \in S, NEW y \in S, PlaceIn(R, S, x) = PlaceIn(R, S, y) PROVE x = y
  <2>1. PlaceIn(R, S, x) \in Nat /\ PlaceIn(R, S, y) \in Nat BY <1>1, <1>5
  <2>2. <<x, y>> \notin R /\ <<y, x>> \notin R BY <1>6, <1>7, <2>1
  <2>3. QED BY <2>2 DEF StrictlyOrders
<1>8. IsFiniteSet(1..n) /\ Cardinality(1..n) = n BY <1>1, FS_Interval
<1>9. f \in Injection(S, 1..n) BY <1>5, <1>7 DEF Injection, IsInjective
<1>10. f \in Surjection(S, 1..n) BY <1>8, <1>9, FS_Injection
<1>11. \A k \in 1..n : \E x \in S : PlaceIn(R, S, x) = k BY <1>10 DEF Surjection
<1>12. QED BY <1>1, <1>5, <1>6, <1>7, <1>11

LEMMA FirstPlace ==
    ASSUME NEW S, IsFiniteSet(S), NEW R, StrictlyOrders(R, S), S # {}
    PROVE  \E x \in S : PlaceIn(R, S, x) = 1
<1>1. Cardinality(S) \in Nat /\ Cardinality(S) # 0 BY FS_CardinalityType, FS_EmptySet
<1>2. 1 \in 1..Cardinality(S) BY <1>1
<1>3. \A k \in 1..Cardinality(S) : \E x \in S : PlaceIn(R, S, x) = k BY PlacesFilled
<1>4. QED BY <1>2, <1>3

LEMMA LeastOf ==
    ASSUME NEW n \in Nat, NEW S \in SUBSET (1..n), S # {}
    PROVE  \E x \in S : \A y \in S : x <= y
<1> DEFINE R == {p \in S \X S : p[1] < p[2]}
<1>1. StrictlyOrders(R, S) /\ \A x, y \in S : y < x => <<y, x>> \in R
  BY DEF StrictlyOrders
<1> HIDE DEF R
<1>2. IsFiniteSet(S)
  <2>1. IsFiniteSet(1..n) BY FS_Interval
  <2>2. QED BY <2>1, FS_Subset
<1>3. Cardinality(S) \in Nat BY <1>2, FS_CardinalityType
<1>4. PICK x \in S : PlaceIn(R, S, x) = 1 BY <1>1, <1>2, FirstPlace
<1>5. ASSUME NEW y \in S, y < x PROVE FALSE
  <2>1. <<y, x>> \in R BY <1>1, <1>5
  <2>2. PlaceIn(R, S, y) < PlaceIn(R, S, x) /\ PlaceIn(R, S, y) \in 1..Cardinality(S)
    BY <1>1, <1>2, <2>1, PlacesFilled
  <2>3. QED BY <1>3, <1>4, <2>2
<1>6. QED BY <1>5

LEMMA LessOrders ==
    ASSUME NEW r \in Row, NEW s \in Row, NEW t \in Row,
           Comparable(r, s), Comparable(s, t), Comparable(r, t)
    PROVE  /\ ~Less(r, r)
           /\ r = s \/ Less(r, s) \/ Less(s, r)
           /\ ~(Less(r, s) /\ Less(s, r))
           /\ Less(r, s) /\ Less(s, t) => Less(r, t)
<1> DEFINE V == Numbers \cup {Null}
<1>1. PICK r1 \in V, r2 \in V : r = <<r1, r2>> BY DEF Row
<1>2. PICK s1 \in V, s2 \in V : s = <<s1, s2>> BY DEF Row
<1>3. PICK t1 \in V, t2 \in V : t = <<t1, t2>> BY DEF Row
<1>4. \A a1, a2, b1, b2 \in V :
         /\ Less(<<a1, a2>>, <<b1, b2>>) <=>
               IF a1 # b1 THEN a1 < b1 ELSE a2 # b2 /\ a2 < b2
         /\ Comparable(<<a1, a2>>, <<b1, b2>>) =>
               /\ a1 # b1 => a1 \in Int /\ b1 \in Int
               /\ a1 = b1 /\ a2 # b2 => a2 \in Int /\ b2 \in Int
         /\ <<a1, a2>> = <<b1, b2>> <=> a1 = b1 /\ a2 = b2
  BY JudgeAssumption DEF Less, Comparable, First
<1> HIDE DEF V
<1>5. /\ r1 # s1 => r1 \in Int /\ s1 \in Int
      /\ r1 = s1 /\ r2 # s2 => r2 \in Int /\ s2 \in Int
      /\ s1 # t1 => s1 \in Int /\ t1 \in Int
      /\ s1 = t1 /\ s2 # t2 => s2 \in Int /\ t2 \in Int
      /\ r1 # t1 => r1 \in Int /\ t1 \in Int
      /\ r1 = t1 /\ r2 # t2 => r2 \in Int /\ t2 \in Int
  BY <1>1, <1>2, <1>3, <1>4
<1>6. Less(r, s) <=> IF r1 # s1 THEN r1 < s1 ELSE r2 # s2 /\ r2 < s2
  BY <1>1, <1>2, <1>3 DEF Less, First
<1>7. Less(s, r) <=> IF s1 # r1 THEN s1 < r1 ELSE s2 # r2 /\ s2 < r2
  BY <1>1, <1>2, <1>3 DEF Less, First
<1>8. Less(s, t) <=> IF s1 # t1 THEN s1 < t1 ELSE s2 # t2 /\ s2 < t2
  BY <1>1, <1>2, <1>3 DEF Less, First
<1>9. Less(r, t) <=> IF r1 # t1 THEN r1 < t1 ELSE r2 # t2 /\ r2 < t2
  BY <1>1, <1>2, <1>3 DEF Less, First
<1>10. ~Less(r, r) BY DEF Less
<1>11. r = s \/ Less(r, s) \/ Less(s, r) BY <1>1, <1>2, <1>5, <1>6, <1>7
<1>12. ~(Less(r, s) /\ Less(s, r)) BY <1>5, <1>6, <1>7
<1>13. Less(r, s) /\ Less(s, t) => Less(r, t) BY <1>5, <1>6, <1>8, <1>9
<1>14. QED BY <1>10, <1>11, <1>12, <1>13

Ascending(s) == \A k, l \in DOMAIN s : k < l => s[k] = s[l] \/ Less(s[k], s[l])

(* Rows that compare are put in ascending order, each of them once.        *)
LEMMA SortedAscends ==
    ASSUME NEW n \in Nat, NEW rows \in [1..n -> Row], Sortable(rows)
    PROVE  /\ Sorted(rows) \in [1..n -> Row] /\ Ascending(Sorted(rows))
           /\ \E p \in Bijection(1..n, 1..n) : \A i \in 1..n : Sorted(rows)[p[i]] = rows[i]
<1> DEFINE S == 1..n
           R == {q \in S \X S : Before(rows, q[1], q[2])}
           at(k) == CHOOSE i \in S : Place(rows, i) = k
           p == [i \in S |-> Place(rows, i)]
           s == Sorted(rows)
<1>1. /\ DOMAIN rows = S /\ \A i \in S : rows[i] \in Row
      /\ \A i, j \in S : Comparable(rows[i], rows[j])
      /\ IsFiniteSet(S) /\ Cardinality(S) = n
  BY FS_Interval DEF Sortable
<1>2. StrictlyOrders(R, S)
  <2>1. \A i \in S : ~Before(rows, i, i) BY <1>1, LessOrders DEF Before
  <2>2. ASSUME NEW i \in S, NEW j \in S, NEW k \in S, Before(rows, i, j), Before(rows, j, k)
        PROVE  Before(rows, i, k)
    <3>1. Less(rows[i], rows[j]) /\ Less(rows[j], rows[k]) => Less(rows[i], rows[k])
      BY <1>1, LessOrders
    <3>2. QED BY <2>2, <3>1 DEF Before
  <2>3. ASSUME NEW i \in S, NEW j \in S PROVE i = j \/ Before(rows, i, j) \/ Before(rows, j, i)
    <3>1. rows[i] = rows[j] \/ Less(rows[i], rows[j]) \/ Less(rows[j], rows[i])
      BY <1>1, LessOrders
    <3>2. QED BY <3>1 DEF Before
  <2>4. \A i, j \in S : <<i, j>> \in R <=> Before(rows, i, j) OBVIOUS
  <2> HIDE DEF R, S
  <2>5. QED BY <2>1, <2>2, <2>3, <2>4 DEF StrictlyOrders
<1>3. \A i \in S : Place(rows, i) = PlaceIn(R, S, i)
  <2> SUFFICES ASSUME NEW i \in S PROVE Place(rows, i) = PlaceIn(R, S, i) OBVIOUS
  <2>1. {j \in DOMAIN rows : Before(rows, j, i)} = {y \in S : <<y, i>> \in R} BY <1>1
  <2>2. QED BY <2>1 DEF Place, PlaceIn
<1>4. \A i, j \in S : Before(rows, i, j) => <<i, j>> \in R OBVIOUS
<1> HIDE DEF R
<1>5. /\ \A i \in S : Place(rows, i) \in S
      /\ \A i, j \in S : Before(rows, i, j) => Place(rows, i) < Place(rows, j)
      /\ \A i, j \in S : Place(rows, i) = Place(rows, j) => i = j
  <2>1. \A i \in S : PlaceIn(R, S, i) \in 1..Cardinality(S) BY <1>1, <1>2, PlacesFilled
  <2>2. \A i, j \in S : <<i, j>> \in R => PlaceIn(R, S, i) < PlaceIn(R, S, j)
    BY <1>1, <1>2, PlacesFilled
  <2>3. \A i, j \in S : PlaceIn(R, S, i) = PlaceIn(R, S, j) => i = j
    BY <1>1, <1>2, PlacesFilled
  <2> HIDE DEF S
  <2>4. \A i \in S : Place(rows, i) \in 1..Cardinality(S) BY <1>3, <2>1
  <2>5. \A i, j \in S : Before(rows, i, j) => Place(rows, i) < Place(rows, j)
    BY <1>3, <1>4, <2>2
  <2>6. \A i, j \in S : Place(rows, i) = Place(rows, j) => i = j BY <1>3, <2>3
  <2>7. QED BY <1>1, <2>4, <2>5, <2>6 DEF S
<1>6. \A k \in S : \E i \in S : Place(rows, i) = k
  <2>1. \A k \in 1..Cardinality(S) : \E i \in S : PlaceIn(R, S, i) = k
    BY <1>1, <1>2, PlacesFilled
  <2>2. QED BY <1>1, <1>3, <2>1
<1>7. \A k \in S : at(k) \in S /\ Place(rows, at(k)) = k BY <1>6
<1>8. s = [k \in S |-> rows[at(k)]] BY <1>1 DEF Sorted
<1> HIDE DEF s, at
<1>9. s \in [S -> Row] BY <1>1, <1>7, <1>8
<1>10. ASSUME NEW k \in S, NEW l \in S, k < l PROVE s[k] = s[l] \/ Less(s[k], s[l])
  <2>1. PICK i \in S, j \in S : i = at(k) /\ j = at(l) /\ Place(rows, i) = k /\ Place(rows, j) = l
    BY <1>7
  <2>2. s[k] = rows[i] /\ s[l] = rows[j] BY <1>8, <2>1
  <2>3. ~Less(rows[j], rows[i]) BY <1>5, <1>10, <2>1 DEF Before
  <2>4. rows[i] = rows[j] \/ Less(rows[i], rows[j]) \/ Less(rows[j], rows[i])
    BY <1>1, LessOrders
  <2>5. QED BY <2>2, <2>3, <2>4
<1>11. p \in Bijection(S, S)
  <2>1. p \in [S -> S] BY <1>5
  <2>2. \A i, j \in S : p[i] = p[j] => i = j BY <1>5
  <2>3. \A k \in S : \E i \in S : p[i] = k BY <1>6
  <2> HIDE DEF p, S
  <2>4. QED BY <2>1, <2>2, <2>3 DEF Bijection, Injection, Surjection, IsInjective
<1>12. \A i \in S : s[p[i]] = rows[i]
  <2> SUFFICES ASSUME NEW i \in S PROVE s[p[i]] = rows[i] OBVIOUS
  <2>1. p[i] = Place(rows, i) /\ p[i] \in S BY <1>5
  <2>2. at(p[i]) = i BY <1>5, <1>7, <2>1
  <2>3. QED BY <1>8, <2>1, <2>2
<1>13. Ascending(s) BY <1>9, <1>10 DEF Ascending
<1>14. QED BY <1>9, <1>11, <1>12, <1>13 DEF s

(* Rows moved to other places are as many as before.                       *)
LEMMA TimesKept ==
    ASSUME NEW n \in Nat, NEW rows \in [1..n -> Row], NEW s \in [1..n -> Row],
           NEW p \in Bijection(1..n, 1..n), \A i \in 1..n : s[p[i]] = rows[i], NEW r
    PROVE  Times(r, s) = Times(r, rows)
<1> DEFINE A == {i \in 1..n : rows[i] = r}
           B == {k \in 1..n : s[k] = r}
           f == [i \in A |-> p[i]]
<1>1. /\ p \in [1..n -> 1..n] /\ \A i, j \in 1..n : p[i] = p[j] => i = j
      /\ \A k \in 1..n : \E i \in 1..n : p[i] = k
  BY DEF Bijection, Injection, Surjection, IsInjective
<1>2. f \in [A -> B] BY <1>1
<1>3. \A i, j \in A : f[i] = f[j] => i = j BY <1>1
<1>4. \A k \in B : \E i \in A : f[i] = k
  <2> SUFFICES ASSUME NEW k \in B PROVE \E i \in A : f[i] = k OBVIOUS
  <2>1. PICK i \in 1..n : p[i] = k BY <1>1
  <2>2. i \in A BY <2>1
  <2>3. QED BY <2>1, <2>2
<1>5. Times(r, rows) = Cardinality(A) /\ Times(r, s) = Cardinality(B) BY DEF Times
<1>6. IsFiniteSet(A)
  <2>1. IsFiniteSet(1..n) BY FS_Interval
  <2>2. QED BY <2>1, FS_Subset
<1> HIDE DEF f, A, B
<1>7. f \in Bijection(A, B)
  BY <1>2, <1>3, <1>4 DEF Bijection, Injection, Surjection, IsInjective
<1>8. ExistsBijection(A, B) BY <1>7 DEF ExistsBijection
<1>9. QED BY <1>5, <1>6, <1>8, FS_Bijection

LEMMA TimesFinite ==
    ASSUME NEW n \in Nat, NEW s \in [1..n -> Row], NEW r
    PROVE  /\ IsFiniteSet({i \in 1..n : s[i] = r}) /\ Times(r, s) \in Nat
           /\ Times(r, s) = Cardinality({i \in 1..n : s[i] = r})
<1>1. IsFiniteSet(1..n) BY FS_Interval
<1>2. IsFiniteSet({i \in 1..n : s[i] = r}) BY <1>1, FS_Subset
<1>3. QED BY <1>2, FS_CardinalityType DEF Times

(* Rows that are as many in t as in s: each row of s has one of its own in t. *)
LEMMA RowsMatched ==
    ASSUME NEW m \in Nat, NEW n \in Nat, NEW s \in [1..m -> Row], NEW t \in [1..n -> Row],
           \A r \in Row : Times(r, s) = Times(r, t)
    PROVE  m <= n /\ \A i \in 1..m : \E k \in 1..n : t[k] = s[i]
<1> DEFINE A(r) == {i \in 1..m : s[i] = r}
           B(r) == {k \in 1..n : t[k] = r}
           F(r) == CHOOSE f : f \in Bijection(A(r), B(r))
           g == [i \in 1..m |-> F(s[i])[i]]
<1>1. ASSUME NEW r \in Row PROVE F(r) \in Bijection(A(r), B(r))
  <2>1. IsFiniteSet(A(r)) /\ Times(r, s) = Cardinality(A(r)) BY TimesFinite
  <2>2. IsFiniteSet(B(r)) /\ Times(r, t) = Cardinality(B(r)) BY TimesFinite
  <2>3. Cardinality(A(r)) = Cardinality(B(r)) BY <2>1, <2>2
  <2> HIDE DEF A, B
  <2>4. ExistsBijection(A(r), B(r)) BY <2>1, <2>2, <2>3, FS_SameCardinalityBij
  <2>5. QED BY <2>4 DEF ExistsBijection
<1>2. ASSUME NEW r \in Row
      PROVE  /\ \A i \in A(r) : F(r)[i] \in B(r)
             /\ \A i, j \in A(r) : F(r)[i] = F(r)[j] => i = j
  <2> HIDE DEF F, A, B
  <2>1. F(r) \in Bijection(A(r), B(r)) BY <1>1
  <2>2. QED BY <2>1 DEF Bijection, Injection, IsInjective
<1> HIDE DEF F
<1>3. ASSUME NEW i \in 1..m PROVE s[i] \in Row /\ i \in A(s[i]) /\ F(s[i])[i] \in B(s[i])
  <2>1. s[i] \in Row /\ i \in A(s[i]) OBVIOUS
  <2> HIDE DEF A, B
  <2>2. QED BY <1>2, <2>1
<1>4. \A i \in 1..m : g[i] \in 1..n /\ t[g[i]] = s[i] BY <1>3
<1>5. ASSUME NEW i \in 1..m, NEW j \in 1..m, g[i] = g[j] PROVE i = j
  <2>1. s[i] = s[j] BY <1>4, <1>5
  <2>2. i \in A(s[i]) /\ j \in A(s[i]) /\ s[i] \in Row BY <1>3, <2>1
  <2>3. F(s[i])[i] = F(s[i])[j] BY <1>5, <2>1
  <2> HIDE DEF A, B
  <2>4. QED BY <1>2, <2>2, <2>3
<1>6. g \in [1..m -> 1..n] BY <1>4
<1>7. IsFiniteSet(1..m) /\ Cardinality(1..m) = m /\ IsFiniteSet(1..n) /\ Cardinality(1..n) = n
  BY FS_Interval
<1> HIDE DEF g
<1>8. g \in Injection(1..m, 1..n) BY <1>5, <1>6 DEF Injection, IsInjective
<1>9. Cardinality(1..m) <= Cardinality(1..n) BY <1>7, <1>8, FS_Injection
<1>10. QED BY <1>4, <1>6, <1>7, <1>9

(* Where two ascending results first differ, the lower row is oftener in   *)
(* the one that has it there.                                              *)
LEMMA LowerIsOftener ==
    ASSUME NEW n \in Nat, NEW s \in [1..n -> Row], NEW t \in [1..n -> Row], Ascending(t),
           \A k, l \in 1..n : Comparable(s[k], t[l]) /\ Comparable(t[k], t[l]),
           NEW k \in 1..n, \A i \in 1..n : i < k => s[i] = t[i], Less(s[k], t[k])
    PROVE  Times(s[k], t) # Times(s[k], s)
<1> DEFINE x == s[k]
           A == {i \in 1..n : t[i] = x}
           B == {i \in 1..n : s[i] = x}
<1>1. IsFiniteSet(B) /\ Times(x, s) = Cardinality(B) /\ Times(x, t) = Cardinality(A)
  BY TimesFinite
<1>2. ASSUME NEW l \in 1..n, l >= k PROVE t[l] # x
  <2>1. l = k \/ k < l BY <1>2
  <2>2. t[k] = t[l] \/ Less(t[k], t[l]) BY <2>1 DEF Ascending
  <2>3. Less(x, t[l]) BY <2>2, LessOrders
  <2>4. QED BY <2>3, LessOrders DEF Less
<1>3. A \subseteq B BY <1>2
<1>4. k \in B /\ k \notin A BY <1>2
<1> HIDE DEF A, B
<1>5. B \subseteq B /\ A \in SUBSET B BY <1>3
<1>6. Cardinality(A) < Cardinality(B) /\ Cardinality(A) \in Nat /\ Cardinality(B) \in Nat
  BY <1>1, <1>4, <1>5, MoreElements
<1>7. QED BY <1>1, <1>6 DEF x

(* Results of the same rows are the same once they are sorted.             *)
LEMMA SortedSame ==
    ASSUME NEW n \in Nat, NEW a \in [1..n -> Row], NEW b \in [1..n -> Row],
           Sortable(a), Sortable(b), \A r \in Row : Times(r, a) = Times(r, b)
    PROVE  Sorted(a) = Sorted(b)
<1> DEFINE s == Sorted(a)
           t == Sorted(b)
           D == {k \in 1..n : s[k] # t[k]}
<1>1. /\ s \in [1..n -> Row] /\ Ascending(s)
      /\ \E p \in Bijection(1..n, 1..n) : \A i \in 1..n : s[p[i]] = a[i]
  BY SortedAscends
<1>2. /\ t \in [1..n -> Row] /\ Ascending(t)
      /\ \E p \in Bijection(1..n, 1..n) : \A i \in 1..n : t[p[i]] = b[i]
  BY SortedAscends
<1> HIDE DEF s, t
<1>3. \A r \in Row : Times(r, s) = Times(r, a) BY <1>1, TimesKept
<1>4. \A r \in Row : Times(r, t) = Times(r, b) BY <1>2, TimesKept
<1>5. \A r \in Row : Times(r, s) = Times(r, b) /\ Times(r, t) = Times(r, b) /\ Times(r, s) = Times(r, t)
  BY <1>3, <1>4
<1>6. \A k \in 1..n : \E i \in 1..n : b[i] = s[k] BY <1>1, <1>5, RowsMatched
<1>7. \A k \in 1..n : \E i \in 1..n : b[i] = t[k] BY <1>2, <1>5, RowsMatched
<1>8. \A i, j \in 1..n : Comparable(b[i], b[j]) BY DEF Sortable
<1>9. \A k, l \in 1..n : /\ Comparable(s[k], t[l]) /\ Comparable(t[k], s[l])
                         /\ Comparable(s[k], s[l]) /\ Comparable(t[k], t[l])
  BY <1>6, <1>7, <1>8
<1>10. ASSUME D # {} PROVE FALSE
  <2>1. PICK k \in D : \A l \in D : k <= l
    <3>1. D \in SUBSET (1..n) OBVIOUS
    <3> HIDE DEF D
    <3>2. QED BY <1>10, <3>1, LeastOf
  <2>2. k \in 1..n /\ s[k] # t[k] /\ \A i \in 1..n : i < k => s[i] = t[i] BY <2>1
  <2>3. s[k] \in Row /\ t[k] \in Row BY <1>1, <1>2, <2>2
  <2>4. Less(s[k], t[k]) \/ Less(t[k], s[k]) BY <1>9, <2>2, <2>3, LessOrders
  <2> HIDE DEF D
  <2>5. CASE Less(s[k], t[k])
    <3>1. \A i \in 1..n : i < k => s[i] = t[i] BY <2>2
    <3>2. \A i, l \in 1..n : Comparable(s[i], t[l]) /\ Comparable(t[i], t[l]) BY <1>9
    <3>3. Times(s[k], t) # Times(s[k], s)
      BY <1>1, <1>2, <2>2, <2>5, <3>1, <3>2, LowerIsOftener
    <3>4. QED BY <1>5, <2>3, <3>3
  <2>6. CASE Less(t[k], s[k])
    <3>1. \A i \in 1..n : i < k => t[i] = s[i] BY <2>2
    <3>2. Times(t[k], s) # Times(t[k], t) BY <1>1, <1>2, <1>9, <2>2, <2>6, <3>1, LowerIsOftener
    <3>3. QED BY <1>5, <2>3, <3>2
  <2>7. QED BY <2>4, <2>5, <2>6
<1>11. \A k \in 1..n : s[k] = t[k] BY <1>10
<1>12. s = t BY <1>1, <1>2, <1>11
<1>13. QED BY <1>12 DEF s, t

LEMMA ResultRows ==
    ASSUME NEW x \in Results
    PROVE  /\ Len(x.rows) \in Nat /\ x.rows \in [1..Len(x.rows) -> Row]
           /\ DOMAIN x.rows = 1..Len(x.rows)
<1>1. PICK n \in 0..MaxRows : x.rows \in [1..n -> Row] BY DEF Results
<1>2. n \in Nat BY JudgeAssumption
<1>3. x.rows \in Seq(Row) BY <1>1, <1>2, SeqDef
<1>4. QED BY <1>3, LenProperties

(* What compare_results answers is fair.                                   *)
LEMMA CorrectIsFair ==
    ASSUME got \in Results, expected \in Results, ordered \in BOOLEAN
    PROVE  /\ Correct => got.columns = expected.columns /\ SameRows
           /\ Correct /\ ordered => got.rows = expected.rows
           /\ got.columns = expected.columns /\ SameRows
                  /\ ((~ordered /\ Sortable(expected.rows)) \/ got.rows = expected.rows)
              => Correct
<1> DEFINE m == Len(got.rows)
           n == Len(expected.rows)
           a == got.rows
           b == expected.rows
<1>1. /\ m \in Nat /\ a \in [1..m -> Row] /\ DOMAIN a = 1..m
      /\ n \in Nat /\ b \in [1..n -> Row] /\ DOMAIN b = 1..n
  BY ResultRows
<1>2. SameRows <=> \A r \in Row : Times(r, a) = Times(r, b) BY DEF SameRows
<1>3. GotRows = IF ~ordered /\ Sortable(a) THEN Sorted(a) ELSE a BY DEF GotRows
<1>4. ExpectedRows = IF ~ordered /\ Sortable(a) /\ Sortable(b) THEN Sorted(b) ELSE b
  BY DEF ExpectedRows
<1>5. Correct <=> got.columns = expected.columns /\ m = n /\ GotRows = ExpectedRows
  BY DEF Correct
<1> HIDE DEF m, n, a, b
<1>6. \A r \in Row : Times(r, GotRows) = Times(r, a)
  <2>1. CASE ~ordered /\ Sortable(a)
    <3>1. Sorted(a) \in [1..m -> Row] BY <1>1, <2>1, SortedAscends
    <3>2. PICK p \in Bijection(1..m, 1..m) : \A i \in 1..m : Sorted(a)[p[i]] = a[i]
      BY <1>1, <2>1, SortedAscends
    <3>3. \A r : Times(r, Sorted(a)) = Times(r, a) BY <1>1, <3>1, <3>2, TimesKept
    <3>4. QED BY <1>3, <2>1, <3>3
  <2>2. CASE ~(~ordered /\ Sortable(a)) BY <1>3, <2>2
  <2>3. QED BY <2>1, <2>2
<1>7. \A r \in Row : Times(r, ExpectedRows) = Times(r, b)
  <2>1. CASE ~ordered /\ Sortable(a) /\ Sortable(b)
    <3>1. Sorted(b) \in [1..n -> Row] BY <1>1, <2>1, SortedAscends
    <3>2. PICK p \in Bijection(1..n, 1..n) : \A i \in 1..n : Sorted(b)[p[i]] = b[i]
      BY <1>1, <2>1, SortedAscends
    <3>3. \A r : Times(r, Sorted(b)) = Times(r, b) BY <1>1, <3>1, <3>2, TimesKept
    <3>4. QED BY <1>4, <2>1, <3>3
  <2>2. CASE ~(~ordered /\ Sortable(a) /\ Sortable(b)) BY <1>4, <2>2
  <2>3. QED BY <2>1, <2>2
<1>8. Correct => got.columns = expected.columns /\ SameRows BY <1>2, <1>5, <1>6, <1>7
<1>9. Correct /\ ordered => a = b BY <1>3, <1>4, <1>5
<1>10. ASSUME got.columns = expected.columns, SameRows,
              (~ordered /\ Sortable(b)) \/ a = b
       PROVE  Correct
  <2>1. m <= n BY <1>1, <1>2, <1>10, RowsMatched
  <2>2. n <= m BY <1>1, <1>2, <1>10, RowsMatched
  <2>3. m = n BY <1>1, <2>1, <2>2
  <2>4. CASE a = b BY <1>3, <1>4, <1>5, <1>10, <2>3, <2>4
  <2>5. CASE ~ordered /\ Sortable(b)
    <3>1. \A i \in 1..m : \E k \in 1..n : b[k] = a[i] BY <1>1, <1>2, <1>10, RowsMatched
    <3>2. Sortable(a)
      <4>1. \A k, l \in 1..n : Comparable(b[k], b[l]) BY <1>1, <2>5 DEF Sortable
      <4>2. QED BY <1>1, <3>1, <4>1 DEF Sortable
    <3>3. Sorted(a) = Sorted(b) BY <1>1, <1>2, <1>10, <2>3, <2>5, <3>2, SortedSame
    <3>4. QED BY <1>3, <1>4, <1>5, <1>10, <2>3, <2>5, <3>2, <3>3
  <2>6. QED BY <1>10, <2>4, <2>5
<1>11. QED BY <1>8, <1>9, <1>10 DEF a, b

JudgeInv ==
    /\ got \in Results /\ expected \in Results /\ ordered \in BOOLEAN
    /\ verdict = Null \/ verdict = Correct

(* VerdictIsFair holds whatever the rows and however many: no order in     *)
(* which sorted() leaves them makes compare_results accept other rows than *)
(* the wanted ones or turn away the wanted ones.                           *)
THEOREM VerdictsFair == JudgeSpec => []VerdictIsFair
<1>1. JudgeInit => JudgeInv BY DEF JudgeInit, JudgeInv
<1>2. JudgeInv /\ [Compare]_judgeVars => JudgeInv'
  <2> SUFFICES ASSUME JudgeInv, [Compare]_judgeVars PROVE JudgeInv' OBVIOUS
  <2>1. UNCHANGED <<got, expected, ordered>> BY DEF Compare, judgeVars
  <2>2. Correct' = Correct BY <2>1 DEF Correct, GotRows, ExpectedRows
  <2>3. verdict' = Null \/ verdict' = Correct BY DEF JudgeInv, Compare, judgeVars
  <2>4. QED BY <2>1, <2>2, <2>3 DEF JudgeInv
<1>3. JudgeInv => VerdictIsFair
  <2> SUFFICES ASSUME JudgeInv, verdict # Null PROVE VerdictIsFair BY DEF VerdictIsFair
  <2>1. verdict = Correct BY DEF JudgeInv
  <2>2. /\ Correct => got.columns = expected.columns /\ SameRows
        /\ Correct /\ ordered => got.rows = expected.rows
        /\ got.columns = expected.columns /\ SameRows
               /\ ((~ordered /\ Sortable(expected.rows)) \/ got.rows = expected.rows)
           => Correct
    BY CorrectIsFair DEF JudgeInv
  <2>3. QED BY <2>1, <2>2 DEF VerdictIsFair
<1>4. QED BY <1>1, <1>2, <1>3, PTL DEF JudgeSpec
=============================================================================
