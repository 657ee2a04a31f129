--------------------------- MODULE UsersStoreProofs ---------------------------
(* Theorems about UsersStore, for any creations, updates and listings.     *)
EXTENDS UsersStore, FiniteSetTheorems, TLAPS

USE DEF Steps, Outcomes

LEMMA Initially == Init => IndInv
  <1> SUFFICES ASSUME Init PROVE IndInv
    OBVIOUS
  <1> USE IdAssumption, RegisteredAssumption, NumberAssumption DEF Init
  <1>1. TypeOK
    BY DEF TypeOK
  <1>2. \A c \in Creators : ~Created(c)
    BY DEF Created
  <1>3. StepInv /\ ClashInv /\ AnswersAreTrue /\ TaskAndUserAgree
    BY <1>2 DEF StepInv, ClashInv, AnswersAreTrue, TaskAndUserAgree
  <1>4. WalletInv /\ UsersAreUnique
    BY DEF WalletInv, UsersAreUnique
  <1> QED
    BY <1>1, <1>3, <1>4 DEF IndInv

\* What has a row of its own is typed.
LEMMA RowOf ==
    ASSUME IndInv, NEW c \in Creators, pc[c] # "idle"
    PROVE  row[c] \in Row /\ row[c].id = c /\ row[c].ens = Null
  BY IdAssumption DEF IndInv, TypeOK, StepInv, NoRow, Ids

\* A transaction takes its row and nothing else.
LEMMA BeginStep ==
    ASSUME IndInv, NEW c \in Creators, NEW wallet \in Wallets,
           NEW tag \in Names \cup {Null}, BeginTx(c, wallet, tag)
    PROVE  IndInv'
  <1> USE DEF BeginTx, GoTo
  <1>1. NewRow(c, wallet, tag) \in Row /\ NewRow(c, wallet, tag).id = c
            /\ NewRow(c, wallet, tag).ens = Null
    BY DEF NewRow, Row, Ids, IndInv, TypeOK
  <1>2. TypeOK'
    BY <1>1 DEF IndInv, TypeOK, pagerVars
  <1>3. c \notin pending /\ ~Created(c) /\ outcome[c] = "none"
            /\ c \notin enqueued
    BY DEF IndInv, TypeOK, StepInv
  <1>4. StepInv'
    BY <1>1, <1>3 DEF IndInv, TypeOK, StepInv, Created
  <1>5. ClashInv' /\ WalletInv' /\ UsersAreUnique'
    BY <1>3 DEF IndInv, TypeOK, ClashInv, WalletInv, UsersAreUnique, Created
  <1>6. AnswersAreTrue'
    BY <1>3 DEF IndInv, TypeOK, AnswersAreTrue, Created, WalletTaken
  <1>7. TaskAndUserAgree'
    BY <1>3 DEF IndInv, TypeOK, TaskAndUserAgree, Created
  <1> QED
    BY <1>2, <1>4, <1>5, <1>6, <1>7 DEF IndInv

\* What is neither violated nor waited for clashes with nothing.
LEMMA NoClash ==
    ASSUME NEW r \in Row, r.ens = Null, ~Waits(r), ~Violates(r)
    PROVE  /\ \A s \in users : ~Clash(r, s) /\ ~Clash(s, r)
           /\ \A d \in pending :
                 row[d].ens = Null => ~Clash(r, row[d]) /\ ~Clash(row[d], r)
  BY DEF Waits, WaitsForWallet, WaitsForTag, Violates, WalletTaken, TagTaken,
         Clash, SameName

LEMMA InsertStep ==
    ASSUME IndInv, NEW c \in Creators, Insert(c)
    PROVE  IndInv'
  <1> USE DEF Insert, GoTo
  <1>1. row[c] \in Row /\ row[c].id = c /\ row[c].ens = Null
    BY RowOf
  <1>2. \A d \in pending : d \in Creators /\ row[d].ens = Null
    BY RowOf DEF IndInv, TypeOK, StepInv
  <1>3. TypeOK'
    BY DEF IndInv, TypeOK, pagerVars
  <1>4. StepInv'
    BY DEF IndInv, TypeOK, StepInv, Created
  <1>5. ClashInv'
    BY <1>1, <1>2, NoClash DEF IndInv, ClashInv
  <1>6. WalletInv' /\ UsersAreUnique'
    BY DEF IndInv, WalletInv, UsersAreUnique
  <1>7. AnswersAreTrue' /\ TaskAndUserAgree'
    BY DEF IndInv, TypeOK, StepInv, AnswersAreTrue, TaskAndUserAgree, Created,
           WalletTaken
  <1> QED
    BY <1>3, <1>4, <1>5, <1>6, <1>7 DEF IndInv

\* A step that commits nothing and inserts nothing.
LEMMA LocalStep ==
    ASSUME IndInv, NEW c \in Creators,
           \/ InsertViolates(c) \/ AfterCreate(c) \/ TxFails(c)
           \/ Rollback(c) \/ EndTxFails(c) \/ ServerAborts(c)
    PROVE  IndInv'
  <1> USE DEF InsertViolates, AfterCreate, TxFails, Rollback, EndTxFails,
              ServerAborts, GoTo, Rejected
  <1>1. UNCHANGED << now, users, row, updated, pagerVars >>
            /\ pending' \subseteq pending
    OBVIOUS
  <1>2. Violation(row[c]) \in {"ErrUserAlreadyExists", "ErrGamerTagAlreadyInUse"}
    BY DEF Violation
  <1>3. TypeOK'
    BY <1>1, <1>2 DEF IndInv, TypeOK, pagerVars
  <1>4. StepInv'
    BY <1>1, <1>2 DEF IndInv, TypeOK, StepInv, Created
  <1>5. ClashInv' /\ WalletInv' /\ UsersAreUnique'
    BY <1>1 DEF IndInv, ClashInv, WalletInv, UsersAreUnique
  <1>6. AnswersAreTrue'
    BY <1>1, <1>2 DEF IndInv, TypeOK, StepInv, AnswersAreTrue, Created,
           WalletTaken, Violation
  <1>7. TaskAndUserAgree'
    BY <1>1, <1>2 DEF IndInv, TypeOK, StepInv, TaskAndUserAgree, Created
  <1> QED
    BY <1>3, <1>4, <1>5, <1>6, <1>7 DEF IndInv

\* A row that is committed keeps the other rows apart from it.
LEMMA PublishStep ==
    ASSUME IndInv, NEW c \in Creators, Commit(c) \/ CommitLate(c)
    PROVE  IndInv'
  <1> USE DEF Commit, CommitLate, Publish, Return, GoTo
  <1>1. row[c] \in Row /\ row[c].id = c /\ c \in pending /\ ~Created(c)
            /\ pc[c] \in {"commit", "sent"} /\ c \in enqueued
    BY RowOf DEF IndInv, StepInv
  <1>2. TypeOK'
    BY <1>1 DEF IndInv, TypeOK, pagerVars
  <1>3. \A d \in Creators : Created(d)' <=> d = c \/ Created(d)
    BY <1>1 DEF Created
  <1>4. StepInv'
    BY <1>1, <1>3 DEF IndInv, TypeOK, StepInv
  <1>5. ClashInv'
    BY <1>1 DEF IndInv, ClashInv, Clash, SameName
  <1>6. WalletInv'
    BY <1>1 DEF IndInv, WalletInv
  <1>7. UsersAreUnique'
    BY <1>1 DEF IndInv, ClashInv, UsersAreUnique, Created, Clash, SameName
  <1>8. AnswersAreTrue'
    BY <1>1, <1>3 DEF IndInv, TypeOK, StepInv, AnswersAreTrue, WalletTaken
  <1>9. TaskAndUserAgree'
    BY <1>1, <1>3 DEF IndInv, TypeOK, StepInv, TaskAndUserAgree
  <1> QED
    BY <1>2, <1>4, <1>5, <1>6, <1>7, <1>8, <1>9 DEF IndInv

LEMMA CreateUserStep ==
    ASSUME IndInv, NEW c \in Creators, NEW wallet \in Wallets,
           NEW tag \in Names \cup {Null}, CreateUser(c, wallet, tag)
    PROVE  IndInv'
  <1> DEFINE r == NewRow(c, wallet, tag)
  <1>1. r \in Row /\ r.id = c /\ r.ens = Null
    BY DEF NewRow, Row, Ids, IndInv, TypeOK
  <1>2. /\ pc[c] = "idle" /\ c \in Direct /\ ~Created(c) /\ c \notin pending
        /\ c \notin enqueued /\ outcome[c] = "none"
    BY DEF CreateUser, IndInv, TypeOK, StepInv
  <1>3. /\ row' = [row EXCEPT ![c] = r]
        /\ UNCHANGED << now, pending, enqueued, updated, pagerVars >>
        /\ \/ /\ ~Waits(r) /\ ~Violates(r)
              /\ users' = users \cup {r}
              /\ pc' = [pc EXCEPT ![c] = "done"]
              /\ outcome' = [outcome EXCEPT ![c] = "OK"]
           \/ /\ users' = users
              /\ pc' \in {[pc EXCEPT ![c] = "done"], [pc EXCEPT ![c] = "sent"]}
              /\ outcome' = [outcome EXCEPT ![c] = "Error"]
    BY DEF CreateUser, Return, GoTo
  <1> HIDE DEF r
  <1>4. TypeOK'
    BY <1>1, <1>3 DEF IndInv, TypeOK, pagerVars
  <1>5. \A d \in Creators : d # c => (Created(d)' <=> Created(d))
    BY <1>1, <1>3 DEF Created
  <1>6. StepInv'
    <2>1. pc'[c] = "sent" => ~Created(c)'
      BY <1>2, <1>3 DEF Created, IndInv, TypeOK
    <2> QED
      BY <1>1, <1>2, <1>3, <1>5, <2>1 DEF IndInv, TypeOK, StepInv
  <1>7. \A d \in pending : d \in Creators /\ row[d].ens = Null /\ d # c
    BY <1>2, RowOf DEF IndInv, TypeOK, StepInv
  <1>8. ClashInv'
    BY <1>1, <1>2, <1>3, <1>7, NoClash DEF IndInv, TypeOK, ClashInv
  <1>9. WalletInv' /\ UsersAreUnique'
    BY <1>1, <1>2, <1>3, NoClash
       DEF IndInv, TypeOK, WalletInv, UsersAreUnique, Created
  <1>10. AnswersAreTrue'
    <2>1. ASSUME NEW d \in Creators, d # c
          PROVE  /\ pc'[d] = pc[d] /\ outcome'[d] = outcome[d]
                 /\ row'[d] = row[d] /\ users \subseteq users'
      BY <2>1, <1>3 DEF IndInv, TypeOK
    <2> QED
      BY <1>1, <1>2, <1>3, <1>5, <2>1
         DEF IndInv, TypeOK, AnswersAreTrue, WalletTaken
  <1>11. TaskAndUserAgree'
    BY <1>2, <1>3, <1>5 DEF IndInv, TypeOK, TaskAndUserAgree
  <1> QED
    BY <1>4, <1>6, <1>8, <1>9, <1>10, <1>11 DEF IndInv

\* The INSERT of a call that has returned gives its row another date.
LEMMA InsertLateStep ==
    ASSUME IndInv, NEW c \in Creators, InsertLate(c)
    PROVE  IndInv'
  <1>1. /\ row[c] \in Row /\ row[c].id = c /\ row[c].ens = Null
        /\ c \notin pending /\ ~Created(c)
        /\ outcome[c] = "Error" /\ c \in Direct
    <2>1. pc[c] = "sent" /\ c \in Direct
      BY DEF InsertLate
    <2> QED
      BY <2>1, RowOf DEF IndInv, StepInv
  <1>2. PICK date \in row[c].created..now :
            /\ row' = [row EXCEPT ![c] = Dated(row[c], date)]
            /\ users' = users \cup {Dated(row[c], date)}
    BY DEF InsertLate
  <1> DEFINE r == Dated(row[c], date)
  <1>3. /\ r \in Row /\ r.id = c /\ r.ens = Null
        /\ r.wallet = row[c].wallet /\ r.tag = row[c].tag
    BY <1>1 DEF Dated, Row, IndInv, TypeOK
  <1>4. ~Waits(r) /\ ~Violates(r)
    BY <1>3 DEF InsertLate, Waits, WaitsForWallet, WaitsForTag, Violates,
                WalletTaken, TagTaken
  <1>5. /\ row' = [row EXCEPT ![c] = r]
        /\ users' = users \cup {r}
        /\ pc' = [pc EXCEPT ![c] = "done"]
        /\ UNCHANGED << now, pending, outcome, enqueued, updated, pagerVars >>
    BY <1>2 DEF InsertLate, GoTo
  <1> HIDE DEF r
  <1>6. TypeOK'
    BY <1>3, <1>5 DEF IndInv, TypeOK, pagerVars
  <1>7. \A d \in Creators : d # c => (Created(d)' <=> Created(d))
    BY <1>3, <1>5 DEF Created
  <1>8. StepInv'
    BY <1>1, <1>3, <1>5, <1>7 DEF IndInv, TypeOK, StepInv
  <1>9. \A d \in pending : d \in Creators /\ row[d].ens = Null /\ d # c
    BY <1>1, RowOf DEF IndInv, TypeOK, StepInv
  <1>10. ClashInv'
    BY <1>1, <1>3, <1>4, <1>5, <1>9, NoClash DEF IndInv, TypeOK, ClashInv
  <1>11. WalletInv' /\ UsersAreUnique'
    BY <1>1, <1>3, <1>4, <1>5, NoClash
       DEF IndInv, TypeOK, WalletInv, UsersAreUnique, Created
  <1>12. AnswersAreTrue'
    <2>1. ASSUME NEW d \in Creators, d # c
          PROVE  /\ pc'[d] = pc[d] /\ outcome'[d] = outcome[d]
                 /\ row'[d] = row[d] /\ users \subseteq users'
      BY <2>1, <1>5 DEF IndInv, TypeOK
    <2> QED
      BY <1>1, <1>5, <1>7, <2>1 DEF IndInv, TypeOK, AnswersAreTrue, WalletTaken
  <1>13. TaskAndUserAgree'
    BY <1>1, <1>5, <1>7 DEF IndInv, TypeOK, TaskAndUserAgree
  <1> QED
    BY <1>6, <1>8, <1>10, <1>11, <1>12, <1>13 DEF IndInv

\* What an update puts in the place of a row is one of the same user, wallet
\* and date.
LEMMA RenamedRow ==
    ASSUME IndInv, NEW r \in users,
           NEW tag \in Names \cup {Null}, NEW ens \in Names \cup {Null}
    PROVE  LET new == Renamed(r, tag, ens)
           IN  /\ new \in Row /\ new.id = r.id /\ new.wallet = r.wallet
               /\ new.created = r.created
  BY DEF Renamed, Coalesce, IndInv, TypeOK, Row

\* An update replaces a row by one of the same user and wallet.
LEMMA UpdateStep ==
    ASSUME IndInv, NEW u \in Updaters, NEW id \in Ids,
           NEW tag \in Names \cup {Null}, NEW ens \in Names \cup {Null},
           UpdateUser(u, id, tag, ens) \/ UpdateLate(u, id, tag, ens)
    PROVE  IndInv'
  <1>0. UNCHANGED << now, creatorVars, pagerVars >>
    BY DEF UpdateUser, UpdateLate
  <1>u. updated' \in [Updaters -> {"none", "OK", "NotFound", "Error", "Unknown"}]
    BY DEF UpdateUser, UpdateLate, Updates, IndInv, TypeOK
  <1>1. CASE users' = users
    BY <1>0, <1>u, <1>1 DEF IndInv, TypeOK, StepInv, ClashInv, WalletInv,
         UsersAreUnique, AnswersAreTrue, TaskAndUserAgree, Created, WalletTaken,
         creatorVars, pagerVars
  <1>2. CASE users' # users
    <2>1. PICK r \in users, new \in Row :
              /\ new.id = r.id /\ new.wallet = r.wallet
              /\ users' = (users \ {r}) \cup {new}
              /\ \A s \in users \ {r} : ~Clash(s, new)
              /\ ~WaitsForTag(new)
      <3>1. PICK r \in users :
                /\ ~WaitsForTag(Renamed(r, tag, ens))
                /\ Replace(r, Renamed(r, tag, ens))
        BY <1>2 DEF UpdateUser, UpdateLate
      <3> QED
        BY <3>1, RenamedRow DEF Replace
    <2>2. TypeOK'
      BY <1>0, <1>u, <2>1 DEF IndInv, TypeOK, creatorVars, pagerVars
    <2>3. \A c \in Creators : Created(c)' <=> Created(c)
      BY <2>1 DEF Created
    <2>4. \A w : (\E s \in users : s.wallet = w) =>
                     \E s \in users' : s.wallet = w
      BY <2>1
    <2>5. StepInv' /\ TaskAndUserAgree'
      BY <1>0, <2>3 DEF IndInv, StepInv, TaskAndUserAgree, creatorVars
    <2>6. ClashInv'
      BY <1>0, <2>1, RowOf DEF IndInv, TypeOK, StepInv, ClashInv, WaitsForTag,
           Clash, SameName, creatorVars
    <2>7. WalletInv' /\ UsersAreUnique'
      BY <1>0, <2>1 DEF IndInv, WalletInv, UsersAreUnique, Clash, SameName,
           creatorVars
    <2>8. AnswersAreTrue'
      <3>1. ASSUME NEW c \in Creators, NEW s \in users,
                   s.id = c, s.wallet = row[c].wallet
            PROVE  \E t \in users' : t.id = c /\ t.wallet = row'[c].wallet
        BY <1>0, <2>1, <3>1 DEF creatorVars
      <3> QED
        BY <1>0, <2>3, <2>4, <3>1 DEF IndInv, AnswersAreTrue, WalletTaken,
             creatorVars
    <2> QED
      BY <2>2, <2>5, <2>6, <2>7, <2>8 DEF IndInv
  <1> QED
    BY <1>1, <1>2

\* Listings, failures of updates and the clock touch no row.
LEMMA ReadStep ==
    ASSUME IndInv,
           \/ \E g \in Pagers : ListUsers(g)
           \/ \E u \in Updaters : UpdateFails(u)
           \/ Tick \/ UNCHANGED vars
    PROVE  IndInv'
  <1>1. UNCHANGED << users, creatorVars >>
    BY DEF ListUsers, UpdateFails, Tick, vars
  <1>2. TypeOK'
    <2>1. ASSUME NEW g \in Pagers, ListUsers(g)
          PROVE  TypeOK'
      <3>1. PICK page \in PagesAt(offset[g]) :
              LET ids == {r.id : r \in page}
              IN  /\ seen' = [seen EXCEPT ![g] = @ \cup ids]
                  /\ twice' = [twice EXCEPT ![g] = @ \cup (ids \cap seen[g])]
                  /\ offset' = [offset EXCEPT ![g] =
                         IF Cardinality(page) < Limit THEN -1 ELSE @ + Limit]
        BY <2>1 DEF ListUsers
      <3>2. {r.id : r \in page} \subseteq Ids /\ {r.id : r \in users} \subseteq Ids
        BY <3>1 DEF PagesAt, IndInv, TypeOK, Row
      <3>3. offset[g] \in Nat /\ offset[g] + Limit \in Nat
        BY <2>1, NumberAssumption DEF ListUsers, IndInv, TypeOK
      <3>4. offset' \in [Pagers -> Nat \cup {-1}]
        BY <3>1, <3>3 DEF IndInv, TypeOK
      <3>5. seen' \in [Pagers -> SUBSET Ids] /\ twice' \in [Pagers -> SUBSET Ids]
        BY <3>1, <3>2 DEF IndInv, TypeOK
      <3>6. before' \in [Pagers -> SUBSET Ids]
        BY <2>1, <3>2 DEF ListUsers, IndInv, TypeOK
      <3> QED
        BY <2>1, <3>4, <3>5, <3>6 DEF ListUsers, IndInv, TypeOK, creatorVars
    <2>2. CASE Tick \/ UNCHANGED vars
      BY <2>2 DEF Tick, vars, IndInv, TypeOK, creatorVars, pagerVars
    <2>3. ASSUME NEW u \in Updaters, UpdateFails(u)
          PROVE  TypeOK'
      BY <2>3 DEF UpdateFails, Updates, IndInv, TypeOK, creatorVars, pagerVars
    <2> QED
      BY <2>1, <2>2, <2>3
  <1> QED
    BY <1>1, <1>2 DEF IndInv, StepInv, ClashInv, WalletInv, UsersAreUnique,
         AnswersAreTrue, TaskAndUserAgree, Created, WalletTaken, creatorVars

\* Every step keeps the invariant.
LEMMA NextInv ==
    ASSUME IndInv, [Next]_vars
    PROVE  IndInv'
  <1>1. ASSUME NEW c \in Creators, CreateStep(c)
        PROVE  IndInv'
    BY <1>1, BeginStep, InsertStep, LocalStep, PublishStep, CreateUserStep,
       InsertLateStep DEF CreateStep, Advance, ServerEnds
  <1>2. CASE \E u \in Updaters, id \in Ids, tag, ens \in Names \cup {Null} :
                 UpdateUser(u, id, tag, ens) \/ UpdateLate(u, id, tag, ens)
    BY <1>2, UpdateStep
  <1>3. CASE \/ \E g \in Pagers : ListUsers(g)
             \/ \E u \in Updaters : UpdateFails(u)
             \/ Tick \/ UNCHANGED vars
    BY <1>3, ReadStep
  <1> QED
    BY <1>1, <1>2, <1>3 DEF Next, Terminated

-----------------------------------------------------------------------------
(* Listings by pages.                                                      *)

\* The date of a user is that of its one row.
LEMMA DateOfRow ==
    ASSUME UsersAreUnique, NEW r \in users
    PROVE  DateOf(r.id) = r.created
  <1>1. \A s \in users : s.id = r.id => s = r
    BY DEF UsersAreUnique
  <1>2. (CHOOSE s \in users : s.id = r.id) = r
    BY <1>1
  <1> QED
    BY <1>2 DEF DateOf

LEMMA DateOfNextRow ==
    ASSUME UsersAreUnique', NEW r \in users'
    PROVE  DateOf(r.id)' = r.created
  <1>1. \A s \in users' : s.id = r.id => s = r
    BY DEF UsersAreUnique
  <1>2. (CHOOSE s \in users' : s.id = r.id) = r
    BY <1>1
  <1> QED
    BY <1>2 DEF DateOf

\* The place of a row that has its date alone decides on which page it is,
\* whatever the order of the others.
LEMMA PageOfPlace ==
    ASSUME IsFiniteSet(users), users \subseteq Row, NEW n \in Nat,
           NEW page \in PagesAt(n), NEW r \in users,
           \A s \in users : s.created = r.created => s = r
    PROVE  /\ r \in page => n <= Place(r.created) /\ Place(r.created) < n + Limit
           /\ r \notin page /\ n <= Place(r.created) =>
                 Cardinality(page) >= Limit /\ n + Limit <= Place(r.created)
  <1> DEFINE later == {s \in users : s.created > r.created}
             N == Place(r.created)
  <1>1. PICK skipped \in SUBSET (users \ page) :
            /\ Cardinality(skipped) = Least(n, Cardinality(users))
            /\ Cardinality(page) =
                   Least(Limit, Cardinality(users) - Cardinality(skipped))
            /\ \A x \in skipped, s \in users \ skipped : NotAfter(x, s)
            /\ \A x \in page, s \in users \ (skipped \cup page) : NotAfter(x, s)
    BY DEF PagesAt
  <1>2. page \subseteq users /\ skipped \subseteq users /\ skipped \cap page = {}
    BY <1>1 DEF PagesAt
  <1>3. \A s \in users : s.created \in Nat
    BY DEF Row
  <1>4. /\ IsFiniteSet(page) /\ IsFiniteSet(skipped) /\ IsFiniteSet(later)
        /\ Cardinality(page) \in Nat /\ Cardinality(skipped) \in Nat
        /\ Cardinality(users) \in Nat /\ N = Cardinality(later) /\ N \in Nat
    BY <1>2, FS_Subset, FS_CardinalityType DEF Place
  <1>5. /\ IsFiniteSet(skipped \cup page)
        /\ Cardinality(skipped \cup page) =
               Cardinality(skipped) + Cardinality(page)
    <2>1. Cardinality(skipped \cap page) = 0
      BY <1>2, FS_EmptySet
    <2>2. /\ IsFiniteSet(skipped \cup page)
          /\ Cardinality(skipped \cup page) =
                 Cardinality(skipped) + Cardinality(page)
                     - Cardinality(skipped \cap page)
      BY <1>4, FS_Union
    <2> QED
      BY <1>4, <2>1, <2>2
  <1>6. Limit \in Nat /\ Limit > 0
    BY NumberAssumption
  <1>7. /\ Cardinality(skipped) <= n /\ Cardinality(page) <= Limit
        /\ Cardinality(skipped) < Cardinality(users) => Cardinality(skipped) = n
        /\ Cardinality(page) < Limit =>
              Cardinality(skipped) + Cardinality(page) = Cardinality(users)
    BY <1>1, <1>4, <1>6 DEF Least
  \* What is skipped is later than what is not.
  <1>8. r \notin skipped => skipped \subseteq later
    BY <1>1, <1>2, <1>3 DEF NotAfter
  <1>9. r \notin skipped \cup page => skipped \cup page \subseteq later
    BY <1>1, <1>2, <1>3 DEF NotAfter
  <1>10. r \in skipped => later \cup {r} \subseteq skipped
    BY <1>1, <1>2, <1>3 DEF NotAfter
  <1>11. r \in page => later \cup {r} \subseteq skipped \cup page
    BY <1>1, <1>2, <1>3 DEF NotAfter
  <1>12. IsFiniteSet(later \cup {r}) /\ Cardinality(later \cup {r}) = N + 1
    <2>1. r \notin later
      BY <1>3
    <2> QED
      BY <1>4, <2>1, FS_AddElement
  \* What is not skipped leaves the number skipped as it should be.
  <1>13. r \notin skipped => Cardinality(skipped) = n
    <2>1. ASSUME r \notin skipped
          PROVE  Cardinality(skipped) < Cardinality(users)
      <3>1. skipped # users
        BY <2>1
      <3> QED
        BY <1>2, <1>4, <3>1, FS_Subset
    <2> QED
      BY <1>7, <2>1
  <1>14. ASSUME r \in page
         PROVE  n <= N /\ N < n + Limit
    <2>1. Cardinality(skipped) = n /\ skipped \subseteq later
      BY <1>2, <1>8, <1>13, <1>14
    <2>2. n <= N
      BY <1>4, <2>1, FS_Subset
    <2>3. N + 1 <= Cardinality(skipped) + Cardinality(page)
      BY <1>4, <1>5, <1>11, <1>12, <1>14, FS_Subset
    <2> HIDE DEF N
    <2> QED
      BY <1>4, <1>6, <1>7, <2>1, <2>2, <2>3
  <1>15. ASSUME r \notin page, n <= N
         PROVE  Cardinality(page) >= Limit /\ n + Limit <= N
    <2>1. r \notin skipped
      <3>1. ASSUME r \in skipped
            PROVE  N + 1 <= Cardinality(skipped)
        BY <1>4, <1>10, <1>12, <3>1, FS_Subset
      <3> HIDE DEF N
      <3> QED
        BY <1>4, <1>7, <1>15, <3>1
    <2>2. Cardinality(skipped) + Cardinality(page) <= N
      BY <1>4, <1>5, <1>9, <1>15, <2>1, FS_Subset
    <2>3. Cardinality(skipped) + Cardinality(page) # Cardinality(users)
      <3>1. skipped \cup page # users /\ skipped \cup page \subseteq users
        BY <1>2, <1>15, <2>1
      <3> QED
        BY <1>5, <3>1, FS_Subset
    <2> HIDE DEF N
    <2> QED
      BY <1>4, <1>6, <1>7, <1>13, <2>1, <2>2, <2>3
  <1> QED
    BY <1>14, <1>15

\* A caller that is shown a page.
LEMMA PagerStep ==
    ASSUME IndInv, ListingInv, NEW g \in Pagers, ListUsers(g)
    PROVE  PagerInv(g)'
  <1> DEFINE o == offset[g]
             all == IdsOf(users)
  <1>1. PICK page \in PagesAt(o) :
            /\ seen' = [seen EXCEPT ![g] = seen[g] \cup IdsOf(page)]
            /\ twice' = [twice EXCEPT ![g] =
                            twice[g] \cup (IdsOf(page) \cap seen[g])]
            /\ offset' = [offset EXCEPT ![g] =
                             IF Cardinality(page) < Limit THEN -1 ELSE o + Limit]
    BY DEF ListUsers, IdsOf
  <1>2. /\ o \in Nat /\ users' = users
        /\ before' = [before EXCEPT ![g] = IF o = 0 THEN all ELSE before[g]]
    BY DEF ListUsers, IndInv, TypeOK, IdsOf
  <1>3. /\ IsFiniteSet(users) /\ users \subseteq Row /\ UsersAreUnique
        /\ offset \in [Pagers -> Nat \cup {-1}]
        /\ before \in [Pagers -> SUBSET Ids] /\ seen \in [Pagers -> SUBSET Ids]
        /\ twice \in [Pagers -> SUBSET Ids]
        /\ Limit \in Nat /\ Limit > 0
        /\ page \subseteq users
    BY NumberAssumption DEF ListingInv, IndInv, TypeOK, PagesAt
  <1>4. PagerInv(g)
    BY DEF ListingInv
  <1>5. ASSUME NEW id \in all, ~Tied(id)
        PROVE  /\ id \in IdsOf(page) => /\ o <= Place(DateOf(id))
                                        /\ Place(DateOf(id)) < o + Limit
               /\ id \notin IdsOf(page) /\ o <= Place(DateOf(id)) =>
                     /\ Cardinality(page) >= Limit
                     /\ o + Limit <= Place(DateOf(id))
    <2>1. PICK r \in users : r.id = id
      BY DEF IdsOf
    <2>2. DateOf(id) = r.created
      BY <1>3, <2>1, DateOfRow
    <2>3. \A s \in users : s.created = r.created => s = r
      BY <1>3, <1>5, <2>1, <2>2 DEF Tied, UsersAreUnique
    <2>4. id \in IdsOf(page) <=> r \in page
      BY <1>3, <2>1 DEF IdsOf, UsersAreUnique
    <2> QED
      BY <1>1, <1>2, <1>3, <2>2, <2>3, <2>4, PageOfPlace
  <1>6. \A id : /\ DateOf(id)' = DateOf(id) /\ (Tied(id)' <=> Tied(id))
                /\ Place(DateOf(id))' = Place(DateOf(id))
    BY <1>2 DEF DateOf, Tied, Place
  <1>7. \A id : Place(DateOf(id)) \in Nat
    BY <1>3, FS_Subset, FS_CardinalityType DEF Place
  <1>8. /\ seen'[g] = seen[g] \cup IdsOf(page)
        /\ twice'[g] = twice[g] \cup (IdsOf(page) \cap seen[g])
        /\ before'[g] = IF o = 0 THEN all ELSE before[g]
        /\ \/ Cardinality(page) < Limit /\ offset'[g] = -1
           \/ ~(Cardinality(page) < Limit) /\ offset'[g] = o + Limit
        /\ IdsOf(page) \subseteq all /\ IdsOf(users)' = all
    BY <1>1, <1>2, <1>3 DEF IdsOf
  <1>9. Cardinality(page) \in Nat
    BY <1>3, FS_Subset, FS_CardinalityType
  <1>10. /\ before[g] \cup seen[g] \subseteq all
         /\ twice[g] \subseteq seen[g]
         /\ o = 0 => before[g] = {} /\ seen[g] = {}
         /\ o > 0 => /\ \A id \in before[g] : \/ id \in seen[g] \/ Tied(id)
                                              \/ Place(DateOf(id)) >= o
                     /\ \A id \in seen[g] : \/ Tied(id) \/ PutOff(g, id)
                                            \/ Place(DateOf(id)) < o
         /\ \A id \in twice[g] : Tied(id) \/ PutOff(g, id)
    BY <1>4 DEF PagerInv
  <1>11. o > 0 => \A id : PutOff(g, id)' <=> PutOff(g, id)
    BY <1>2, <1>6, <1>8 DEF PutOff
  <1> HIDE DEF o, all
  \* What was to come has been shown, or is still to come.
  <1>12. ASSUME NEW id \in before'[g], id \notin seen'[g], ~Tied(id)
         PROVE  /\ Cardinality(page) >= Limit
                /\ o + Limit <= Place(DateOf(id))
    <2>1. id \in all /\ id \notin IdsOf(page)
      BY <1>8, <1>10, <1>12
    <2>2. o <= Place(DateOf(id))
      <3>1. CASE o = 0
        BY <1>7, <3>1
      <3>2. CASE o > 0
        BY <1>8, <1>10, <1>12, <3>2
      <3> QED
        BY <1>2, <3>1, <3>2 DEF o
    <2> QED
      BY <1>5, <1>12, <2>1, <2>2
  \* What is shown again was put off.
  <1>13. ASSUME NEW id \in twice'[g], ~Tied(id)
         PROVE  PutOff(g, id)'
    <2>1. o > 0 /\ id \in all
      BY <1>2, <1>8, <1>10, <1>13 DEF o
    <2>2. CASE id \in twice[g]
      BY <1>10, <1>11, <1>13, <2>1, <2>2
    <2>3. CASE id \in IdsOf(page) /\ id \in seen[g]
      <3>1. o <= Place(DateOf(id))
        BY <1>5, <1>13, <2>1, <2>3
      <3>2. ~(Place(DateOf(id)) < o)
        BY <1>2, <1>7, <3>1 DEF o
      <3> QED
        BY <1>10, <1>11, <1>13, <2>1, <2>3, <3>2
    <2> QED
      BY <1>8, <1>13, <2>2, <2>3
  <1>14. ASSUME NEW id \in seen'[g], ~Tied(id), ~PutOff(g, id)'
         PROVE  Place(DateOf(id)) < o + Limit
    <2>1. CASE id \in IdsOf(page)
      BY <1>5, <1>8, <1>14, <2>1
    <2>2. CASE id \in seen[g]
      <3>1. o > 0 /\ Place(DateOf(id)) < o
        BY <1>2, <1>10, <1>11, <1>14, <2>2 DEF o
      <3> QED
        BY <1>2, <1>3, <1>7, <3>1 DEF o
    <2> QED
      BY <1>8, <1>14, <2>1, <2>2
  <1>15. before'[g] \cup seen'[g] \subseteq IdsOf(users)' /\ twice'[g] \subseteq seen'[g]
    BY <1>8, <1>10
  <1>16. offset'[g] # 0 /\ (offset'[g] > 0 => offset'[g] = o + Limit)
    BY <1>2, <1>3, <1>8 DEF o
  <1>17. offset'[g] = -1 => Cardinality(page) < Limit
    BY <1>2, <1>3, <1>8 DEF o
  <1>18. offset'[g] = -1 => \A id \in before'[g] : id \in seen'[g] \/ Tied(id)'
    BY <1>3, <1>6, <1>9, <1>12, <1>17
  <1>19. offset'[g] > 0 =>
            /\ \A id \in before'[g] : \/ id \in seen'[g] \/ Tied(id)'
                                      \/ Place(DateOf(id))' >= offset'[g]
            /\ \A id \in seen'[g] : \/ Tied(id)' \/ PutOff(g, id)'
                                    \/ Place(DateOf(id))' < offset'[g]
    <2> SUFFICES ASSUME offset'[g] > 0
                 PROVE  /\ \A id \in before'[g] :
                              \/ id \in seen'[g] \/ Tied(id)'
                              \/ Place(DateOf(id))' >= offset'[g]
                        /\ \A id \in seen'[g] :
                              \/ Tied(id)' \/ PutOff(g, id)'
                              \/ Place(DateOf(id))' < offset'[g]
      OBVIOUS
    <2>1. offset'[g] = o + Limit
      BY <1>16
    <2>2. ASSUME NEW id \in before'[g], id \notin seen'[g], ~Tied(id)'
          PROVE  Place(DateOf(id))' >= offset'[g]
      BY <1>2, <1>3, <1>6, <1>7, <1>12, <2>1, <2>2 DEF o
    <2>3. ASSUME NEW id \in seen'[g], ~Tied(id)', ~PutOff(g, id)'
          PROVE  Place(DateOf(id))' < offset'[g]
      BY <1>6, <1>14, <2>1, <2>3
    <2> QED
      BY <2>2, <2>3
  <1>20. \A id \in twice'[g] : Tied(id)' \/ PutOff(g, id)'
    BY <1>6, <1>13
  <1> QED
    BY <1>15, <1>16, <1>18, <1>19, <1>20 DEF PagerInv

\* Users stay where they are in a listing unless one comes before them.
LEMMA GrowthStep ==
    ASSUME IndInv, IndInv', ListingInv, UNCHANGED pagerVars,
           IsFiniteSet(users'),
           \A r \in users : \E s \in users' :
               s.id = r.id /\ s.created = r.created,
           \A d : /\ Place(d) \in Nat /\ Place(d)' \in Nat
                  /\ Place(d)' >= Place(d)
                  /\ \/ Place(d)' = Place(d)
                     \/ \E x \in users' : /\ x.id \notin IdsOf(users)
                                          /\ x.created > d
    PROVE  ListingInv'
  <1> SUFFICES ASSUME NEW g \in Pagers PROVE PagerInv(g)'
    BY DEF ListingInv
  <1>1. /\ UsersAreUnique /\ UsersAreUnique'
        /\ \A r \in users' : r.created \in Nat
    BY DEF IndInv, TypeOK, Row
  <1>2. /\ before' = before /\ seen' = seen /\ twice' = twice
        /\ offset' = offset /\ offset[g] \in Nat \cup {-1}
    BY DEF pagerVars, IndInv, TypeOK
  <1>3. PagerInv(g)
    BY DEF ListingInv
  <1>4. ASSUME NEW id \in IdsOf(users)
        PROVE  /\ id \in IdsOf(users)' /\ DateOf(id)' = DateOf(id)
               /\ DateOf(id) \in Nat
    <2>1. PICK r \in users : r.id = id
      BY DEF IdsOf
    <2>2. PICK s \in users' : s.id = r.id /\ s.created = r.created
      OBVIOUS
    <2>3. DateOf(id) = r.created /\ DateOf(id)' = s.created
      BY <1>1, <2>1, <2>2, DateOfRow, DateOfNextRow
    <2>4. id \in IdsOf(users)'
      BY <2>1, <2>2 DEF IdsOf
    <2> QED
      BY <1>1, <2>2, <2>3, <2>4
  <1>5. ASSUME NEW id \in IdsOf(users)
        PROVE  /\ Tied(id) => Tied(id)'
               /\ PutOff(g, id) => PutOff(g, id)'
    BY <1>2, <1>4, <1>5 DEF Tied, PutOff
  <1>6. ASSUME NEW id \in IdsOf(users)
        PROVE  /\ Place(DateOf(id))' >= Place(DateOf(id))
               /\ Place(DateOf(id))' = Place(DateOf(id)) \/ PutOff(g, id)'
    <2>1. PICK d \in Nat : d = DateOf(id) /\ d = DateOf(id)'
      BY <1>4, <1>6
    <2>2. Place(DateOf(id)) = Place(d) /\ Place(DateOf(id))' = Place(d)'
      BY <2>1 DEF Place
    <2>3. /\ Place(d)' >= Place(d)
          /\ \/ Place(d)' = Place(d)
             \/ \E x \in users' : x.id \notin IdsOf(users) /\ x.created > d
      OBVIOUS
    <2>4. ASSUME NEW x \in users', x.id \notin IdsOf(users), x.created > d
          PROVE  PutOff(g, id)'
      <3>1. x.id \notin before[g]'
        BY <1>2, <1>3, <2>4 DEF PagerInv
      <3>2. x.created >= DateOf(id)'
        BY <1>1, <2>1, <2>4
      <3> QED
        BY <3>1, <3>2 DEF PutOff
    <2> QED
      BY <2>2, <2>3, <2>4
  <1>7. /\ before[g] \cup seen[g] \subseteq IdsOf(users)
        /\ twice[g] \subseteq seen[g]
    BY <1>3 DEF PagerInv
  <1> QED
    BY <1>2, <1>3, <1>4, <1>5, <1>6, <1>7 DEF PagerInv

\* A new user comes after the listed ones of later dates.
LEMMA InsertedRow ==
    ASSUME IndInv, IndInv', ListingInv, UNCHANGED pagerVars,
           NEW x \in Row, x.id \notin IdsOf(users), users' = users \cup {x}
    PROVE  ListingInv'
  <1>1. IsFiniteSet(users) /\ users \subseteq Row
    BY DEF ListingInv, IndInv, TypeOK
  <1>2. IsFiniteSet(users')
    BY <1>1, FS_AddElement
  <1>3. ASSUME NEW d
        PROVE  /\ Place(d) \in Nat /\ Place(d)' \in Nat /\ Place(d)' >= Place(d)
               /\ \/ Place(d)' = Place(d)
                  \/ \E y \in users' : y.id \notin IdsOf(users) /\ y.created > d
    <2> DEFINE L == {r \in users : r.created > d}
               M == {r \in users' : r.created > d}
    <2>1. /\ IsFiniteSet(L) /\ Cardinality(L) \in Nat
          /\ IsFiniteSet(M) /\ Cardinality(M) \in Nat
          /\ Place(d) = Cardinality(L) /\ Place(d)' = Cardinality(M)
      BY <1>1, <1>2, FS_Subset, FS_CardinalityType DEF Place
    <2>2. Cardinality(L) <= Cardinality(M)
      <3>1. L \subseteq M
        OBVIOUS
      <3> QED
        BY <2>1, <3>1, FS_Subset
    <2>3. M = L \/ x.created > d
      OBVIOUS
    <2> QED
      BY <2>1, <2>2, <2>3
  <1> QED
    BY <1>2, <1>3, GrowthStep

\* An updated user keeps its place.
LEMMA ReplacedRow ==
    ASSUME IndInv, IndInv', ListingInv, UNCHANGED pagerVars,
           NEW x \in users, NEW y \in Row, y \notin users \ {x},
           y.id = x.id, y.created = x.created,
           users' = (users \ {x}) \cup {y}
    PROVE  ListingInv'
  <1>1. IsFiniteSet(users) /\ users \subseteq Row
    BY DEF ListingInv, IndInv, TypeOK
  <1>2. IsFiniteSet(users')
    BY <1>1, FS_AddElement, FS_RemoveElement
  <1>3. ASSUME NEW d
        PROVE  Place(d) \in Nat /\ Place(d)' = Place(d)
    <2> DEFINE L == {r \in users : r.created > d}
               M == {r \in users' : r.created > d}
    <2>1. /\ IsFiniteSet(L) /\ Cardinality(L) \in Nat
          /\ Place(d) = Cardinality(L) /\ Place(d)' = Cardinality(M)
      BY <1>1, FS_Subset, FS_CardinalityType DEF Place
    <2>2. CASE x.created > d
      <3>1. M = (L \ {x}) \cup {y} /\ x \in L /\ y \notin L \ {x}
        BY <2>2
      <3>2. /\ IsFiniteSet(L \ {x})
            /\ Cardinality(L \ {x}) = Cardinality(L) - 1
        BY <2>1, <3>1, FS_RemoveElement
      <3>3. Cardinality((L \ {x}) \cup {y}) = Cardinality(L \ {x}) + 1
        BY <3>1, <3>2, FS_AddElement
      <3> HIDE DEF L, M
      <3> QED
        BY <2>1, <3>1, <3>2, <3>3
    <2>3. CASE ~(x.created > d)
      <3>1. M = L
        BY <2>3
      <3> QED
        BY <2>1, <3>1
    <2> QED
      BY <2>2, <2>3
  <1> QED
    BY <1>2, <1>3, GrowthStep

\* A listing goes on as before while nothing of it changes.
LEMMA PagerFrame ==
    ASSUME NEW g \in Pagers, PagerInv(g), users' = users,
           before'[g] = before[g], seen'[g] = seen[g],
           twice'[g] = twice[g], offset'[g] = offset[g]
    PROVE  PagerInv(g)'
  <1>1. \A id : /\ DateOf(id)' = DateOf(id) /\ (Tied(id)' <=> Tied(id))
                /\ Place(DateOf(id))' = Place(DateOf(id))
    BY DEF DateOf, Tied, Place
  <1>2. \A id : PutOff(g, id)' <=> PutOff(g, id)
    BY <1>1 DEF PutOff
  <1>3. IdsOf(users)' = IdsOf(users)
    BY DEF IdsOf
  <1> QED
    BY <1>1, <1>2, <1>3 DEF PagerInv

\* A page shown to one caller is no business of the others.
LEMMA ListStep ==
    ASSUME IndInv, ListingInv, NEW g \in Pagers, ListUsers(g)
    PROVE  ListingInv'
  <1>1. ASSUME NEW h \in Pagers, h # g
        PROVE  PagerInv(h)'
    <2>1. /\ users' = users /\ before'[h] = before[h] /\ seen'[h] = seen[h]
          /\ twice'[h] = twice[h] /\ offset'[h] = offset[h]
      BY <1>1 DEF ListUsers, IndInv, TypeOK
    <2> QED
      BY <2>1, PagerFrame DEF ListingInv
  <1>2. IsFiniteSet(users')
    BY DEF ListUsers, ListingInv
  <1> QED
    BY <1>1, <1>2, PagerStep DEF ListingInv

LEMMA UnseenStep ==
    ASSUME ListingInv, UNCHANGED << users, pagerVars >>
    PROVE  ListingInv'
  BY PagerFrame DEF pagerVars, ListingInv

LEMMA ListingInit == Init => ListingInv
  <1> SUFFICES ASSUME Init, NEW g \in Pagers PROVE PagerInv(g)
    BY RegisteredAssumption DEF Init, ListingInv
  <1>1. /\ before[g] = {} /\ seen[g] = {} /\ twice[g] = {} /\ offset[g] = 0
    BY DEF Init
  <1> QED
    BY <1>1 DEF PagerInv

\* Users come in one at a time and keep their dates.
LEMMA ListingNext ==
    ASSUME IndInv, IndInv', ListingInv, [Next]_vars
    PROVE  ListingInv'
  <1>1. ASSUME NEW c \in Creators, CreateStep(c)
        PROVE  ListingInv'
    <2>1. CASE Commit(c) \/ CommitLate(c)
      <3>1. /\ users' = users \cup {row[c]} /\ UNCHANGED pagerVars
            /\ pc[c] \in {"commit", "sent"}
        BY <2>1 DEF Commit, CommitLate, Publish
      <3>2. row[c] \in Row /\ row[c].id \notin IdsOf(users)
        BY <3>1, RowOf DEF IndInv, StepInv, Created, IdsOf
      <3> QED
        BY <3>1, <3>2, InsertedRow
    <2>2. ASSUME NEW wallet \in Wallets, NEW tag \in Names \cup {Null},
                 CreateUser(c, wallet, tag)
          PROVE  ListingInv'
      <3> DEFINE r == NewRow(c, wallet, tag)
      <3>1. /\ users' \in {users, users \cup {r}} /\ UNCHANGED pagerVars
            /\ pc[c] = "idle"
        BY <2>2 DEF CreateUser
      <3>2. r \in Row /\ r.id = c
        BY DEF NewRow, Row, Ids, IndInv, TypeOK
      <3>3. c \notin IdsOf(users)
        BY <3>1 DEF IndInv, StepInv, Created, IdsOf
      <3> HIDE DEF r
      <3> QED
        BY <3>1, <3>2, <3>3, InsertedRow, UnseenStep
    <2>3. CASE InsertLate(c)
      <3>1. PICK date \in row[c].created..now :
                users' = users \cup {Dated(row[c], date)}
        BY <2>3 DEF InsertLate
      <3>2. row[c] \in Row /\ row[c].id = c /\ c \notin IdsOf(users)
        BY <2>3, RowOf DEF InsertLate, IndInv, StepInv, Created, IdsOf
      <3>3. Dated(row[c], date) \in Row /\ Dated(row[c], date).id = c
        BY <3>2 DEF Dated, Row, IndInv, TypeOK
      <3> QED
        BY <2>3, <3>1, <3>2, <3>3, InsertedRow DEF InsertLate
    <2>4. CASE UNCHANGED << users, pagerVars >>
      BY <2>4, UnseenStep
    <2> QED
      BY <1>1, <2>1, <2>2, <2>3, <2>4
         DEF CreateStep, Advance, ServerEnds, BeginTx, Insert,
             InsertViolates, AfterCreate,
             Rollback, ServerAborts, TxFails, EndTxFails
  <1>2. ASSUME NEW u \in Updaters, NEW id \in Ids,
               NEW tag \in Names \cup {Null}, NEW ens \in Names \cup {Null},
               UpdateUser(u, id, tag, ens) \/ UpdateLate(u, id, tag, ens)
        PROVE  ListingInv'
    <2>1. UNCHANGED pagerVars
      BY <1>2 DEF UpdateUser, UpdateLate
    <2>2. CASE users' = users
      BY <2>1, <2>2, UnseenStep
    <2>3. CASE users' # users
      <3>1. PICK x \in users : Replace(x, Renamed(x, tag, ens))
        BY <1>2, <2>3 DEF UpdateUser, UpdateLate
      <3> DEFINE y == Renamed(x, tag, ens)
      <3>2. /\ y \in Row /\ y.id = x.id /\ y.wallet = x.wallet
            /\ y.created = x.created
        BY RenamedRow
      <3>3. users' = (users \ {x}) \cup {y}
        BY <3>1 DEF Replace
      <3> HIDE DEF y
      <3>4. y \notin users \ {x}
        BY <3>2 DEF IndInv, UsersAreUnique
      <3> QED
        BY <2>1, <3>2, <3>3, <3>4, ReplacedRow
    <2> QED
      BY <2>2, <2>3
  <1>3. CASE \E g \in Pagers : ListUsers(g)
    BY <1>3, ListStep
  <1>4. CASE (\E u \in Updaters : UpdateFails(u)) \/ Tick \/ UNCHANGED vars
    BY <1>4, UnseenStep DEF UpdateFails, Tick, vars
  <1> QED
    BY <1>1, <1>2, <1>3, <1>4 DEF Next, Terminated

-----------------------------------------------------------------------------
(* The store implements the registry.                                      *)

USE DEF Registry!NoRow, NoRow

LEMMA SameClash ==
    ASSUME NEW r, NEW s
    PROVE  Registry!Clash(r, s) <=> Clash(r, s)
  BY DEF Registry!Clash, Registry!SameWallet, Registry!SameName, Clash, SameName

\* What a creation asks for is one of its rows in the registry.
LEMMA RowAskedFor ==
    ASSUME IndInv, NEW c \in Creators, pc[c] = "idle",
           NEW wallet \in Wallets, NEW tag \in Names \cup {Null},
           row' = [row EXCEPT ![c] = NewRow(c, wallet, tag)]
    PROVE  /\ NewRow(c, wallet, tag) \in Registry!Rows(c)
           /\ Registry!Asks(c, NewRow(c, wallet, tag))
  <1>1. NewRow(c, wallet, tag) \in Registry!Rows(c)
    BY DEF NewRow, Registry!Rows
  <1> QED
    BY <1>1 DEF IndInv, StepInv, Registry!Asks

\* A creation that has begun and not returned has a row, and one without an
\* outcome has not returned.
LEMMA Begun ==
    ASSUME IndInv, NEW c \in Creators,
           pc[c] \notin {"idle", "gone", "sent", "done"}
    PROVE  /\ row[c] # NoRow
           /\ c \notin {d \in Creators : pc[d] \in {"gone", "sent", "done"}}
           /\ c \notin Direct
           /\ pc[c] # "rollback" => Registry!Undecided(c)
  <1>1. row[c].id = c /\ c # Null
    BY IdAssumption DEF IndInv, StepInv, Ids
  <1> QED
    BY <1>1 DEF IndInv, StepInv, TypeOK, Registry!Undecided

\* What the mapping takes for the returned and for the open creations.
Returned == {d \in Creators : pc[d] \in {"gone", "sent", "done"}}
Open == {d \in Creators : pc[d] = "sent"}

\* A transaction that begins asks, its callback announces, the server gives up
\* what was left open, and the insertion and the end of a plain orphan are not
\* seen.
LEMMA OpeningStep ==
    ASSUME IndInv, NEW c \in Creators,
           \/ \E wallet \in Wallets, tag \in Names \cup {Null} :
                 BeginTx(c, wallet, tag)
           \/ Insert(c) \/ AfterCreate(c) \/ ServerAborts(c)
    PROVE  \/ Registry!Ask(c) \/ Registry!Announce(c) \/ Registry!Abandon(c)
           \/ UNCHANGED Registry!vars
  <1> USE DEF GoTo
  <1>1. ASSUME NEW wallet \in Wallets, NEW tag \in Names \cup {Null},
               BeginTx(c, wallet, tag)
        PROVE  Registry!Ask(c)
    BY <1>1, RowAskedFor DEF BeginTx, IndInv, TypeOK, Registry!Ask
  <1>2. CASE AfterCreate(c)
    BY <1>2, Begun DEF AfterCreate, IndInv, TypeOK, StepInv, Registry!Announce
  <1>3. CASE Insert(c)
    BY <1>3 DEF Insert, IndInv, TypeOK, Registry!vars
  <1>4. CASE ServerAborts(c) /\ pc[c] = "gone"
    BY <1>4 DEF ServerAborts, IndInv, TypeOK, Registry!vars
  <1>5. CASE ServerAborts(c) /\ pc[c] = "sent"
    BY <1>5 DEF ServerAborts, IndInv, TypeOK, Registry!Abandon
  <1> QED
    BY <1>1, <1>2, <1>3, <1>4, <1>5 DEF ServerAborts

\* A commit creates the user of its call: the row that was inserted still has
\* no rival.
LEMMA CommitCreates ==
    ASSUME IndInv, NEW c \in Creators, Commit(c)
    PROVE  Registry!Create(c)
  <1> USE DEF Commit, Publish, Return, GoTo
  <1>1. Registry!Undecided(c) /\ row[c] # NoRow /\ c \notin Direct
    BY Begun
  <1>2. c \in enqueued /\ c \in pending
    BY DEF IndInv, StepInv
  <1>3. Registry!Free(row[c], users)
    BY <1>2, SameClash DEF IndInv, ClashInv, Registry!Free
  <1>4. Registry!For(c, row[c])
    BY <1>1 DEF Registry!For
  <1>5. /\ Registry!Answers(c, "OK")
        /\ Registry!Returns(c)
        /\ users' = users \cup {row[c]}
        /\ UNCHANGED << now, enqueued, updated >>
    BY DEF IndInv, TypeOK, Registry!Answers, Registry!Returns
  <1>6. Open' = Open
    BY DEF Open, IndInv, TypeOK
  <1> QED
    BY <1>1, <1>2, <1>3, <1>4, <1>5, <1>6 DEF Registry!Create, Open

\* The end that the server carries out by itself writes the user of an open
\* creation: a row that was inserted still has no rival, and one that is
\* inserted now has none.
LEMMA LateCreates ==
    ASSUME IndInv, NEW c \in Creators, CommitLate(c) \/ InsertLate(c)
    PROVE  Registry!Late(c)
  <1>1. /\ pc[c] = "sent" /\ c \in Open /\ pc' = [pc EXCEPT ![c] = "done"]
        /\ UNCHANGED << now, outcome, enqueued, updated >>
    BY DEF CommitLate, InsertLate, GoTo, Open
  <1>2. row[c] \in Row /\ row[c].ens = Null /\ row[c].created \in Nat
    BY <1>1, RowOf DEF Row
  <1>3. Open' = Open \ {c} /\ Returned' = Returned
    BY <1>1 DEF Open, Returned, IndInv, TypeOK
  <1>4. CASE CommitLate(c)
    <2>1. c \in pending /\ c \notin Direct
      BY <1>1, <1>4 DEF CommitLate, IndInv, StepInv
    <2>2. Registry!Free(row[c], users)
      BY <2>1, SameClash DEF IndInv, ClashInv, Registry!Free
    <2>3. [row[c] EXCEPT !.created = row[c].created] = row[c]
      BY <1>2 DEF Row
    <2>4. [row EXCEPT ![c] = row[c]] = row
      BY DEF IndInv, TypeOK
    <2>5. users' = users \cup {row[c]} /\ row' = row
      BY <1>4 DEF CommitLate, Publish
    <2> QED
      BY <1>1, <1>3, <2>1, <2>2, <2>3, <2>4, <2>5
         DEF Registry!Late, Open, Returned
  <1>5. CASE InsertLate(c)
    <2>1. PICK date \in row[c].created..now :
              /\ row' = [row EXCEPT ![c] = Dated(row[c], date)]
              /\ users' = users \cup {Dated(row[c], date)}
      BY <1>5 DEF InsertLate
    <2>2. c \in Direct /\ ~Waits(row[c]) /\ ~Violates(row[c])
      BY <1>5 DEF InsertLate
    <2>3. \A s \in users : ~Clash(row[c], s)
      BY <1>2, <2>2, NoClash
    <2>4. Registry!Free([row[c] EXCEPT !.created = date], users)
      BY <1>2, <2>3, SameClash DEF Registry!Free, Clash, SameName, Row
    <2> QED
      BY <1>1, <1>3, <2>1, <2>2, <2>4
         DEF Registry!Late, Open, Returned, Dated
  <1> QED
    BY <1>4, <1>5

\* A creation outside of a transaction asks and ends in one step.
LEMMA DirectStep ==
    ASSUME IndInv, NEW c \in Creators, NEW wallet \in Wallets,
           NEW tag \in Names \cup {Null}, CreateUser(c, wallet, tag)
    PROVE  Registry!Create(c) \/ Registry!Fail(c)
  <1> DEFINE r == NewRow(c, wallet, tag)
  <1>1. /\ r \in Registry!Rows(c)
        /\ Registry!Asks(c, r)
    BY RowAskedFor DEF CreateUser
  <1>2. Registry!Undecided(c) /\ c \in Direct /\ pc[c] = "idle"
    BY DEF CreateUser, IndInv, StepInv, Registry!Undecided
  <1>3. ASSUME NEW result, NEW step \in {"sent", "done"}, GoTo(c, step),
               outcome' = [outcome EXCEPT ![c] = result]
        PROVE  /\ Registry!Answers(c, result) /\ Registry!Returns(c)
               /\ Open' = IF step = "sent" THEN Open \cup {c} ELSE Open
    BY <1>2, <1>3 DEF GoTo, IndInv, TypeOK, Registry!Answers,
                      Registry!Returns, Open
  <1>4. UNCHANGED << now, enqueued, updated >>
    BY DEF CreateUser
  <1>5. CASE /\ ~Waits(r) /\ ~Violates(r)
             /\ users' = users \cup {r}
             /\ Return(c, "OK")
    <2>1. r \in Row /\ r.ens = Null
      BY DEF NewRow, Row, Ids, IndInv, TypeOK
    <2>2. Registry!Free(r, users)
      BY <1>5, <2>1, NoClash, SameClash DEF Registry!Free
    <2>3. Registry!For(c, r)
      BY <1>1, <1>2 DEF Registry!For
    <2>4. Registry!Answers(c, "OK") /\ Registry!Returns(c) /\ Open' = Open
      BY <1>3, <1>5 DEF Return
    <2> HIDE DEF r
    <2> QED
      BY <1>1, <1>2, <1>4, <1>5, <2>2, <2>3, <2>4 DEF Registry!Create, Open
  <1>6. CASE /\ Return(c, "Error") \/ (GoTo(c, "sent")
                     /\ outcome' = [outcome EXCEPT ![c] = "Error"])
             /\ UNCHANGED users
    <2>1. /\ Registry!Answers(c, "Error") /\ Registry!Returns(c)
          /\ Open' = Open \/ Open' = Open \cup {c}
      BY <1>3, <1>6 DEF Return
    <2> HIDE DEF r
    <2> QED
      BY <1>1, <1>2, <1>4, <1>6, <2>1 DEF Registry!Fail, Open
  <1> QED
    BY <1>5, <1>6 DEF CreateUser

\* A violation is a refusal of what is taken at that moment.
LEMMA ViolationRefuses ==
    ASSUME IndInv, NEW c \in Creators, InsertViolates(c)
    PROVE  Registry!Refuse(c)
  <1> USE DEF InsertViolates, Rejected, GoTo
  <1>1. Registry!Undecided(c) /\ row[c] # NoRow /\ c \notin enqueued
    BY Begun DEF IndInv, StepInv
  <1>2. Returned' = Returned /\ Open' = Open
    BY DEF Returned, Open, IndInv, TypeOK
  <1>3. Registry!Answers(c, Violation(row[c]))
    BY DEF Registry!Answers
  <1>4. IF \E s \in users : Registry!SameWallet(s, row[c])
        THEN Registry!Answers(c, "ErrUserAlreadyExists")
        ELSE /\ \E s \in users : Registry!SameName(s.tag, row[c].tag)
             /\ Registry!Answers(c, "ErrGamerTagAlreadyInUse")
    BY <1>3 DEF Violation, Violates, WalletTaken, TagTaken, SameName,
                Registry!SameWallet, Registry!SameName
  <1> QED
    BY <1>1, <1>2, <1>4 DEF Registry!Refuse, Returned, Open

\* The other ends of a transaction change nothing but its answer, and leave it
\* open if they fail at its commit.
LEMMA EndingStep ==
    ASSUME IndInv, NEW c \in Creators,
           TxFails(c) \/ Rollback(c) \/ EndTxFails(c)
    PROVE  Registry!Fail(c) \/ Registry!Return(c) \/ Registry!Interrupt(c)
  <1> USE DEF GoTo, Rejected
  <1>1. CASE TxFails(c)
    <2>1. Returned' = Returned /\ Open' = Open
      BY <1>1 DEF TxFails, Returned, Open, IndInv, TypeOK
    <2>2. enqueued' \in {enqueued, enqueued \cup ({c} \ Direct)}
      BY <1>1, Begun DEF TxFails
    <2> QED
      BY <1>1, <2>1, <2>2, Begun
         DEF TxFails, Registry!Fail, Registry!Answers, Returned, Open
  <1>2. CASE Rollback(c)
    BY <1>2, Begun
       DEF Rollback, IndInv, TypeOK, StepInv, Registry!Return, Registry!Returns
  <1>3. CASE EndTxFails(c)
    <2>1. /\ row[c] # NoRow /\ c \notin Returned
          /\ UNCHANGED << now, users, row, enqueued, updated >>
      BY <1>3, Begun DEF EndTxFails, Returned
    <2>2. Registry!Answers(c, "Error") /\ Registry!Returns(c)
      BY <1>3 DEF EndTxFails, IndInv, TypeOK, Registry!Answers, Registry!Returns
    <2>3. \/ Open' = Open
          \/ /\ Registry!Undecided(c) /\ c \in enqueued
             /\ Open' = Open \cup {c}
      <3>1. CASE pc[c] = "commit"
        BY <1>3, <3>1, Begun DEF EndTxFails, IndInv, TypeOK, StepInv, Open
      <3>2. CASE pc[c] # "commit"
        BY <1>3, <3>2 DEF EndTxFails, IndInv, TypeOK, Open
      <3> QED
        BY <3>1, <3>2
    <2> QED
      BY <2>1, <2>2, <2>3 DEF Registry!Interrupt, Returned, Open
  <1> QED
    BY <1>1, <1>2, <1>3

\* To put a renamed row in the place of another is to exchange its names for
\* free ones.
LEMMA ReplaceRenames ==
    ASSUME IndInv, NEW r \in users,
           NEW tag \in Names \cup {Null}, NEW ens \in Names \cup {Null},
           Replace(r, Renamed(r, tag, ens))
    PROVE  Registry!Rename(r.id)
  <1>1. r \in Row
    BY DEF IndInv, TypeOK
  <1>2. PICK t \in Names \cup {Null}, e \in Names \cup {Null} :
            Renamed(r, tag, ens) = [r EXCEPT !.tag = t, !.ens = e]
    BY <1>1 DEF Renamed, Coalesce, Row
  <1>3. /\ Registry!Free([r EXCEPT !.tag = t, !.ens = e], users \ {r})
        /\ users' = (users \ {r}) \cup {[r EXCEPT !.tag = t, !.ens = e]}
    BY <1>2, SameClash DEF Replace, Registry!Free, Clash, SameName
  <1> QED
    BY <1>3, Zenon DEF Registry!Rename

\* An update renames with its OK, or after an error that left it open, finds
\* no user, or is told of a conflict.
LEMMA UpdateUpdates ==
    ASSUME IndInv, NEW u \in Updaters, NEW id \in Ids,
           NEW tag \in Names \cup {Null}, NEW ens \in Names \cup {Null},
           UpdateUser(u, id, tag, ens) \/ UpdateLate(u, id, tag, ens)
    PROVE  Registry!Update(u, id) \/ Registry!UpdateFails(u)
  <1>1. UNCHANGED << now, row, outcome, enqueued, pc >>
    BY DEF UpdateUser, UpdateLate, creatorVars
  <1>2. Returned' = Returned /\ Open' = Open
    BY <1>1 DEF Returned, Open
  <1>3. CASE UpdateLate(u, id, tag, ens)
    <2>1. Registry!Rename(id)
      BY <1>3, ReplaceRenames DEF UpdateLate
    <2> QED
      BY <1>1, <1>2, <1>3, <2>1 DEF UpdateLate, Updates, Registry!Update,
                                   Registry!Updates, Returned, Open
  <1>4. CASE /\ UpdateUser(u, id, tag, ens)
             /\ \A r \in users : r.id # id
             /\ Updates(u, "NotFound")
             /\ UNCHANGED users
    BY <1>1, <1>2, <1>4 DEF UpdateUser, Updates, Registry!Update,
                            Registry!Updates, Returned, Open
  <1>5. ASSUME UpdateUser(u, id, tag, ens), NEW r \in users, r.id = id,
               Replace(r, Renamed(r, tag, ens)), Updates(u, "OK")
        PROVE  Registry!Update(u, id)
    <2>1. Registry!Rename(id)
      BY <1>5, ReplaceRenames
    <2> QED
      BY <1>1, <1>2, <1>5, <2>1 DEF UpdateUser, Updates, Registry!Update,
                                   Registry!Updates, Returned, Open
  <1>6. CASE UpdateUser(u, id, tag, ens) /\ Updates(u, "Error")
             /\ UNCHANGED users
    BY <1>1, <1>2, <1>6 DEF UpdateUser, Updates, Registry!UpdateFails,
                            Registry!Updates, Returned, Open
  <1> QED
    BY <1>3, <1>4, <1>5, <1>6 DEF UpdateUser

\* Every step is one of the registry, or changes nothing a caller can see.
LEMMA StepRefines ==
    ASSUME IndInv, [Next]_vars
    PROVE  [Registry!Next]_(Registry!vars)
  <1>1. ASSUME NEW c \in Creators, CreateStep(c)
        PROVE  Registry!Next \/ UNCHANGED Registry!vars
    BY <1>1, OpeningStep, CommitCreates, LateCreates, DirectStep,
       ViolationRefuses, EndingStep
       DEF CreateStep, Advance, ServerEnds, Registry!Next
  <1>2. ASSUME NEW u \in Updaters, NEW id \in Ids,
               NEW tag \in Names \cup {Null}, NEW ens \in Names \cup {Null},
               UpdateUser(u, id, tag, ens) \/ UpdateLate(u, id, tag, ens)
        PROVE  Registry!Next
    BY <1>2, UpdateUpdates DEF Registry!Next, Registry!Ids, Ids
  <1>3. ASSUME NEW u \in Updaters, UpdateFails(u)
        PROVE  Registry!Next
    <2>1. UNCHANGED << now, users, row, outcome, enqueued, pc >>
      BY <1>3 DEF UpdateFails, creatorVars
    <2>2. Registry!UpdateFails(u)
      BY <1>3, <2>1 DEF UpdateFails, Updates, Registry!UpdateFails,
                        Registry!Updates
    <2> QED
      BY <2>2 DEF Registry!Next
  <1>4. CASE Tick
    BY <1>4 DEF Tick, creatorVars, Registry!Next, Registry!Tick
  <1>5. ASSUME NEW g \in Pagers, ListUsers(g)
        PROVE  UNCHANGED Registry!vars
    BY <1>5 DEF ListUsers, creatorVars, Registry!vars
  <1>6. CASE Terminated \/ UNCHANGED vars
    BY <1>6 DEF Terminated, vars, creatorVars, Registry!vars
  <1> QED
    BY <1>1, <1>2, <1>3, <1>4, <1>5, <1>6 DEF Next

-----------------------------------------------------------------------------
(* The theorems.                                                           *)

\* The invariant over rows, transactions and answers is kept by every step of
\* CreateUserTx, CreateUser, UpdateUser and ListUsers.
THEOREM InductiveInvariant == Spec => []IndInv
  BY Initially, NextInv, PTL DEF Spec

\* Every variable keeps its type.
THEOREM TypeCorrectness == Spec => []TypeOK
  <1>1. IndInv => TypeOK
    BY DEF IndInv
  <1> QED
    BY <1>1, InductiveInvariant, PTL

\* For any number of creations and updates, no two users share a wallet, a
\* gamer tag or an ENS name (the unique indexes and the rows they lock).
THEOREM UserUniqueness == Spec => []UsersAreUnique
  <1>1. IndInv => UsersAreUnique
    BY DEF IndInv
  <1> QED
    BY <1>1, InductiveInvariant, PTL

\* What CreateUserTx answers is true of the users, and stays so.
THEOREM TruthfulAnswers == Spec => []AnswersAreTrue
  <1>1. IndInv => AnswersAreTrue
    BY DEF IndInv
  <1> QED
    BY <1>1, InductiveInvariant, PTL

\* AfterCreate has taken effect for every user that CreateUserTx created, and
\* for no other but where the caller is told of an error.
THEOREM TasksMatchUsers == Spec => []TaskAndUserAgree
  <1>1. IndInv => TaskAndUserAgree
    BY DEF IndInv
  <1> QED
    BY <1>1, InductiveInvariant, PTL

\* A listing by pages skips only users that share their dates, and repeats only
\* those and users that newcomers have put off, whatever is created and updated
\* between its pages and however PostgreSQL orders what ORDER BY leaves open.
THEOREM FaithfulListings == Spec => []ListingIsFaithful
  <1>1. Spec => []ListingInv
    BY ListingInit, ListingNext, NextInv, InductiveInvariant, PTL DEF Spec
  <1>2. ListingInv => ListingIsFaithful
    BY DEF ListingInv, PagerInv, PutOff, ListingIsFaithful, OnlyTiesAreSkipped,
       RepetitionIsExplained
  <1> QED
    BY <1>1, <1>2, PTL

\* Whatever the number of creations and updates, every behaviour of the store
\* is one of the registry, in which a creation writes its user in one step, with
\* its OK or, after an error of its last statement, at most once later on, and a
\* refusal or any other error is final (CreateUserTx, execTx, CreateUser,
\* UpdateUser).
THEOREM RegistryImplemented == Spec => ImplementsRegistry
  <1>1. Init => Registry!Init
    BY DEF Init, Registry!Init
  <1>2. IndInv /\ [Next]_vars => [Registry!Next]_(Registry!vars)
    BY StepRefines
  <1> QED
    BY <1>1, <1>2, InductiveInvariant, PTL
       DEF Spec, Registry!Spec, ImplementsRegistry
=============================================================================
