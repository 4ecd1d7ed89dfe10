----------------------------- MODULE WebProofs -----------------------------
(***************************************************************************)
(* Proofs about WebService for every size of the session table, every life *)
(* of a session, and every device the daemon may be started on.            *)
(***************************************************************************)
EXTENDS WebService, WellFoundedInduction, TLAPS

USE SessionAssumption, SetupsAssumption

-----------------------------------------------------------------------------
(* Sessions.  What is in memory and what is in the file are tied together   *)
(* by the tokens: an ended or stale one is in neither, a promised one is in *)
(* both, and a plain one is never in the file.                              *)
Entry == [t : Nat, u : Users, exp : Int, kept : BOOLEAN]
AccountType ==
  /\ db \in [users : SUBSET Users, sessions : [Table -> Entry], https : BOOLEAN]
  /\ kept \in [users : SUBSET Users, sessions : SUBSET Entry]
  /\ now \in Nat
  /\ past \in [issued : Nat, ended : SUBSET Nat, plain : SUBSET Nat, stale : SUBSET Nat,
               promised : SUBSET Nat]
Held(e) == \/ \E i \in Table : db.sessions[i] = e
           \/ e \in kept.sessions
OneUser == \A e, f \in Entry : Held(e) /\ Held(f) /\ e.t = f.t /\ e.t # 0 => e.u = f.u
SessionInv ==
  /\ OneUser
  /\ db.users = kept.users
  /\ ~db.https => kept.sessions = {} /\ past.promised = {}
  /\ 0 \notin past.ended \union past.plain \union past.stale \union past.promised
  /\ \A t \in past.ended \union past.plain \union past.stale \union past.promised :
       t <= past.issued
  /\ past.stale \subseteq past.plain
  /\ \A i \in Table : /\ db.sessions[i].t <= past.issued
                      /\ db.sessions[i].t \notin past.ended \union past.stale
                      /\ db.sessions[i].t \in past.plain => ~db.sessions[i].kept
                      /\ db.sessions[i].t \in past.promised =>
                           /\ db.sessions[i].kept /\ db.sessions[i] \in kept.sessions
                           /\ db.sessions[i].u \in db.users
  /\ \A e \in kept.sessions : /\ e.kept /\ e.t <= past.issued /\ e.t # 0
                              /\ e.t \notin past.ended \union past.plain
  /\ \A t \in past.promised : le_auth_session(t)


\* A set of table slots has a first one.
LEMMA FirstSlot ==
  ASSUME NEW T \in SUBSET Table, T # {}
  PROVE  (CHOOSE i \in T : \A j \in T : i <= j) \in T
<1> DEFINE R == {ss \in Nat \X Nat : ss[1] < ss[2]}
<1>1. IsWellFoundedOn(R, Nat)
  BY NatLessThanWellFounded DEF OpToRel
<1>2. \A x, y \in Nat : y < x => <<y, x>> \in R
  OBVIOUS
<1>3. T \subseteq Nat
  BY DEF Table
<1> HIDE DEF R
<1>4. PICK x \in T : \A y \in T : ~(<<y, x>> \in R)
  BY <1>1, <1>3, WFMin
<1>5. ASSUME NEW y \in T PROVE x <= y
  <2>1. x \in Nat /\ y \in Nat
    BY <1>3
  <2>2. ~(y < x)
    BY <1>2, <1>4, <2>1
  <2> QED
    BY <2>1, <2>2
<1> QED
  BY <1>5

\* The slot of a new session is a slot of the table.
LEMMA SlotForIn == SlotFor \in Table
<1> DEFINE free == {i \in Table : ~Live(db.sessions[i])}
<1>1. 1 \in Table
  BY DEF Table
<1>2. free \in SUBSET Table
  OBVIOUS
<1> HIDE DEF free
<1> QED
  BY <1>1, <1>2, FirstSlot DEF SlotFor, free

\* What a saved table holds.
LEMMA SavedIs ==
  ASSUME NEW tab \in [Table -> Entry]
  PROVE  /\ Saved(tab) \in SUBSET Entry
         /\ \A e \in Saved(tab) : e.t # 0 /\ e.kept /\ \E j \in Table : e = tab[j]
         /\ \A j \in Table : tab[j].t # 0 /\ tab[j].kept => tab[j] \in Saved(tab)
  BY DEF Saved

\* A token stays with its user while nothing new is held.
LEMMA NothingNew ==
  ASSUME OneUser, \A e \in Entry : Held(e)' => Held(e) \/ e.t = 0
  PROVE  OneUser'
  BY DEF OneUser

\* A log-in, kept or not, saved or not.
LEMMA LoginSound ==
  ASSUME AccountType, SessionInv, NEW u \in Users, NEW https \in BOOLEAN, NEW ok \in BOOLEAN,
         le_auth_login(u, https, ok)
  PROVE  AccountType' /\ SessionInv'
<1> DEFINE i == SlotFor
           t == past.issued + 1
           old == db.sessions[i]
           entry == [issue_token(u, t) EXCEPT !.kept = https /\ ok]
           table == [db.sessions EXCEPT ![i] = entry]
           saves == https \/ (db.https /\ old.t # 0 /\ old.kept)
           promised == (past.promised \ {old.t}) \union (IF https /\ ok THEN {t} ELSE {})
           plain == IF https THEN past.plain ELSE past.plain \union {t}
<1>1. i \in Table /\ t \in Nat
  BY SlotForIn DEF AccountType
<1>4. /\ db.sessions \in [Table -> Entry] /\ kept.sessions \in SUBSET Entry /\ now \in Nat
      /\ past.issued \in Nat /\ past.plain \in SUBSET Nat /\ past.promised \in SUBSET Nat
  BY DEF AccountType
<1>2. entry \in Entry /\ entry.t = t /\ entry.u = u /\ entry.exp > now
      /\ (entry.kept <=> https /\ ok)
  <2>1. (https /\ ok) \in BOOLEAN
    OBVIOUS
  <2>2. now + SessionLife \in Int /\ now + SessionLife > now
    BY <1>4
  <2> HIDE DEF t
  <2>3. entry = [t |-> t, u |-> u, exp |-> now + SessionLife, kept |-> https /\ ok]
    BY DEF issue_token
  <2> QED
    BY <1>1, <2>1, <2>2, <2>3 DEF Entry
<1>3. table \in [Table -> Entry] /\ table[i] = entry
      /\ \A j \in Table \ {i} : table[j] = db.sessions[j]
  BY <1>1, <1>2, <1>4
<1> HIDE DEF entry, table
<1>5. /\ db' = [db EXCEPT !.sessions = table] /\ now' = now
      /\ kept' = IF saves /\ ok THEN [kept EXCEPT !.sessions = Saved(table)] ELSE kept
      /\ past' = [past EXCEPT !.issued = t, !.plain = plain, !.promised = promised]
  BY DEF le_auth_login, entry, table
<1>6. AccountType'
  <2>1. plain \in SUBSET Nat /\ promised \in SUBSET Nat
    BY <1>1, <1>4
  <2> HIDE DEF plain, promised, saves, t
  <2> QED
    BY <1>1, <1>3, <1>5, <2>1, SavedIs DEF AccountType
<1>7. /\ db'.sessions = table /\ db'.users = db.users /\ db'.https = db.https
      /\ kept'.users = kept.users /\ past'.issued = t /\ past'.plain = plain
      /\ past'.promised = promised /\ past'.ended = past.ended /\ past'.stale = past.stale
      /\ kept'.sessions = IF saves /\ ok THEN Saved(table) ELSE kept.sessions
      /\ u \in db.users /\ (https => db.https)
  BY <1>5 DEF AccountType, le_auth_login
<1>8. \A j \in Table : db.sessions[j].t \in Nat
  BY <1>4 DEF Entry
<1> USE <1>1, <1>4, <1>7
<1>9. /\ ~db'.https => kept'.sessions = {} /\ past'.promised = {}
      /\ 0 \notin past'.ended \union past'.plain \union past'.stale \union past'.promised
      /\ past'.stale \subseteq past'.plain /\ db'.users = kept'.users
  BY DEF SessionInv
<1>10. \A x \in past'.ended \union past'.plain \union past'.stale \union past'.promised :
         x <= past'.issued
  <2> SUFFICES ASSUME NEW x \in past'.ended \union past'.plain \union past'.stale
                                \union past'.promised
               PROVE  x <= t
    OBVIOUS
  <2>1. x = t \/ x \in past.ended \union past.plain \union past.stale \union past.promised
    OBVIOUS
  <2>2. past.ended \in SUBSET Nat /\ past.stale \in SUBSET Nat
    BY DEF AccountType
  <2> QED
    BY <2>1, <2>2 DEF SessionInv
<1>11. /\ t \notin past.ended \union past.plain \union past.stale \union past.promised
       /\ \A j \in Table : db.sessions[j].t # t
  BY <1>8 DEF SessionInv
<1>12. ASSUME NEW j \in Table
       PROVE  /\ table[j].t <= t /\ table[j].t \notin past'.ended \union past'.stale
              /\ table[j].t \in plain => ~table[j].kept
              /\ table[j].t \in promised => /\ table[j].kept /\ table[j] \in kept'.sessions
                                             /\ table[j].u \in db.users
  <2>1. CASE j = i
    BY <1>2, <1>3, <1>11, <2>1, SavedIs
  <2>2. CASE j # i
    <3>1. table[j] = db.sessions[j]
      BY <1>3, <2>2
    <3>2. table[j].t <= t /\ table[j].t # t /\ table[j].t \notin past'.ended \union past'.stale
      BY <1>8, <1>11, <3>1 DEF SessionInv
    <3>3. table[j].t \in plain => ~table[j].kept
      BY <3>1, <3>2 DEF SessionInv
    <3>4. table[j].t \in promised => /\ table[j].kept /\ table[j] \in kept.sessions
                                       /\ table[j].u \in db.users /\ table[j].t # 0
      BY <3>1, <3>2 DEF SessionInv
    <3> QED
      BY <1>3, <3>2, <3>3, <3>4, SavedIs
  <2> QED
    BY <2>1, <2>2
<1>13. ASSUME NEW e \in kept'.sessions
       PROVE  /\ e.kept /\ e.t <= t /\ e.t # 0
              /\ e.t \notin past'.ended \union plain
  <2>1. CASE e \in kept.sessions
    <3>1. e.t \in Nat /\ e.t <= past.issued
      BY <2>1 DEF SessionInv, Entry
    <3> QED
      BY <2>1, <3>1 DEF SessionInv
  <2>2. CASE e \in Saved(table)
    BY <1>3, <1>12, <2>2, SavedIs
  <2> QED
    BY <2>1, <2>2
<1>14. ASSUME NEW x \in promised
       PROVE  \E j \in Table : table[j].t # 0 /\ table[j].exp > now /\ table[j].t = x
  <2>1. CASE x = t
    BY <1>2, <1>3, <2>1
  <2>2. CASE x # t
    <3>1. x \in past.promised /\ x # old.t
      BY <2>2
    <3>2. PICK j \in Table : Live(db.sessions[j]) /\ db.sessions[j].t = x
      BY <3>1 DEF SessionInv, le_auth_session
    <3>3. j # i
      BY <3>1, <3>2
    <3> QED
      BY <1>3, <3>2, <3>3 DEF Live
  <2> QED
    BY <2>1, <2>2
<1>15. \A x \in past'.promised : le_auth_session(x)'
  BY <1>5, <1>14 DEF le_auth_session, Live
<1>16. OneUser'
  <2>1. ASSUME NEW e \in Entry, Held(e)'
        PROVE  e = entry \/ (Held(e) /\ e.t # t)
    <3>1. e \in kept.sessions \/ \E j \in Table : e = table[j]
      BY <1>3, <2>1, SavedIs DEF Held
    <3>2. ASSUME e \in kept.sessions PROVE Held(e) /\ e.t # t
      BY <3>2 DEF Held, SessionInv, Entry
    <3>3. ASSUME NEW j \in Table, e = table[j], j # i PROVE Held(e) /\ e.t # t
      BY <1>3, <1>11, <3>3 DEF Held
    <3> QED
      BY <1>3, <3>1, <3>2, <3>3
  <2>2. OneUser
    BY DEF SessionInv
  <2> QED
    BY <1>2, <2>1, <2>2 DEF OneUser
<1> HIDE DEF i, t, old, saves, promised, plain
<1> QED
  BY <1>5, <1>6, <1>9, <1>10, <1>12, <1>13, <1>15, <1>16 DEF SessionInv
\* The answer to a log-out or a removal: the slots cleared hold exactly the
\* tokens that are gone, and no promised token belongs to a user that is.
LEMMA AnsweredSound ==
  ASSUME AccountType, SessionInv, NEW slots \in SUBSET Table, NEW ok \in BOOLEAN,
         NEW gone \in SUBSET Nat, NEW users \in SUBSET Users,
         gone = {db.sessions[i].t : i \in slots} \ {0},
         \A i \in Table \ slots : db.sessions[i].t \notin gone,
         \A i \in Table \ slots : db.sessions[i].u \in db.users => db.sessions[i].u \in users,
         Answered(Cleared(slots), ok, gone, users)
  PROVE  AccountType' /\ SessionInv'
<1> DEFINE table == Cleared(slots)
           file == IF db.https /\ ok THEN Saved(table) ELSE kept.sessions
           promised == past.promised \ gone
           ended == IF ok \/ ~db.https THEN past.ended \union gone ELSE past.ended
<1>1. /\ db.sessions \in [Table -> Entry] /\ kept.sessions \in SUBSET Entry /\ now \in Nat
      /\ past.issued \in Nat /\ past.promised \in SUBSET Nat /\ past.ended \in SUBSET Nat
  BY DEF AccountType
<1>2. /\ table \in [Table -> Entry]
      /\ \A i \in slots : table[i].t = 0
      /\ \A i \in Table \ slots : table[i] = db.sessions[i]
  BY <1>1 DEF Cleared, Entry
<1>3. /\ db' = [db EXCEPT !.users = users, !.sessions = table] /\ now' = now
      /\ kept' = [users |-> users, sessions |-> file]
      /\ past' = [past EXCEPT !.promised = promised, !.ended = ended]
  BY DEF Answered
<1> HIDE DEF table
<1>4. file \in SUBSET Entry /\ promised \in SUBSET Nat /\ ended \in SUBSET Nat
  BY <1>1, <1>2, SavedIs
<1>5. AccountType'
  <2> HIDE DEF file, promised, ended
  <2> QED
    BY <1>2, <1>3, <1>4 DEF AccountType
<1>6. /\ db'.sessions = table /\ db'.users = users /\ db'.https = db.https
      /\ kept'.users = users /\ kept'.sessions = file /\ past'.issued = past.issued
      /\ past'.plain = past.plain /\ past'.stale = past.stale
      /\ past'.promised = promised /\ past'.ended = ended
  BY <1>3 DEF AccountType
<1>7. \A g \in gone : g # 0 /\ g <= past.issued
  BY DEF SessionInv
<1>8. /\ ~db'.https => kept'.sessions = {} /\ past'.promised = {}
      /\ 0 \notin past'.ended \union past'.plain \union past'.stale \union past'.promised
      /\ past'.stale \subseteq past'.plain /\ db'.users = kept'.users
      /\ \A x \in past'.ended \union past'.plain \union past'.stale \union past'.promised :
           x <= past'.issued
  BY <1>6, <1>7 DEF SessionInv
<1>9. ASSUME NEW j \in Table
      PROVE  /\ table[j].t <= past.issued /\ table[j].t \notin ended \union past.stale
             /\ table[j].t # 0 => table[j] = db.sessions[j] /\ j \notin slots
             /\ table[j].t \in past.plain => ~table[j].kept
             /\ table[j].t \in promised => /\ table[j].kept /\ table[j] \in file
                                            /\ table[j].u \in users
  <2>1. CASE j \in slots
    BY <1>1, <1>2, <1>7, <2>1 DEF SessionInv
  <2>2. CASE j \notin slots
    <3>1. table[j] = db.sessions[j] /\ table[j].t \notin gone
      BY <1>2, <2>2
    <3>2. /\ table[j].t <= past.issued /\ table[j].t \notin ended \union past.stale
          /\ table[j].t \in past.plain => ~table[j].kept
      BY <3>1 DEF SessionInv
    <3>3. table[j].t \in promised => /\ table[j].kept /\ table[j] \in kept.sessions
                                     /\ table[j].u \in users /\ table[j].t # 0
      BY <2>2, <3>1 DEF SessionInv
    <3> QED
      BY <1>2, <2>2, <3>1, <3>2, <3>3, SavedIs
  <2> QED
    BY <2>1, <2>2
<1>10. ASSUME NEW e \in file
       PROVE  /\ e.kept /\ e.t <= past.issued /\ e.t # 0
              /\ e.t \notin ended \union past.plain
  <2>1. CASE db.https /\ ok
    BY <1>2, <1>9, <2>1, SavedIs
  <2>2. CASE ~(db.https /\ ok)
    BY <2>2 DEF SessionInv
  <2> QED
    BY <2>1, <2>2
<1>11. ASSUME NEW x \in promised
       PROVE  \E j \in Table : table[j].t # 0 /\ table[j].exp > now /\ table[j].t = x
  <2>1. PICK j \in Table : Live(db.sessions[j]) /\ db.sessions[j].t = x
    BY DEF SessionInv, le_auth_session
  <2>2. j \notin slots
    BY <2>1 DEF Live
  <2> QED
    BY <1>2, <2>1, <2>2 DEF Live
<1>12. \A x \in past'.promised : le_auth_session(x)'
  BY <1>3, <1>6, <1>11 DEF le_auth_session, Live
<1>13. OneUser'
  <2>1. ASSUME NEW e \in Entry, Held(e)'
        PROVE  Held(e) \/ e.t = 0
    <3>1. e \in kept.sessions \/ \E j \in Table : e = table[j]
      BY <1>2, <1>6, <2>1, SavedIs DEF Held
    <3> QED
      BY <1>2, <3>1 DEF Held
  <2> QED
    BY <2>1, NothingNew DEF SessionInv
<1> HIDE DEF file, promised, ended
<1> QED
  BY <1>5, <1>6, <1>8, <1>9, <1>10, <1>12, <1>13 DEF SessionInv

\* A restart: memory becomes what the file holds, plain tokens become stale.
LEMMA RestartSound ==
  ASSUME AccountType, SessionInv, NEW https \in BOOLEAN, WebRestarts(https)
  PROVE  AccountType' /\ SessionInv'
<1> DEFINE loaded == IF https THEN le_auth_load_sessions ELSE {}
           table == db'.sessions
           file == IF https THEN kept.sessions ELSE {}
           stale == past.stale \union past.plain
           promised == IF https THEN past.promised ELSE {}
<1>1. /\ kept.sessions \in SUBSET Entry /\ kept.users \in SUBSET Users /\ now \in Nat
      /\ past.issued \in Nat /\ past.promised \in SUBSET Nat /\ past.stale \in SUBSET Nat
      /\ past.plain \in SUBSET Nat /\ past.ended \in SUBSET Nat
  BY DEF AccountType
<1>2. Empty \in Entry /\ Empty.t = 0 /\ loaded \subseteq file
  BY DEF Empty, Entry, Users, le_auth_load_sessions
<1>3. /\ table \in [Table -> loaded \union {Empty}]
      /\ \A e \in loaded : \E i \in Table : table[i] = e
      /\ db' = [users |-> kept.users, https |-> https, sessions |-> table]
      /\ now' = now
  BY DEF WebRestarts
<1>4. /\ db'.users = kept.users /\ db'.https = https
      /\ kept'.users = kept.users /\ kept'.sessions = file
      /\ past'.issued = past.issued /\ past'.plain = past.plain /\ past'.ended = past.ended
      /\ past'.stale = stale /\ past'.promised = promised
  BY <1>3 DEF WebRestarts, AccountType
<1>5. AccountType'
  <2>1. table \in [Table -> Entry]
    BY <1>1, <1>2, <1>3
  <2>2. kept' \in [users : SUBSET Users, sessions : SUBSET Entry]
    BY DEF WebRestarts, AccountType
  <2>3. past' \in [issued : Nat, ended : SUBSET Nat, plain : SUBSET Nat, stale : SUBSET Nat,
                    promised : SUBSET Nat]
    <3>1. stale \in SUBSET Nat /\ promised \in SUBSET Nat
      BY <1>1
    <3>2. past' = [past EXCEPT !.stale = stale, !.promised = promised]
      BY DEF WebRestarts
    <3> HIDE DEF stale, promised
    <3> QED
      BY <3>1, <3>2 DEF AccountType
  <2> QED
    BY <1>1, <1>3, <2>1, <2>2, <2>3 DEF AccountType
<1>6. ASSUME NEW e \in file
      PROVE  /\ e.kept /\ e.t <= past.issued /\ e.t # 0
             /\ e.t \notin past.ended \union past.plain \union stale
  BY DEF SessionInv
<1>7. /\ ~https => file = {} /\ promised = {}
      /\ 0 \notin past.ended \union past.plain \union stale \union promised
      /\ stale \subseteq past.plain
      /\ \A x \in past.ended \union past.plain \union stale \union promised : x <= past.issued
  BY DEF SessionInv
<1> HIDE DEF table
<1>8. ASSUME NEW j \in Table
      PROVE  /\ table[j].t <= past.issued /\ table[j].t \notin past.ended \union stale
             /\ table[j].t \in past.plain => ~table[j].kept
             /\ table[j].t \in promised => /\ table[j].kept /\ table[j] \in file
                                            /\ table[j].u \in kept.users
  <2>1. CASE table[j] = Empty
    BY <1>1, <1>2, <1>7, <2>1
  <2>2. CASE table[j] \in loaded
    BY <1>2, <1>6, <2>2 DEF le_auth_load_sessions
  <2> QED
    BY <1>3, <2>1, <2>2
<1>9. ASSUME NEW x \in promised
      PROVE  \E j \in Table : table[j].t # 0 /\ table[j].exp > now /\ table[j].t = x
  <2>1. https /\ x \in past.promised
    OBVIOUS
  <2>2. PICK i \in Table : Live(db.sessions[i]) /\ db.sessions[i].t = x
    BY <2>1 DEF SessionInv, le_auth_session
  <2>3. db.sessions[i] \in le_auth_load_sessions
    BY <2>1, <2>2 DEF SessionInv, Live, le_auth_load_sessions
  <2> QED
    BY <1>3, <2>1, <2>2, <2>3 DEF Live
<1>10. \A x \in past'.promised : le_auth_session(x)'
  BY <1>3, <1>4, <1>9 DEF le_auth_session, Live, table
<1>11. OneUser'
  <2>1. ASSUME NEW e \in Entry, Held(e)'
        PROVE  Held(e) \/ e.t = 0
    BY <1>2, <1>3, <1>4, <2>1 DEF Held, table
  <2> QED
    BY <2>1, NothingNew DEF SessionInv
<1> HIDE DEF loaded, file, stale, promised
<1> QED
  BY <1>4, <1>5, <1>6, <1>7, <1>8, <1>10, <1>11 DEF SessionInv, table

\* Every operation on accounts and sessions keeps memory, file and answers
\* together.
LEMMA AccountSound ==
  ASSUME AccountType, SessionInv, Account
  PROVE  AccountType' /\ SessionInv'
<1>0. db.sessions \in [Table -> Entry] /\ db.users \in SUBSET Users /\ now \in Nat
      /\ past.promised \in SUBSET Nat
  BY DEF AccountType
<1>1. ASSUME NEW u \in Users, NEW https \in BOOLEAN, NEW ok \in BOOLEAN,
             le_auth_login(u, https, ok)
      PROVE  AccountType' /\ SessionInv'
  BY <1>1, LoginSound
<1>2. ASSUME NEW t \in 1..past.issued, NEW ok \in BOOLEAN, le_auth_logout(t, ok)
      PROVE  AccountType' /\ SessionInv'
  <2> DEFINE slots == {i \in Table : db.sessions[i].t = t}
  <2>1. t \in Nat /\ t # 0 /\ slots # {}
    BY <1>2 DEF le_auth_logout, le_auth_session, AccountType
  <2>2. {t} = {db.sessions[i].t : i \in slots} \ {0}
    BY <2>1
  <2>3. \A i \in Table \ slots : db.sessions[i].t \notin {t}
    OBVIOUS
  <2>4. Answered(Cleared(slots), ok, {t}, db.users)
    BY <1>2 DEF le_auth_logout
  <2> HIDE DEF slots
  <2>5. slots \in SUBSET Table
    BY DEF slots
  <2> QED
    BY <1>0, <2>1, <2>2, <2>3, <2>4, <2>5, AnsweredSound
<1>3. ASSUME NEW u \in Users, NEW ok \in BOOLEAN, le_auth_remove_user(u, ok)
      PROVE  AccountType' /\ SessionInv'
  <2> DEFINE slots == {i \in Table : db.sessions[i].u = u}
             gone == {db.sessions[i].t : i \in slots} \ {0}
  <2>1. gone \in SUBSET Nat /\ db.users \ {u} \in SUBSET Users
    BY <1>0 DEF Entry
  <2>2. \A i \in Table \ slots : db.sessions[i].u \in db.users => db.sessions[i].u \in db.users \ {u}
    OBVIOUS
  <2>3. Answered(Cleared(slots), ok, gone, db.users \ {u})
    BY <1>3 DEF le_auth_remove_user
  <2>4. \A i \in Table \ slots : db.sessions[i].t \notin gone
    BY <1>0 DEF SessionInv, OneUser, Held
  <2> QED
    BY <2>1, <2>2, <2>3, <2>4, AnsweredSound
<1>4. ASSUME NEW u \in Users, le_auth_add_user(u)
      PROVE  AccountType' /\ SessionInv'
  <2>1. AccountType'
    BY <1>4 DEF le_auth_add_user, AccountType
  <2>2. /\ db'.sessions = db.sessions /\ db'.https = db.https /\ kept'.sessions = kept.sessions
        /\ db'.users = db.users \union {u} /\ kept'.users = kept.users \union {u}
        /\ UNCHANGED <<now, past>>
    BY <1>4 DEF le_auth_add_user, AccountType
  <2> QED
    BY <2>1, <2>2 DEF SessionInv, OneUser, Held, le_auth_session, Live
<1>5. ASSUME NEW https \in BOOLEAN, WebRestarts(https)
      PROVE  AccountType' /\ SessionInv'
  BY <1>5, RestartSound
<1>6. CASE Hour
  <2> DEFINE lasts == {t \in past.promised : \E i \in Table : /\ db.sessions[i].t = t
                                                              /\ db.sessions[i].exp > now + 1}
  <2>1. /\ UNCHANGED <<db, kept>> /\ now' = now + 1
        /\ past' = [past EXCEPT !.promised = lasts]
    BY <1>6 DEF Hour
  <2>2. lasts \in SUBSET past.promised
    OBVIOUS
  <2>3. AccountType'
    <3> HIDE DEF lasts
    <3> QED
      BY <1>0, <2>1, <2>2 DEF AccountType
  <2>4. /\ past'.issued = past.issued /\ past'.ended = past.ended /\ past'.plain = past.plain
        /\ past'.stale = past.stale /\ past'.promised = lasts
    BY <2>1 DEF AccountType
  <2>5. \A t \in lasts : t # 0 /\ le_auth_session(t)'
    BY <2>1 DEF SessionInv, le_auth_session, Live
  <2> HIDE DEF lasts
  <2> QED
    BY <2>1, <2>2, <2>3, <2>4, <2>5 DEF SessionInv, OneUser, Held
<1> QED
  BY <1>1, <1>2, <1>3, <1>4, <1>5, <1>6 DEF Account, Signs

-----------------------------------------------------------------------------
(* timed.  The status is not "synchronized" while a new ntpd is under way.  *)
ClockInv ==
  /\ clk \in [pc : {"network", "start", "fork", "wait", "result", "sleep", "ended"},
              child : {"none", "runs", "asked", "ok", "failed"}, known : BOOLEAN,
              late : BOOLEAN, stopping : BOOLEAN, good : BOOLEAN, ready : BOOLEAN,
              status : {"waiting-network", "synchronizing", "synchronized", "retrying"}]
  /\ clk.pc \in {"start", "fork", "wait", "result"} => clk.status # "synchronized"
  /\ ClockHonest


\* Every step of timed, its child and the signals keeps the status honest.
LEMMA ClockSound ==
  ASSUME ClockInv, Clock
  PROVE  ClockInv'
<1> USE DEF ClockInv, ClockHonest
<1>1. CASE WaitsNetwork \/ ChildKnown \/ wait_ntpd \/ Sleeps
  BY ZenonT(60), <1>1 DEF WaitsNetwork, ChildKnown, wait_ntpd, Sleeps, Running
<1>2. CASE on_alarm \/ on_signal
  BY <1>2 DEF on_alarm, on_signal, Asked, Running
<1>3. ASSUME NEW ok \in BOOLEAN, start_ntpd(ok)
      PROVE  ClockInv'
  BY <1>3 DEF start_ntpd
<1>4. ASSUME NEW ok \in BOOLEAN, Result(ok)
      PROVE  ClockInv'
  BY <1>4 DEF Result, sync_hook
<1>5. ASSUME NEW how \in {"ok", "failed"}, ChildEnds(how)
      PROVE  ClockInv'
  BY <1>5 DEF ChildEnds, Running
<1>6. ASSUME NEW up \in BOOLEAN, Route(up)
      PROVE  ClockInv'
  BY <1>6 DEF Route
<1> QED
  BY <1>1, <1>2, <1>3, <1>4, <1>5, <1>6 DEF Clock, Clocks

-----------------------------------------------------------------------------
(* The reset.  Once the supervisor is down nothing comes back, and the      *)
(* services before the present place in the table are down.                 *)
ResetPlaces == {"idle", "stop", "clear", "reboot", "rebooted", "resume", "micd", "waked", "refused"}
ResetType == [pc : ResetPlaces, i : 1..8, stopped : SUBSET Services]
ResetInv ==
  /\ svc \subseteq Services /\ files \subseteq Owners /\ rec \in Services \union {None}
  /\ rst \in ResetType
  /\ rec # None => "watchdogd" \in svc
  /\ rst.pc = "stop" => \A j \in 1..8 : j < rst.i => factory_reset_services[j] \notin svc
  /\ rst.pc \in {"clear", "reboot", "rebooted"} => svc = {}
  /\ rst.pc \in {"reboot", "rebooted"} => files = {}


\* The table of services, place by place.
LEMMA TableOfServices ==
  /\ Len(factory_reset_services) = 8
  /\ factory_reset_services[1] = "watchdogd" /\ factory_reset_services[2] = "btd"
  /\ factory_reset_services[3] = "ledd" /\ factory_reset_services[4] = "networkd"
  /\ factory_reset_services[5] = "timerd" /\ factory_reset_services[6] = "agentd"
  /\ factory_reset_services[7] = "waked" /\ factory_reset_services[8] = "micd"
  /\ Services = {"watchdogd", "btd", "ledd", "networkd", "timerd", "agentd", "waked", "micd"}
  /\ None \notin Services
<1>1. /\ Len(factory_reset_services) = 8
      /\ factory_reset_services[1] = "watchdogd" /\ factory_reset_services[2] = "btd"
      /\ factory_reset_services[3] = "ledd" /\ factory_reset_services[4] = "networkd"
      /\ factory_reset_services[5] = "timerd" /\ factory_reset_services[6] = "agentd"
      /\ factory_reset_services[7] = "waked" /\ factory_reset_services[8] = "micd"
  BY DEF factory_reset_services
<1>2. \A i \in 1..8 : i = 1 \/ i = 2 \/ i = 3 \/ i = 4 \/ i = 5 \/ i = 6 \/ i = 7 \/ i = 8
  OBVIOUS
<1>3. Services = {"watchdogd", "btd", "ledd", "networkd", "timerd", "agentd", "waked", "micd"}
  BY <1>1, <1>2 DEF Services
<1> QED
  BY <1>1, <1>3 DEF None

\* Going to another part of the reset starts at the first place of the table.
LEMMA GoesIs ==
  ASSUME rst \in ResetType, NEW pc \in ResetPlaces, Goes(pc)
  PROVE  rst' \in ResetType /\ rst'.pc = pc /\ rst'.i = 1 /\ rst'.stopped = rst.stopped
<1>1. 1 \in 1..8
  OBVIOUS
<1> QED
  BY <1>1 DEF Goes, ResetType

\* A stop keeps the services before the present place down.
LEMMA StopSound ==
  ASSUME ResetInv, NEW o, quiesce_factory_reset_services(o)
  PROVE  ResetInv'
<1>1. rst.i \in 1..8 /\ At \in Services /\ At = factory_reset_services[rst.i]
  BY TableOfServices DEF ResetInv, ResetType, At
<1>2. /\ svc' \subseteq svc /\ files' = files /\ rec' \in {rec, None}
      /\ rec' # None => svc' = svc \/ At # "watchdogd"
  BY DEF quiesce_factory_reset_services, Without, Cancelled
<1>3. "watchdogd" \in svc /\ "watchdogd" \notin svc' => rec' = None
  BY TableOfServices DEF quiesce_factory_reset_services, Without, Cancelled, factory_reset_capture
<1>0. rst \in ResetType /\ "resume" \in ResetPlaces
  BY DEF ResetInv, ResetPlaces
<1>4. CASE Goes("resume")
  <2>1. rst' \in ResetType /\ rst'.pc = "resume"
    BY <1>0, <1>4, GoesIs
  <2> QED
    BY <1>2, <1>3, <2>1 DEF ResetInv
<1>5. CASE ~Goes("resume")
  <2>0. rst.stopped \in SUBSET Services /\ rst.stopped \union {At} \in SUBSET Services
    BY <1>0, <1>1 DEF ResetType
  <2>1. PICK stopped \in SUBSET Services : NextStop(stopped)
    BY <1>5, <2>0 DEF quiesce_factory_reset_services
  <2>2. At \notin svc'
    BY <1>1, <1>5 DEF quiesce_factory_reset_services, Without, factory_reset_capture
  <2>3. rst.pc = "stop"
    BY DEF quiesce_factory_reset_services
  <2>4. \A j \in 1..8 : j <= rst.i => factory_reset_services[j] \notin svc'
    BY <1>1, <1>2, <2>2, <2>3 DEF ResetInv
  <2>5. CASE LastOne
    <3>1. rst.i = 8
      BY <2>5, TableOfServices DEF LastOne
    <3>2. svc' = {}
      BY <1>2, <2>4, <3>1, TableOfServices DEF ResetInv
    <3> QED
      BY <1>2, <1>3, <2>1, <2>5, <3>2 DEF ResetInv, ResetType, ResetPlaces, NextStop
  <2>6. CASE ~LastOne
    <3>1. rst.i + 1 \in 1..8 /\ rst' = [pc |-> "stop", i |-> rst.i + 1, stopped |-> stopped]
      BY <1>1, <2>1, <2>6, TableOfServices DEF LastOne, NextStop
    <3>2. \A j \in 1..8 : j < rst.i + 1 => factory_reset_services[j] \notin svc'
      BY <1>1, <2>4
    <3> QED
      BY <1>2, <1>3, <2>1, <3>1, <3>2 DEF ResetInv, ResetType, ResetPlaces
  <2> QED
    BY <2>5, <2>6
<1> QED
  BY <1>4, <1>5

\* What is put back, or recovered, is never put back into a reset under way.
LEMMA ResetSound ==
  ASSUME ResetInv, Reset
  PROVE  ResetInv'
<1> USE DEF ResetInv
<1>0. /\ rst.pc = "stop" => "watchdogd" \notin svc \/ rst.i = 1
      /\ factory_reset_capture \subseteq Services /\ 1 \in 1..8
      /\ {"reboot", "rebooted", "resume", "micd", "waked", "refused"} \subseteq ResetPlaces
  BY TableOfServices DEF factory_reset_capture, ResetType, ResetPlaces
<1>1. CASE factory_reset
  BY <1>1 DEF factory_reset, ResetType, ResetPlaces
<1>2. ASSUME NEW o, quiesce_factory_reset_services(o)
      PROVE  ResetInv'
  BY <1>2, StopSound
<1>3. ASSUME NEW rest, le_factory_reset_clear(rest)
      PROVE  ResetInv'
  <2>1. CASE rest = {}
    <3>1. Goes("reboot")
      BY <1>3, <2>1 DEF le_factory_reset_clear
    <3> QED
      BY <1>0, <1>3, <2>1, <3>1, GoesIs DEF le_factory_reset_clear
  <2>2. CASE rest # {}
    <3>1. Goes("resume")
      BY <1>3, <2>2 DEF le_factory_reset_clear
    <3> QED
      BY <1>0, <1>3, <3>1, GoesIs DEF le_factory_reset_clear
  <2> QED
    BY <2>1, <2>2
<1>4. ASSUME NEW ok \in BOOLEAN, linux_reboot(ok)
      PROVE  ResetInv'
  <2>1. Goes("rebooted") \/ Goes("resume")
    BY <1>4 DEF linux_reboot
  <2> QED
    BY <1>0, <1>4, <2>1, GoesIs DEF linux_reboot
<1>5. ASSUME NEW x \in Services, NEW ok \in BOOLEAN, Up(x, ok)
      PROVE  svc \subseteq svc' /\ svc' \subseteq Services
  BY <1>5 DEF Up
<1>6. ASSUME NEW ok \in BOOLEAN, resume_factory_reset_services(ok)
      PROVE  ResetInv'
  <2>1. svc \subseteq svc' /\ svc' \subseteq Services
    BY <1>5, <1>6 DEF resume_factory_reset_services, Tabled, ResetType
  <2>2. LastOne \/ rst.i + 1 \in 1..8
    BY TableOfServices DEF LastOne, ResetType
  <2>3. rst' \in ResetType /\ rst'.pc \in {"micd", "resume"}
    <3>1. CASE LastOne
      <4>1. Goes("micd")
        BY <1>6, <3>1 DEF resume_factory_reset_services
      <4> QED
        BY <1>0, <4>1, GoesIs
    <3>2. CASE ~LastOne
      <4>1. rst.pc = "resume" /\ rst' = [rst EXCEPT !.i = @ + 1] /\ rst.i + 1 \in 1..8
        BY <1>6, <2>2, <3>2 DEF resume_factory_reset_services
      <4> QED
        BY <4>1 DEF ResetType
    <3> QED
      BY <3>1, <3>2
  <2> QED
    BY <1>6, <2>1, <2>3 DEF resume_factory_reset_services
<1>7. ASSUME NEW ok \in BOOLEAN, restore_factory_reset_capture(ok)
      PROVE  ResetInv'
  <2>1. /\ svc' \subseteq Services
        /\ "watchdogd" \in svc => "watchdogd" \in svc'
    BY <1>0, <1>5, <1>7, TableOfServices
       DEF restore_factory_reset_capture, factory_reset_capture
  <2> QED
    BY <1>0, <1>7, <2>1, GoesIs DEF restore_factory_reset_capture
<1>8. ASSUME NEW x \in Services, Supervises(x)
      PROVE  ResetInv'
  BY <1>8 DEF Supervises
<1>9. ASSUME NEW x \in Services, Writes(x)
      PROVE  ResetInv'
  BY <1>9 DEF Writes
<1>10. CASE Recovery
  <2>1. /\ rec \in Services /\ "watchdogd" \in svc /\ rec' = None /\ files' = files /\ rst' = rst
        /\ svc' \subseteq Services
    BY <1>0, <1>10 DEF Recovery
  <2>2. rst.pc = "stop" => rst.i = 1
    BY <1>0, <2>1
  <2> QED
    BY <2>1, <2>2
<1>11. ASSUME NEW x, ServiceDies(x)
       PROVE  ResetInv'
  <2>1. /\ svc' \subseteq svc /\ UNCHANGED <<files, rst, rec>>
        /\ "watchdogd" \in svc => "watchdogd" \in svc'
    BY <1>11 DEF ServiceDies, Without, factory_reset_capture
  <2> QED
    BY <2>1
<1>12. ASSUME NEW x \in Services, Probes(x)
       PROVE  ResetInv'
  BY <1>12 DEF Probes
<1> QED
  BY <1>1, <1>2, <1>3, <1>4, <1>6, <1>7, <1>8, <1>9, <1>10, <1>11, <1>12 DEF Reset, Resets

-----------------------------------------------------------------------------
(* The first boot.  While the wizard's worker runs the daemon is busy and   *)
(* refuses changes; what it saved the daemon takes in before the next one.  *)
Config == [own : {"default", "doc", "wizard", "later"}, rest : Nat]
Chosen == {"wizard", "later"}
Applying == {"account", "settings", "handoff", "record"}
Accounts == {"none", "doc", "owner"}
DiskType == [doc : {"none", "good", "bad"}, account : Accounts, marker : {"none", "valid", "bad"},
             saved : Config]
WebType == [pc : Applying \union {"down", "listen"}, mem : Config, account : Accounts,
            completed : BOOLEAN, created : BOOLEAN, handed : BOOLEAN, pending : BOOLEAN,
            busy : BOOLEAN]
JobType == [state : {"none", "runs"},
            pc : {"adapters", "connect", "save", "features", "marker", "answer"},
            mem : Config, ssid : {Home, "cafe"}, kind : {"setup", "connect"}]
ToldType == [wizard : {"none", "ok"}, rest : Nat, tried : Nat, blurred : BOOLEAN]
BootType == disk \in DiskType /\ web \in WebType /\ job \in JobType /\ told \in ToldType

(* What holds whatever happened. *)
Bounds == /\ told.rest <= told.tried /\ disk.saved.rest <= told.tried
          /\ web.mem.rest <= told.tried /\ job.mem.rest <= told.tried
AccountFirst ==
  /\ Valid \/ web.completed \/ web.created \/ web.pending \/ Runs => disk.account # "none"
  /\ web.pc # "down" => web.account = disk.account
  /\ told.wizard = "ok" => Valid
  /\ Valid /\ web.pc # "down" => web.completed \/ told.wizard = "ok"
(* What holds while every worker was seen through by the daemon it is of.   *)
WorkerSeen ==
  Runs => /\ web.pc = "listen" /\ web.busy /\ job.mem.rest >= told.rest
          /\ job.kind = "connect" => job.pc = "connect"
          /\ job.kind # "connect" /\ job.pc # "answer" =>
               ~web.pending /\ ~web.completed /\ told.wizard # "ok"
          /\ job.pc = "save" => job.mem.own = "wizard"
          /\ job.pc \in {"features", "marker"} => disk.saved.own = "wizard"
ChoiceSaved ==
  told.wizard = "ok" =>
    /\ disk.saved.own \in Chosen /\ web.pc \notin Applying /\ ~web.pending
    /\ web.pc = "listen" => (web.completed /\ web.mem.own \in Chosen) \/ (~web.completed /\ web.busy)
Clear ==
  /\ disk.saved.rest >= told.rest
  /\ web.pc # "down" => web.mem.rest >= told.rest
  /\ WorkerSeen /\ ChoiceSaved
BootInv == Bounds /\ AccountFirst /\ (~told.blurred => Clear)

AccountStays == disk.account # "none" => disk.account' = disk.account


\* What a request takes in from the worker before anything else.
LEMMA SyncedIs ==
  ASSUME BootType
  PROVE  /\ Synced \in WebType /\ Synced.pc = web.pc /\ Synced.account = web.account
         /\ (Synced.pending <=> web.pending) /\ (Synced.created <=> web.created)
         /\ Synced.mem.rest = web.mem.rest
         /\ Synced.mem.own = IF web.busy /\ Refreshes THEN disk.saved.own ELSE web.mem.own
         /\ (Synced.completed <=> web.completed \/ (web.busy /\ Refreshes))
         /\ (Synced.busy <=> web.busy /\ (refresh_fails \/ Runs))
<1>1. Refreshes \in BOOLEAN /\ (Refreshes \/ web.completed) \in BOOLEAN
      /\ (refresh_fails \/ Runs) \in BOOLEAN
  BY DEF Refreshes, refresh_fails, Runs, BootType, WebType
<1> DEFINE own == IF Refreshes THEN disk.saved.own ELSE web.mem.own
           completed == Refreshes \/ web.completed
           busy == refresh_fails \/ Runs
<1>2. own \in {"default", "doc", "wizard", "later"}
  BY DEF BootType, DiskType, WebType, Config
<1>3. CASE web.busy
  <2>1. Synced = [web EXCEPT !.mem = [web.mem EXCEPT !.own = own], !.completed = completed,
                             !.busy = busy]
    BY <1>3 DEF Synced, BootType, WebType
  <2>2. [web.mem EXCEPT !.own = own] \in Config
        /\ [web.mem EXCEPT !.own = own].own = own /\ [web.mem EXCEPT !.own = own].rest = web.mem.rest
    BY <1>2 DEF BootType, WebType, Config
  <2> DEFINE mem == [web.mem EXCEPT !.own = own]
  <2>3. mem \in Config /\ completed \in BOOLEAN /\ busy \in BOOLEAN
    BY <1>1, <2>2
  <2>4. mem.own = own /\ mem.rest = web.mem.rest
    BY <2>2
  <2>5. Synced = [web EXCEPT !.mem = mem, !.completed = completed, !.busy = busy]
    BY <2>1
  <2> HIDE DEF mem, completed, busy
  <2>6. /\ Synced \in WebType /\ Synced.pc = web.pc /\ Synced.account = web.account
        /\ (Synced.pending <=> web.pending) /\ (Synced.created <=> web.created)
        /\ Synced.mem = mem /\ (Synced.completed <=> completed) /\ (Synced.busy <=> busy)
    BY <2>3, <2>5 DEF BootType, WebType
  <2> QED
    BY <1>3, <2>4, <2>6 DEF own, completed, busy
<1>4. CASE ~web.busy
  BY <1>4 DEF Synced, BootType
<1> QED
  BY <1>3, <1>4

\* The daemon starts: it reads what is saved.
LEMMA StartSound ==
  ASSUME BootType, BootInv, api_provision_start
  PROVE  BootType' /\ BootInv' /\ AccountStays
<1> DEFINE pc == IF document_parse /\ ~Valid THEN "account" ELSE "listen"
<1>1. /\ pc \in Applying \union {"listen"} /\ Valid \in BOOLEAN
      /\ pc \in Applying => ~Valid
      /\ disk.saved \in Config /\ disk.account \in Accounts
  BY DEF Applying, Valid, BootType, DiskType
<1> HIDE DEF pc
<1>2. web' = [WebDown EXCEPT !.mem = disk.saved, !.account = disk.account, !.completed = Valid, !.pc = pc]
  BY DEF api_provision_start, pc
<1>3. /\ web' \in WebType /\ web'.pc = pc /\ web'.mem = disk.saved /\ web'.account = disk.account
      /\ (web'.completed <=> Valid) /\ ~web'.created /\ ~web'.pending /\ ~web'.busy
  BY <1>1, <1>2 DEF WebDown, WebType
<1>4. /\ disk' \in DiskType /\ disk'.saved = disk.saved /\ disk'.account = disk.account
      /\ disk'.marker = disk.marker
  BY DEF api_provision_start, provision_read, BootType, DiskType
<1>5. web.pc = "down" /\ job' = job /\ told' = told
  BY DEF api_provision_start
<1>6. BootType' /\ AccountStays
  BY <1>3, <1>4, <1>5 DEF BootType, AccountStays
<1>7. (Valid' <=> Valid) /\ (Runs' <=> Runs)
  BY <1>4, <1>5 DEF Valid, Runs
<1>8. Bounds' /\ AccountFirst'
  BY <1>3, <1>4, <1>5, <1>7 DEF BootInv, Bounds, AccountFirst
<1>9. ASSUME ~told.blurred PROVE Clear'
  BY <1>1, <1>3, <1>4, <1>5, <1>7, <1>9
     DEF BootInv, Bounds, AccountFirst, Clear, WorkerSeen, ChoiceSaved, BootType, DiskType, ToldType, Config, Chosen
<1> QED
  BY <1>5, <1>6, <1>8, <1>9 DEF BootInv

\* The document's account.
LEMMA DocumentAccountSound ==
  ASSUME BootType, BootInv, NEW ok \in BOOLEAN, ApplyAccount(ok)
  PROVE  BootType' /\ BootInv' /\ AccountStays
<1> DEFINE made == ok /\ web.account = "none" /\ disk.account = "none"
<1>1. made \in BOOLEAN /\ {"doc", "none"} \subseteq Accounts /\ web.pc = "account"
      /\ "settings" \in Applying /\ "account" \in Applying
  BY DEF ApplyAccount, Accounts, Applying
<1>2. /\ made => web.account = "none" /\ disk.account = "none"
      /\ web' = [web EXCEPT !.pc = "settings", !.created = made, !.account = IF made THEN "doc" ELSE @]
      /\ disk' = [disk EXCEPT !.account = IF made THEN "doc" ELSE @]
      /\ job' = job /\ told' = told
  BY DEF ApplyAccount
<1> HIDE DEF made
<1>3. /\ web' \in WebType /\ web'.pc = "settings" /\ web'.mem = web.mem
      /\ (web'.completed <=> web.completed) /\ (web'.created <=> made)
      /\ (web'.pending <=> web.pending) /\ (web'.busy <=> web.busy)
      /\ web'.account = IF made THEN "doc" ELSE web.account
  BY <1>1, <1>2 DEF BootType, WebType
<1>4. /\ disk' \in DiskType /\ disk'.saved = disk.saved /\ disk'.marker = disk.marker
      /\ disk'.account = IF made THEN "doc" ELSE disk.account
  BY <1>1, <1>2 DEF BootType, DiskType
<1>5. BootType' /\ AccountStays
  BY <1>2, <1>3, <1>4 DEF BootType, AccountStays
<1>6. (Valid' <=> Valid) /\ (Runs' <=> Runs)
  BY <1>2, <1>4 DEF Valid, Runs
<1>7. web.created => disk.account # "none"
  BY DEF BootInv, AccountFirst
<1>8. Bounds'
  BY <1>2, <1>3, <1>4 DEF BootInv, Bounds
<1>9. CASE made
  <2>1. AccountFirst'
    BY <1>1, <1>2, <1>3, <1>4, <1>6, <1>9 DEF BootInv, AccountFirst
  <2>2. ASSUME ~told.blurred PROVE Clear'
    BY <1>1, <1>2, <1>3, <1>4, <1>6, <2>2 DEF BootInv, Clear, WorkerSeen, ChoiceSaved
  <2> QED
    BY <1>2, <1>5, <1>8, <2>1, <2>2 DEF BootInv
<1>10. CASE ~made
  <2>1. AccountFirst'
    BY <1>1, <1>2, <1>3, <1>4, <1>6, <1>10 DEF BootInv, AccountFirst
  <2>2. ASSUME ~told.blurred PROVE Clear'
    BY <1>1, <1>2, <1>3, <1>4, <1>6, <2>2 DEF BootInv, Clear, WorkerSeen, ChoiceSaved
  <2> QED
    BY <1>2, <1>5, <1>8, <2>1, <2>2 DEF BootInv
<1> QED
  BY <1>9, <1>10

\* The document's settings and network, its end, and the wait for its network.
LEMMA DocumentSound ==
  ASSUME BootType, BootInv, NEW a \in BOOLEAN, NEW ok \in BOOLEAN,
         ApplySettings(a, ok) \/ ApplyWifi(ok) \/ provision_start(ok)
  PROVE  BootType' /\ BootInv' /\ AccountStays
<1>1. job' = job /\ told' = told /\ web.pc \in Applying
  BY DEF ApplySettings, ApplyWifi, provision_start, Applying
<1>2. /\ web' \in WebType /\ web'.pc \in {"listen", "handoff", "record"}
      /\ web'.account = web.account /\ web'.mem.rest = web.mem.rest
      /\ (web'.completed <=> web.completed) /\ (web'.created <=> web.created)
      /\ (web'.busy <=> web.busy) /\ (web'.pending => web.pending \/ web.created)
  <2>1. CASE ApplySettings(a, ok)
    <3> DEFINE m == [web.mem EXCEPT !.own = "doc"]
               pc == IF ok THEN "handoff" ELSE "record"
    <3>1. m \in Config /\ m.rest = web.mem.rest
      BY DEF BootType, WebType, Config
    <3>2. pc \in Applying /\ pc \in {"handoff", "record"} /\ "record" \in Applying
      BY DEF Applying
    <3>3. \/ web' = [web EXCEPT !.mem = m, !.pc = pc]
          \/ web' = [web EXCEPT !.pc = "record"]
      BY <2>1 DEF ApplySettings, BootType, WebType
    <3> HIDE DEF m, pc
    <3> QED
      BY <3>1, <3>2, <3>3 DEF BootType, WebType
  <2>2. CASE ApplyWifi(ok)
    <3>1. web' = [web EXCEPT !.pc = "record", !.handed = ok] /\ "record" \in Applying
      BY <2>2 DEF ApplyWifi, Applying
    <3> QED
      BY <3>1 DEF BootType, WebType
  <2>3. CASE provision_start(ok)
    <3> DEFINE waits == ok /\ web.created /\ web.handed
    <3>1. waits \in BOOLEAN /\ (waits => web.created)
      OBVIOUS
    <3>2. web' = [web EXCEPT !.pc = "listen", !.pending = waits]
      BY <2>3 DEF provision_start
    <3> HIDE DEF waits
    <3> QED
      BY <3>1, <3>2 DEF BootType, WebType
  <2> QED
    BY <2>1, <2>2, <2>3
<1>3. /\ disk' \in DiskType /\ disk'.account = disk.account /\ disk'.marker = disk.marker
      /\ disk'.saved.rest \in {disk.saved.rest, web.mem.rest}
  <2>1. CASE disk' = disk
    BY <2>1 DEF BootType
  <2>2. CASE disk' # disk
    <3> DEFINE m == [web.mem EXCEPT !.own = "doc"]
    <3>1. m \in Config /\ m.rest = web.mem.rest
      BY DEF BootType, WebType, Config
    <3>2. disk' = [disk EXCEPT !.saved = m]
      BY <2>2 DEF ApplySettings, ApplyWifi, provision_start, persist_configuration
    <3> HIDE DEF m
    <3> QED
      BY <3>1, <3>2 DEF BootType, DiskType
  <2> QED
    BY <2>1, <2>2
<1>4. BootType' /\ AccountStays
  BY <1>1, <1>2, <1>3 DEF BootType, AccountStays
<1>5. (Valid' <=> Valid) /\ (Runs' <=> Runs)
  BY <1>1, <1>3 DEF Valid, Runs
<1>6. Bounds' /\ AccountFirst'
  BY <1>1, <1>2, <1>3, <1>5 DEF BootInv, Bounds, AccountFirst, Applying
<1>7. ASSUME ~told.blurred PROVE Clear'
  <2>1. ~Runs /\ told.wizard # "ok"
    BY <1>1, <1>7 DEF BootInv, Clear, WorkerSeen, ChoiceSaved, Applying
  <2> QED
    BY <1>1, <1>2, <1>3, <1>5, <1>7, <2>1 DEF BootInv, Clear, WorkerSeen, ChoiceSaved, Applying
<1> QED
  BY <1>1, <1>4, <1>6, <1>7 DEF BootInv

\* The document's network is up, or its time is.
LEMMA WaitSound ==
  ASSUME BootType, BootInv, NEW ok \in BOOLEAN, api_provision_poll(ok) \/ ProvisionTimesOut
  PROVE  BootType' /\ BootInv' /\ AccountStays
<1>1. job' = job /\ told' = told /\ web.pc = "listen" /\ web.pending
  BY DEF api_provision_poll, ProvisionTimesOut, Serving
<1>2. /\ web' \in WebType /\ web'.pc = web.pc /\ web'.account = web.account /\ web'.mem = web.mem
      /\ (web.completed => web'.completed) /\ (web'.created <=> web.created)
      /\ (web'.busy <=> web.busy) /\ ~web'.pending
  <2>1. PICK done \in BOOLEAN : web' = [web EXCEPT !.pending = FALSE, !.completed = done]
                                /\ (web.completed => done)
    <3>1. CASE ProvisionTimesOut
      <4>1. web' = [web EXCEPT !.pending = FALSE, !.completed = web.completed]
        BY <3>1 DEF ProvisionTimesOut, BootType, WebType
      <4> QED
        BY <4>1 DEF BootType, WebType
    <3>2. CASE api_provision_poll(ok)
      <4>1. web' = [web EXCEPT !.pending = FALSE, !.completed = ok \/ web.completed]
        BY <3>2 DEF api_provision_poll
      <4>2. (ok \/ web.completed) \in BOOLEAN
        OBVIOUS
      <4> QED
        BY <4>1, <4>2
    <3> QED
      BY <3>1, <3>2
  <2> QED
    BY <2>1 DEF BootType, WebType
<1>3. /\ disk' \in DiskType /\ disk'.account = disk.account /\ disk'.saved = disk.saved
      /\ disk'.marker \in {disk.marker, "valid"}
  BY DEF api_provision_poll, ProvisionTimesOut, api_write_setup_marker, BootType, DiskType
<1>4. BootType' /\ AccountStays
  BY <1>1, <1>2, <1>3 DEF BootType, AccountStays
<1>5. (Valid => Valid') /\ (Runs' <=> Runs) /\ disk.account # "none"
  BY <1>1, <1>3 DEF Valid, Runs, BootInv, AccountFirst
<1>8. disk'.marker # disk.marker => web'.completed
  <2> SUFFICES ASSUME disk' # disk PROVE web'.completed
    OBVIOUS
  <2>1. ok /\ web' = [web EXCEPT !.pending = FALSE, !.completed = ok \/ @]
    BY DEF api_provision_poll, ProvisionTimesOut, api_write_setup_marker
  <2>2. (ok \/ web.completed) = TRUE
    BY <2>1
  <2>3. web' = [web EXCEPT !.pending = FALSE, !.completed = TRUE]
    BY <2>1, <2>2
  <2> QED
    BY <2>3 DEF BootType, WebType
<1>9. Valid' => Valid \/ web'.completed
  BY <1>8 DEF Valid
<1>6. Bounds' /\ AccountFirst'
  BY <1>1, <1>2, <1>3, <1>5, <1>9 DEF BootInv, Bounds, AccountFirst
<1>7. ASSUME ~told.blurred PROVE Clear'
  <2>1. told.wizard # "ok" /\ (Runs /\ job.kind # "connect" => job.pc = "answer")
    BY <1>1, <1>7 DEF BootInv, Clear, WorkerSeen, ChoiceSaved
  <2> QED
    BY <1>1, <1>2, <1>3, <1>5, <1>7, <2>1 DEF BootInv, Clear, WorkerSeen, ChoiceSaved
<1> QED
  BY <1>1, <1>4, <1>6, <1>7 DEF BootInv

\* A request that only takes in what the worker left, and the first account.
LEMMA ReadSound ==
  ASSUME BootType, BootInv, web' = Synced, UNCHANGED <<disk, job, told>>
  PROVE  BootType' /\ BootInv' /\ AccountStays
<1>1. BootType' /\ AccountStays
  BY SyncedIs DEF BootType, AccountStays
<1>2. (Valid' <=> Valid) /\ (Runs' <=> Runs) /\ (Refreshes => Valid /\ ~web.completed)
      /\ (Valid => ~refresh_fails) /\ (Refreshes <=> ~web.completed /\ Valid)
  BY DEF Valid, Runs, Refreshes, refresh_fails
<1>3. Bounds' /\ AccountFirst'
  BY SyncedIs, <1>2 DEF BootInv, Bounds, AccountFirst
<1>4. ASSUME ~told.blurred PROVE Clear'
  <2>1. WorkerSeen'
    BY <1>2, <1>4, SyncedIs DEF BootInv, Clear, WorkerSeen, AccountFirst
  <2>2. ChoiceSaved'
    BY <1>2, <1>4, SyncedIs DEF BootInv, Clear, WorkerSeen, ChoiceSaved, AccountFirst
  <2> QED
    BY <1>4, <2>1, <2>2, SyncedIs DEF BootInv, Clear
<1> QED
  BY <1>1, <1>3, <1>4 DEF BootInv

\* The first account, made by the owner at the device's page.
LEMMA OwnerSound ==
  ASSUME BootType, BootInv, auth_bootstrap_json
  PROVE  BootType' /\ BootInv' /\ AccountStays
<1>1. CASE Synced.busy
  <2>1. web' = Synced /\ UNCHANGED <<disk, job, told>>
    BY <1>1 DEF auth_bootstrap_json
  <2> QED
    BY <2>1, ReadSound
<1>2. CASE ~Synced.busy
  <2>1. /\ web' = [Synced EXCEPT !.account = "owner"] /\ disk' = [disk EXCEPT !.account = "owner"]
        /\ job' = job /\ told' = told /\ web.pc = "listen" /\ web.account = "none"
    BY <1>2 DEF auth_bootstrap_json, Serving
  <2>2. /\ disk' \in DiskType /\ disk'.account = "owner" /\ disk'.saved = disk.saved
        /\ disk'.marker = disk.marker
    BY <2>1 DEF BootType, DiskType, Accounts
  <2>3. disk.account = "none" /\ ~Runs /\ ~Valid /\ ~web.completed
    BY <2>1 DEF BootInv, AccountFirst
  <2>4. ~Refreshes
    BY <2>3 DEF Refreshes
  <2>5. /\ web' \in WebType /\ web'.pc = "listen" /\ web'.account = "owner"
        /\ web'.mem = Synced.mem /\ ~web'.completed
        /\ (web'.pending <=> web.pending) /\ ~web'.busy
    BY <1>2, <2>1, <2>3, <2>4, SyncedIs DEF WebType, Accounts
  <2>6. BootType' /\ AccountStays /\ ~Valid' /\ ~Runs'
    BY <2>1, <2>2, <2>3, <2>5 DEF BootType, AccountStays, Valid, Runs
  <2>7. web'.mem.rest = web.mem.rest
    BY <2>5, SyncedIs
  <2>8. Bounds' /\ AccountFirst' /\ told.wizard # "ok"
    BY <2>1, <2>2, <2>3, <2>5, <2>6, <2>7 DEF BootInv, Bounds, AccountFirst
  <2>9. ASSUME ~told.blurred PROVE Clear'
    BY <2>1, <2>2, <2>5, <2>6, <2>7, <2>8, <2>9 DEF BootInv, Clear, WorkerSeen, ChoiceSaved
  <2> QED
    BY <2>1, <2>6, <2>8, <2>9 DEF BootInv
<1> QED
  BY <1>1, <1>2

\* A change to a setting.
LEMMA ChangeSound ==
  ASSUME BootType, BootInv, NEW f \in {"own", "rest"}, NEW ok \in BOOLEAN, Put(f, ok)
  PROVE  BootType' /\ BootInv' /\ AccountStays
<1>1. CASE Synced.busy
  <2>1. web' = Synced /\ UNCHANGED <<disk, job, told>>
    BY <1>1 DEF Put, persist_configuration
  <2> QED
    BY <2>1, ReadSound
<1>2. CASE ~Synced.busy
  <2> DEFINE m == Changed(Synced.mem, f)
             rest == IF ok THEN m.rest ELSE told.rest
  <2>1. /\ Synced.mem \in Config /\ Synced.mem.rest = web.mem.rest
        /\ told.tried \in Nat /\ told.tried + 1 \in Nat /\ told.rest \in Nat /\ web.mem.rest \in Nat
        /\ job.mem.rest \in Nat /\ disk.saved.rest \in Nat
    BY SyncedIs DEF WebType, BootType, ToldType, JobType, DiskType, Config
  <2>2. m \in Config /\ m.own \in {Synced.mem.own, "later"}
        /\ m.rest \in {web.mem.rest, told.tried + 1}
    BY <2>1 DEF Changed, Config
  <2>3. rest \in Nat /\ rest \in {told.rest, m.rest} /\ (~ok => rest = told.rest)
    BY <2>1, <2>2 DEF Config
  <2> HIDE DEF m
  <2>4. /\ web' = [Synced EXCEPT !.mem = m] /\ web.pc = "listen" /\ job' = job
        /\ disk' = IF ok THEN [disk EXCEPT !.saved = web'.mem] ELSE disk
        /\ told' = [told EXCEPT !.tried = @ + 1, !.rest = IF ok THEN web'.mem.rest ELSE @]
    BY <1>2 DEF Put, persist_configuration, Admitted, Serving, m
  <2>5. /\ web' \in WebType /\ web'.pc = "listen" /\ web'.account = web.account /\ web'.mem = m
        /\ (web'.completed <=> Synced.completed) /\ (web'.created <=> web.created)
        /\ (web'.pending <=> web.pending) /\ ~web'.busy
    BY <1>2, <2>2, <2>4, SyncedIs DEF WebType
  <2>6. told' = [told EXCEPT !.tried = told.tried + 1, !.rest = rest]
    BY <2>4, <2>5
  <2> HIDE DEF rest
  <2>7. /\ told' \in ToldType /\ told'.wizard = told.wizard /\ told'.rest = rest
        /\ told'.tried = told.tried + 1 /\ (told'.blurred <=> told.blurred)
    BY <2>1, <2>3, <2>6 DEF BootType, ToldType
  <2>8. /\ disk' \in DiskType /\ disk'.account = disk.account /\ disk'.marker = disk.marker
        /\ disk'.saved = IF ok THEN m ELSE disk.saved
    BY <2>2, <2>4, <2>5 DEF BootType, DiskType
  <2>9. BootType' /\ AccountStays /\ (Valid' <=> Valid) /\ (Runs' <=> Runs)
    BY <2>4, <2>5, <2>7, <2>8 DEF BootType, AccountStays, Valid, Runs
  <2>10. Bounds'
    BY <2>1, <2>2, <2>3, <2>4, <2>5, <2>7, <2>8 DEF BootInv, Bounds
  <2>11. AccountFirst'
    BY <2>4, <2>5, <2>7, <2>8, <2>9, SyncedIs DEF BootInv, AccountFirst, Refreshes
  <2>12. ASSUME ~told.blurred PROVE Clear'
    <3>1. ~Runs
      BY <1>2, <2>12, SyncedIs DEF BootInv, Clear, WorkerSeen
    <3>2. m.rest >= rest /\ (~ok => disk.saved.rest >= rest)
      BY <2>1, <2>2, <2>3, <2>4, <2>12 DEF BootInv, Bounds, Clear
    <3>3. told.wizard = "ok" => /\ Synced.completed /\ Synced.mem.own \in Chosen
                                /\ disk.saved.own \in Chosen /\ ~web.pending
      BY <2>4, <2>12, SyncedIs DEF BootInv, Clear, ChoiceSaved, AccountFirst, Refreshes
    <3>4. "later" \in Chosen
      BY DEF Chosen
    <3> QED
      BY <2>2, <2>4, <2>5, <2>7, <2>8, <2>9, <3>1, <3>2, <3>3, <3>4
         DEF Clear, WorkerSeen, ChoiceSaved, Applying
  <2> QED
    BY <2>7, <2>9, <2>10, <2>11, <2>12 DEF BootInv
<1> QED
  BY <1>1, <1>2

\* The wizard, or another network: the worker is forked.
LEMMA PostSound ==
  ASSUME BootType, BootInv, NEW kind \in {"setup", "connect"}, NEW ssid \in {Home, "cafe"},
         Posts(kind, ssid)
  PROVE  BootType' /\ BootInv' /\ AccountStays
<1>1. CASE Synced.busy
  <2>1. web' = Synced /\ UNCHANGED <<disk, job, told>>
    BY <1>1 DEF Posts
  <2> QED
    BY <2>1, ReadSound
<1>2. CASE ~Synced.busy
  <2> DEFINE pc == IF kind = "connect" THEN "connect"
                   ELSE IF Synced.completed THEN "answer" ELSE "adapters"
             blurred == told.blurred \/ web.pending
  <2>1. /\ pc \in {"connect", "answer", "adapters"} /\ blurred \in BOOLEAN /\ Synced.mem \in Config
        /\ kind = "connect" => pc = "connect"
        /\ kind # "connect" /\ pc # "answer" => ~Synced.completed
    BY SyncedIs DEF WebType
  <2> HIDE DEF pc
  <2>2. /\ web' = [Synced EXCEPT !.busy = TRUE] /\ disk' = disk
        /\ job' = [NoJob EXCEPT !.state = "runs", !.mem = Synced.mem, !.ssid = ssid, !.kind = kind,
                                !.pc = pc]
        /\ told' = [told EXCEPT !.blurred = blurred] /\ web.pc = "listen" /\ web.account # "none"
    BY <1>2 DEF Posts, pc, Admitted, Serving
  <2>3. /\ web' \in WebType /\ web'.pc = "listen" /\ web'.account = web.account
        /\ web'.mem = Synced.mem /\ (web'.completed <=> Synced.completed)
        /\ (web'.created <=> web.created) /\ (web'.pending <=> web.pending) /\ web'.busy
    BY <2>2, SyncedIs DEF WebType
  <2>4. /\ job' \in JobType /\ job'.state = "runs" /\ job'.pc = pc /\ job'.kind = kind
        /\ job'.mem = Synced.mem
    BY <2>1, <2>2 DEF NoJob, JobType
  <2> HIDE DEF blurred
  <2>5. /\ told' \in ToldType /\ told'.wizard = told.wizard /\ told'.rest = told.rest
        /\ told'.tried = told.tried /\ (told'.blurred <=> blurred)
    BY <2>1, <2>2 DEF BootType, ToldType
  <2>6. BootType' /\ AccountStays /\ (Valid' <=> Valid) /\ Runs'
    BY <2>2, <2>3, <2>4, <2>5 DEF BootType, AccountStays, Valid, Runs
  <2>7. web'.mem.rest = web.mem.rest /\ job'.mem.rest = web.mem.rest
    BY <2>3, <2>4, SyncedIs
  <2>8. Bounds'
    BY <2>2, <2>5, <2>7 DEF BootInv, Bounds
  <2>9. AccountFirst'
    BY <2>2, <2>3, <2>5, <2>6, SyncedIs DEF BootInv, AccountFirst, Refreshes
  <2>10. ASSUME ~blurred PROVE Clear'
    <3>1. ~told.blurred /\ ~web.pending
      BY <2>10 DEF blurred
    <3>2. told.wizard = "ok" => /\ Synced.completed /\ Synced.mem.own \in Chosen
                                /\ disk.saved.own \in Chosen
      BY <2>2, <3>1, SyncedIs DEF BootInv, Clear, ChoiceSaved, AccountFirst, Refreshes
    <3>3. WorkerSeen'
      BY <2>1, <2>2, <2>3, <2>4, <2>5, <2>7, <3>1, <3>2 DEF BootInv, Clear, WorkerSeen
    <3>4. ChoiceSaved'
      BY <2>2, <2>3, <2>5, <3>1, <3>2 DEF ChoiceSaved, Applying
    <3> QED
      BY <2>2, <2>3, <2>5, <2>7, <3>1, <3>3, <3>4 DEF BootInv, Clear
  <2> QED
    BY <2>5, <2>6, <2>8, <2>9, <2>10 DEF BootInv
<1> QED
  BY <1>1, <1>2

\* One step of the worker, which ends, or goes on to the next.
LEMMA WorkerSound ==
  ASSUME BootType, BootInv, NEW ok \in BOOLEAN, JobStep(ok)
  PROVE  BootType' /\ BootInv' /\ AccountStays
<1>1. /\ Runs /\ web' = web /\ disk.account # "none"
      /\ job.pc \in {"adapters", "connect", "save", "features", "marker", "answer"}
      /\ job.mem \in Config
  BY DEF JobStep, BootInv, AccountFirst, BootType, JobType
<1>2. /\ JobOver \in JobType /\ JobOver.state = "none" /\ JobOver.mem = job.mem
  BY DEF JobOver, BootType, JobType
<1>3. /\ told' \in ToldType /\ told'.rest = told.rest /\ told'.tried = told.tried
      /\ (told'.blurred <=> told.blurred)
      /\ told'.wizard = IF job.pc = "marker" /\ ok THEN "ok" ELSE told.wizard
  BY <1>1 DEF JobStep, BootType, ToldType, setup_activate_installed_features
<1>4. /\ disk' \in DiskType /\ disk'.account = disk.account
      /\ disk'.saved = IF job.pc = "save" /\ ok THEN job.mem ELSE disk.saved
      /\ disk'.marker = IF job.pc = "marker" /\ ok THEN "valid" ELSE disk.marker
  BY <1>1 DEF JobStep, BootType, DiskType, setup_activate_installed_features,
              persist_configuration, api_write_setup_marker
<1>5. \/ job' = JobOver
      \/ /\ job' \in JobType /\ job'.state = "runs" /\ job'.kind = job.kind
         /\ job'.mem.rest = job.mem.rest /\ ok
         /\ \/ job.pc = "adapters" /\ job'.pc = "connect"
            \/ job.pc = "connect" /\ job'.pc = "save" /\ job.kind = "setup" /\ job'.mem.own = "wizard"
            \/ job.pc = "save" /\ job'.pc = "features"
            \/ job.pc = "features" /\ job'.pc = "marker"
            \/ job.pc = "marker" /\ job'.pc = "answer"
  <2> SUFFICES ASSUME job' # JobOver
               PROVE  /\ job' \in JobType /\ job'.state = "runs" /\ job'.kind = job.kind
                      /\ job'.mem.rest = job.mem.rest /\ ok
                      /\ \/ job.pc = "adapters" /\ job'.pc = "connect"
                         \/ job.pc = "connect" /\ job'.pc = "save" /\ job.kind = "setup"
                            /\ job'.mem.own = "wizard"
                         \/ job.pc = "save" /\ job'.pc = "features"
                         \/ job.pc = "features" /\ job'.pc = "marker"
                         \/ job.pc = "marker" /\ job'.pc = "answer"
    OBVIOUS
  <2>1. CASE job.pc = "connect"
    <3> DEFINE m == [job.mem EXCEPT !.own = "wizard"]
    <3>1. m \in Config /\ m.own = "wizard" /\ m.rest = job.mem.rest
      BY <1>1 DEF Config
    <3>2. ok /\ job.kind = "setup" /\ job' = [job EXCEPT !.pc = "save", !.mem = m]
      BY <2>1 DEF JobStep, BootType, JobType
    <3> HIDE DEF m
    <3> QED
      BY <1>1, <2>1, <3>1, <3>2 DEF BootType, JobType, Runs
  <2>2. CASE job.pc # "connect"
    BY <1>1, <2>2 DEF JobStep, BootType, JobType, Runs, setup_activate_installed_features
  <2> QED
    BY <2>1, <2>2
<1>6. BootType' /\ AccountStays /\ job'.mem.rest = job.mem.rest /\ (Valid => Valid')
      /\ (Valid' => Valid \/ told'.wizard = "ok") /\ (told'.wizard = "ok" => Valid')
  BY <1>1, <1>2, <1>3, <1>4, <1>5 DEF BootType, AccountStays, Valid, BootInv, AccountFirst
<1>7. Bounds'
  BY <1>1, <1>3, <1>4, <1>6 DEF BootInv, Bounds
<1>8. AccountFirst'
  BY <1>1, <1>3, <1>4, <1>6 DEF BootInv, AccountFirst
<1>9. ASSUME ~told.blurred PROVE Clear'
  <2>1. /\ web.pc = "listen" /\ web.busy /\ job.mem.rest >= told.rest
        /\ disk.saved.rest >= told.rest /\ web.mem.rest >= told.rest
    BY <1>1, <1>9 DEF BootInv, Clear, WorkerSeen
  <2>2. job.kind = "connect" => job.pc = "connect"
    BY <1>1, <1>9 DEF BootInv, Clear, WorkerSeen
  <2>3. job.pc = "save" => job.mem.own = "wizard"
    BY <1>1, <1>9 DEF BootInv, Clear, WorkerSeen
  <2>4. job.pc \in {"features", "marker"} => disk.saved.own = "wizard"
    BY <1>1, <1>9 DEF BootInv, Clear, WorkerSeen
  <2>5. job.kind # "connect" /\ job.pc # "answer" =>
          ~web.pending /\ ~web.completed /\ told.wizard # "ok"
    BY <1>1, <1>9 DEF BootInv, Clear, WorkerSeen
  <2>6. WorkerSeen'
    BY <1>1, <1>2, <1>3, <1>4, <1>5, <2>1, <2>2, <2>3, <2>4, <2>5 DEF WorkerSeen, Runs
  <2>7. ChoiceSaved'
    <3>1. "wizard" \in Chosen /\ "listen" \notin Applying
      BY DEF Chosen, Applying
    <3>2. CASE job.pc = "marker" /\ ok
      BY <1>1, <1>4, <2>1, <2>2, <2>4, <2>5, <3>1, <3>2 DEF ChoiceSaved
    <3>3. CASE ~(job.pc = "marker" /\ ok)
      BY <1>1, <1>3, <1>4, <1>9, <2>3, <3>1, <3>3 DEF BootInv, Clear, ChoiceSaved
    <3> QED
      BY <3>2, <3>3
  <2> QED
    BY <1>1, <1>3, <1>4, <2>1, <2>6, <2>7 DEF Clear
<1> QED
  BY <1>3, <1>6, <1>7, <1>8, <1>9 DEF BootInv

\* The worker or the daemon is killed at any point.
LEMMA DeathSound ==
  ASSUME BootType, BootInv, WebDies \/ JobDies
  PROVE  BootType' /\ BootInv' /\ AccountStays
<1>1. CASE JobDies
  <2>1. job' = JobOver /\ UNCHANGED <<disk, web, told>>
    BY <1>1 DEF JobDies
  <2>2. job' \in JobType /\ job'.state = "none" /\ job'.mem = job.mem
    BY <2>1 DEF JobOver, BootType, JobType
  <2> QED
    BY <2>1, <2>2 DEF BootType, BootInv, AccountStays, Bounds, AccountFirst, Valid, Runs, Clear,
                      WorkerSeen, ChoiceSaved
<1>2. CASE WebDies
  <2> DEFINE blurred == told.blurred \/ Runs
  <2>1. /\ web' = WebDown /\ UNCHANGED <<disk, job>> /\ told' = [told EXCEPT !.blurred = blurred]
        /\ blurred \in BOOLEAN
    BY <1>2 DEF WebDies
  <2> HIDE DEF blurred
  <2>2. /\ told' \in ToldType /\ told'.wizard = told.wizard /\ told'.rest = told.rest
        /\ told'.tried = told.tried /\ (told'.blurred <=> blurred)
    BY <2>1 DEF BootType, ToldType
  <2>3. /\ web' \in WebType /\ web'.pc = "down" /\ web'.mem.rest = 0 /\ ~web'.completed
        /\ ~web'.created /\ ~web'.pending
    BY <2>1 DEF WebDown, WebType, Config, Accounts, Defaults
  <2>4. BootType' /\ AccountStays /\ (Valid' <=> Valid) /\ (Runs' <=> Runs)
    BY <2>1, <2>2, <2>3 DEF BootType, AccountStays, Valid, Runs
  <2>5. Bounds' /\ AccountFirst'
    BY <2>1, <2>2, <2>3, <2>4 DEF BootInv, Bounds, AccountFirst, BootType, ToldType
  <2>6. ASSUME ~blurred PROVE Clear'
    BY <2>1, <2>2, <2>3, <2>4, <2>6 DEF BootInv, Clear, WorkerSeen, ChoiceSaved, Applying, blurred
  <2> QED
    BY <2>2, <2>4, <2>5, <2>6 DEF BootInv
<1> QED
  BY <1>1, <1>2

\* Every step of the first boot.
LEMMA BootSound ==
  ASSUME BootType, BootInv, Boot
  PROVE  BootType' /\ BootInv' /\ AccountStays
<1>1. CASE api_provision_start
  BY <1>1, StartSound
<1>2. ASSUME UNCHANGED <<disk, web, job, told>>
      PROVE  BootType' /\ BootInv' /\ AccountStays
  BY <1>2 DEF BootType, BootInv, AccountStays, Bounds, AccountFirst, Valid, Runs, Clear,
              WorkerSeen, ChoiceSaved
<1>3. CASE NetUp
  BY <1>2, <1>3 DEF NetUp
<1>4. CASE ProvisionTimesOut
  BY <1>4, WaitSound
<1>5. ASSUME NEW ok \in BOOLEAN, api_provision_poll(ok)
      PROVE  BootType' /\ BootInv' /\ AccountStays
  BY <1>5, WaitSound
<1>6. CASE Get
  BY <1>6, ReadSound DEF Get
<1>7. CASE Wizard
  BY <1>7, PostSound DEF Wizard
<1> QED
  BY <1>1, <1>3, <1>4, <1>5, <1>6, <1>7, DocumentAccountSound, DocumentSound, OwnerSound,
     ChangeSound, PostSound, WorkerSound, DeathSound DEF Boot, Boots

-----------------------------------------------------------------------------
(* The four parts together: a step of one leaves the others alone.          *)
WebInv == AccountType /\ SessionInv /\ ClockInv /\ ResetInv /\ BootType /\ BootInv


\* A part that is left alone keeps what holds of it.
LEMMA PartsApart ==
  /\ AccountType /\ SessionInv /\ UNCHANGED accountVars => AccountType' /\ SessionInv'
  /\ ClockInv /\ UNCHANGED clk => ClockInv'
  /\ ResetInv /\ UNCHANGED resetVars => ResetInv'
  /\ BootType /\ BootInv /\ UNCHANGED bootVars => BootType' /\ BootInv' /\ AccountStays
<1>1. AccountType /\ SessionInv /\ UNCHANGED accountVars => AccountType' /\ SessionInv'
  BY DEF accountVars, AccountType, SessionInv, OneUser, Held, le_auth_session, Live
<1>2. ClockInv /\ UNCHANGED clk => ClockInv'
  BY DEF ClockInv, ClockHonest
<1>3. ResetInv /\ UNCHANGED resetVars => ResetInv'
  BY DEF resetVars, ResetInv
<1>4. BootType /\ BootInv /\ UNCHANGED bootVars => BootType' /\ BootInv' /\ AccountStays
  BY DEF bootVars, BootType, BootInv, AccountStays, Bounds, AccountFirst, Valid, Runs, Clear,
         WorkerSeen, ChoiceSaved
<1> QED
  BY <1>1, <1>2, <1>3, <1>4

\* The daemon starts on a device as it is found.
LEMMA WebStarts == Init => WebInv
<1> SUFFICES ASSUME Init PROVE WebInv
  OBVIOUS
<1>1. AccountType /\ SessionInv
  <2>1. Empty \in Entry /\ Empty.t = 0
    BY DEF Empty, Entry, Users
  <2> DEFINE none == [i \in Table |-> Empty]
  <2>2. none \in [Table -> Entry] /\ \A i \in Table : none[i] = Empty
    BY <2>1
  <2> HIDE DEF none
  <2>3. /\ db = [users |-> Users, sessions |-> none, https |-> TRUE]
        /\ kept = [users |-> Users, sessions |-> {}] /\ now = 0
        /\ past = [issued |-> 0, ended |-> {}, plain |-> {}, stale |-> {}, promised |-> {}]
    BY DEF Init, AccountsInit, none
  <2>4. AccountType
    BY <2>2, <2>3 DEF AccountType
  <2> QED
    BY <2>1, <2>2, <2>3, <2>4 DEF SessionInv, OneUser, Held
<1>2. ClockInv
  BY DEF Init, ClockInit, ClockInv, ClockHonest
<1>3. ResetInv
  <2>1. Owners \subseteq Services
    BY DEF Owners
  <2> QED
    BY <2>1, TableOfServices DEF Init, ResetInit, ResetInv, ResetType, ResetPlaces
<1>4. BootType /\ BootInv
  <2>1. PICK x \in Setups : BootInit(x.doc, x.marker, x.account)
    BY DEF Init
  <2>2. Defaults \in Config /\ Defaults.rest = 0
    BY DEF Defaults, Config
  <2> HIDE DEF Defaults
  <2>3. /\ disk \in DiskType /\ disk.saved = Defaults /\ (Valid => disk.account # "none")
    BY <2>1, <2>2 DEF BootInit, DiskType, Valid, Accounts
  <2>4. /\ web \in WebType /\ web.pc = "down" /\ web.mem = Defaults
        /\ ~web.completed /\ ~web.created /\ ~web.pending
    BY <2>1, <2>2 DEF BootInit, WebDown, WebType, Accounts
  <2>5. job \in JobType /\ job.mem = Defaults /\ job.state = "none"
    BY <2>1, <2>2 DEF BootInit, NoJob, JobType
  <2>6. told \in ToldType /\ told.wizard = "none" /\ told.rest = 0 /\ told.tried = 0
    BY <2>1 DEF BootInit, ToldType
  <2> QED
    BY <2>2, <2>3, <2>4, <2>5, <2>6 DEF BootType, BootInv, Bounds, AccountFirst, Clear, WorkerSeen,
                                        ChoiceSaved, Runs
<1> QED
  BY <1>1, <1>2, <1>3, <1>4 DEF WebInv

\* A step, or none, keeps the four invariants and the account.
LEMMA WebStep == WebInv /\ [Next]_vars => WebInv' /\ AccountStays
<1> SUFFICES ASSUME WebInv, [Next]_vars PROVE WebInv' /\ AccountStays
  OBVIOUS
<1> USE DEF WebInv
<1>1. CASE Boot
  <2>1. UNCHANGED <<accountVars, resetVars, clk>>
    BY <1>1 DEF Boot, Boots
  <2> QED
    BY <1>1, <2>1, BootSound, PartsApart
<1>2. CASE Account
  <2>1. UNCHANGED <<bootVars, resetVars, clk>>
    BY <1>2 DEF Account, Signs
  <2> QED
    BY <1>2, <2>1, AccountSound, PartsApart
<1>3. CASE Reset
  <2>1. UNCHANGED <<bootVars, accountVars, clk>>
    BY <1>3 DEF Reset, Resets
  <2> QED
    BY <1>3, <2>1, ResetSound, PartsApart
<1>4. CASE Clock
  <2>1. UNCHANGED <<bootVars, accountVars, resetVars>>
    BY <1>4 DEF Clock, Clocks
  <2> QED
    BY <1>4, <2>1, ClockSound, PartsApart
<1>5. CASE UNCHANGED vars
  <2>1. UNCHANGED <<bootVars, accountVars, resetVars, clk>>
    BY <1>5 DEF vars
  <2> QED
    BY <2>1, PartsApart
<1> QED
  BY <1>1, <1>2, <1>3, <1>4, <1>5 DEF Next

\* A session ended, stale or expired is never honoured, and one promised is
\* until it ends, whatever the log-ins, restarts and failing saves.
THEOREM SessionsAlwaysHonest == Spec => []SessionsHonest
<1>1. WebInv => SessionsHonest
  BY DEF WebInv, SessionInv, SessionsHonest, le_auth_session, Live
<1> QED
  BY <1>1, WebStarts, WebStep, PTL DEF Spec

\* The device reboots from a reset only without its owner's files, and the
\* clock is called synchronized only after an ntpd that succeeded.
THEOREM AlwaysWipedAndTimed == Spec => []WipedAndTimed
<1>1. WebInv => WipedAndTimed
  BY DEF WebInv, ResetInv, ClockInv, WipedAndTimed, ResetClean
<1> QED
  BY <1>1, WebStarts, WebStep, PTL DEF Spec

\* What the wizard or a later request was told is saved stays in the file,
\* completion is recorded only for a device with an account, and an account
\* is never replaced.
THEOREM WizardAlwaysKept == Spec => WizardKept
<1>1. WebInv => WizardSaved
  BY DEF WebInv, BootInv, AccountFirst, Clear, ChoiceSaved, WizardSaved, Chosen
<1>2. WebInv' => WizardSaved'
  BY <1>1, PTL
<1>3. WebInv /\ [Next]_vars => [WizardSaved' /\ (disk.account # "none" => disk.account' = disk.account)]_vars
  BY <1>2, WebStep DEF AccountStays
<1> QED
  BY <1>3, WebStarts, WebStep, PTL DEF Spec, WizardKept
=============================================================================
