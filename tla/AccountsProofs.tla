--------------------------- MODULE AccountsProofs ---------------------------
(* Theorems about Accounts, for any requests, emails and codes.  The table  *)
(* only grows and its rows' versions only go up (Grows), so that what a     *)
(* request knows of its row stays true while others run (Keeps); that       *)
(* leaves, for each step, the request that takes it and the row it writes.  *)
EXTENDS Accounts, SequenceTheorems, TLAPS

(* The inductive invariant *)

\* What is known of a request by what it carries: the code it came with, and
\* the account it has read.
ReqInv(q) ==
    /\ q.pc \in {"consuming", "finding"} =>
          <<q.email, q.code>> \in presented \cap issued
    /\ q.pc = "saving" =>
          /\ q.copy.verified => Proved(q.id)
          /\ q.copy.version <= rows[q.id].version
          /\ q.copy.version = rows[q.id].version =>
                rows[q.id].live /\ (rows[q.id].verified => q.copy.verified)

RequestsInv == \A r \in Reqs : req[r] \in Request /\ ReqInv(req[r])

StoredIsIssued ==
    \A e \in Emails : codes[e] # NoCode => <<e, codes[e]>> \in issued

EmailIsHeld == \A i \in Ids : <<i, rows[i].email>> \in held

IInv ==
    /\ TypeOK
    /\ RequestsInv
    /\ StoredIsIssued
    /\ EmailIsHeld
    /\ UniqueEmails
    /\ VerifiedByItsCode

\* What every step does to the table and to the histories.
Grows ==
    /\ rows' \in Seq(Row) /\ Len(rows) <= Len(rows')
    /\ \A i \in Ids :
          /\ rows[i].version <= rows'[i].version
          /\ rows'[i].version = rows[i].version => rows'[i] = rows[i]
    /\ held \subseteq held' /\ issued \subseteq issued'
    /\ presented \subseteq presented'

\* Proved and ReqInv of the state a step leads to, of a value that has no prime.
ProvedNext(i) == \E e \in Emails, c \in Codes :
    <<i, e>> \in held' /\ <<e, c>> \in presented' \cap issued'

ReqInvNext(q) ==
    /\ q.pc \in {"consuming", "finding"} =>
          <<q.email, q.code>> \in presented' \cap issued'
    /\ q.pc = "saving" =>
          /\ q.copy.verified => ProvedNext(q.id)
          /\ q.copy.version <= rows'[q.id].version
          /\ q.copy.version = rows'[q.id].version =>
                rows'[q.id].live /\ (rows'[q.id].verified => q.copy.verified)

LEMMA RowFields ==
    ASSUME NEW row \in Row
    PROVE  /\ row.email \in Emails /\ row.verified \in BOOLEAN
           /\ row.live \in BOOLEAN /\ row.version \in Nat
  BY DEF Row

LEMMA RowType ==
    ASSUME NEW t \in Seq(Row), NEW i \in 1 .. Len(t)
    PROVE  t[i] \in Row
  BY ElementOfSeq

LEMMA NewRowType ==
    ASSUME NEW e \in Emails
    PROVE  NewRow(e) \in Row /\ NewRow(e).email = e /\ ~NewRow(e).verified
  BY DEF NewRow, Row

LEMMA ProvedStays ==
    ASSUME Grows, NEW i, Proved(i)
    PROVE  ProvedNext(i)
  BY DEF Grows, Proved, ProvedNext

LEMMA IdsGrow ==
    ASSUME rows \in Seq(Row), Grows
    PROVE  Ids \subseteq Ids'
  <1>1. Len(rows) \in Nat /\ Len(rows') \in Nat /\ Len(rows) <= Len(rows')
    BY LenProperties DEF Grows
  <1> QED
    BY <1>1 DEF Ids

\* A request that does not move keeps what it knows.
LEMMA Keeps ==
    ASSUME TypeOK, Grows, NEW q \in Request, ReqInv(q)
    PROVE  q \in Request' /\ ReqInvNext(q)
  <1>1. Ids \subseteq Ids'
    BY IdsGrow DEF TypeOK
  <1>2. q \in Request'
    BY <1>1 DEF Request
  <1>3. q.pc \in {"consuming", "finding"} =>
            <<q.email, q.code>> \in presented' \cap issued'
    BY DEF ReqInv, Grows
  <1>4. ASSUME q.pc = "saving"
        PROVE  /\ q.copy.verified => ProvedNext(q.id)
               /\ q.copy.version <= rows'[q.id].version
               /\ q.copy.version = rows'[q.id].version =>
                     rows'[q.id].live /\ (rows'[q.id].verified => q.copy.verified)
    <2>1. q.id \in Ids /\ q.copy \in Row
      BY <1>4 DEF Request
    <2>2. q.copy.verified => ProvedNext(q.id)
      BY <1>4, <2>1, ProvedStays DEF ReqInv
    <2>3. rows[q.id] \in Row /\ rows'[q.id] \in Row
      BY <2>1, <1>1, RowType DEF Grows, TypeOK, Ids
    <2>4. /\ q.copy.version \in Nat /\ rows[q.id].version \in Nat
          /\ rows'[q.id].version \in Nat
      BY <2>1, <2>3, RowFields
    <2>5. /\ q.copy.version <= rows[q.id].version
          /\ rows[q.id].version <= rows'[q.id].version
          /\ rows'[q.id].version = rows[q.id].version => rows'[q.id] = rows[q.id]
      BY <1>4, <2>1 DEF ReqInv, Grows
    <2>6. q.copy.version = rows'[q.id].version => rows'[q.id] = rows[q.id]
      BY <2>4, <2>5
    <2> QED
      BY <1>4, <2>2, <2>4, <2>5, <2>6 DEF ReqInv
  <1> QED
    BY <1>2, <1>3, <1>4 DEF ReqInvNext

\* So it is enough to look at the request that moves.
LEMMA GotoInv ==
    ASSUME TypeOK, RequestsInv, Grows, NEW r \in Reqs, NEW s,
           Goto(r, s), s \in Request', ReqInvNext(s)
    PROVE  req' \in [Reqs -> Request'] /\ RequestsInv'
  <1>1. \A x \in Reqs : req[x] \in Request' /\ ReqInvNext(req[x])
    BY Keeps DEF RequestsInv
  <1>2. req \in [Reqs -> Request']
    BY <1>1 DEF TypeOK
  <1>3. req' = [req EXCEPT ![r] = s]
    BY DEF Goto
  <1>4. req' \in [Reqs -> Request']
    BY <1>2, <1>3
  <1>5. \A x \in Reqs : req'[x] = IF x = r THEN s ELSE req[x]
    BY <1>2, <1>3
  <1>6. \A x \in Reqs : req'[x] \in Request' /\ ReqInvNext(req'[x])
    BY <1>1, <1>5
  <1> QED
    BY <1>4, <1>6 DEF RequestsInv, ReqInv, ReqInvNext, Proved, ProvedNext

-----------------------------------------------------------------------------
(* What the calls of the stores do to the table *)

TableInv ==
    /\ rows \in Seq(Row)
    /\ held \subseteq Ids \X Emails
    /\ EmailIsHeld
    /\ UniqueEmails
    /\ VerifiedByItsCode

HistoriesGrow == issued \subseteq issued' /\ presented \subseteq presented'

LEMMA SameTable ==
    ASSUME TableInv, HistoriesGrow, UNCHANGED <<rows, held>>
    PROVE  Grows /\ TableInv'
  <1>1. Grows
    <2>1. rows' \in Seq(Row) /\ Len(rows) <= Len(rows')
      BY LenProperties DEF TableInv
    <2>2. \A i \in Ids : rows[i].version \in Nat
      BY RowType, RowFields DEF TableInv, Ids
    <2> QED
      BY <2>1, <2>2 DEF Grows, HistoriesGrow
  <1>2. \A i \in Ids : Proved(i) => ProvedNext(i)
    BY <1>1, ProvedStays
  <1>3. VerifiedByItsCode'
    BY <1>2 DEF TableInv, VerifiedByItsCode, Ids, Proved, ProvedNext
  <1> QED
    BY <1>1, <1>3 DEF TableInv, EmailIsHeld, UniqueEmails, Ids

LEMMA InsertInv ==
    ASSUME TableInv, HistoriesGrow, NEW e \in Emails, Insert(e)
    PROVE  /\ Grows /\ TableInv'
           /\ Len(rows) + 1 \in Ids'
           /\ \A i \in Ids : rows'[i] = rows[i]
  <1> DEFINE n == Len(rows) + 1
  <1>1. rows \in Seq(Row) /\ NewRow(e) \in Row /\ Len(rows) \in Nat
    BY NewRowType, LenProperties DEF TableInv
  <1>2. /\ rows' \in Seq(Row) /\ Len(rows') = n
        /\ \A i \in 1 .. Len(rows) : rows'[i] = rows[i]
        /\ rows'[n] = NewRow(e)
    BY <1>1, AppendProperties DEF Insert
  <1>3. Ids \subseteq Ids' /\ n \in Ids' /\ Ids' = Ids \cup {n} /\ n \notin Ids
    BY <1>1, <1>2 DEF Ids
  <1>4. Grows
    <2>1. \A i \in Ids : rows[i].version \in Nat
      BY RowType, RowFields DEF TableInv, Ids
    <2> QED
      BY <1>1, <1>2, <2>1 DEF Grows, HistoriesGrow, Insert, Ids
  <1>5. held' \subseteq Ids' \X Emails
    BY <1>3 DEF Insert, TableInv
  <1>6. EmailIsHeld'
    <2>1. \A i \in Ids' : <<i, rows'[i].email>> \in held'
      BY <1>2, <1>3, NewRowType DEF EmailIsHeld, TableInv, Insert, Ids
    <2> QED
      BY <2>1 DEF EmailIsHeld
  <1>7. UniqueEmails'
    <2>1. \A i \in Ids : rows[i].email # e
      BY DEF Insert, Taken
    <2>2. ASSUME NEW i \in Ids', NEW j \in Ids', rows'[i].email = rows'[j].email
          PROVE  i = j
      <3>1. CASE i \in Ids /\ j \in Ids
        BY <1>2, <2>2, <3>1 DEF TableInv, UniqueEmails, Ids
      <3>2. CASE i = n \/ j = n
        <4>1. \A k \in Ids : rows'[k].email # e
          BY <1>2, <2>1 DEF Ids
        <4>2. rows'[n].email = e
          BY <1>2, NewRowType
        <4> QED
          BY <1>3, <2>2, <3>2, <4>1, <4>2
      <3> QED
        BY <1>3, <3>1, <3>2
    <2> QED
      BY <2>2 DEF UniqueEmails
  <1>8. \A i \in Ids' : rows'[i].verified => ProvedNext(i)
    <2>1. \A i \in Ids : Proved(i) => ProvedNext(i)
      BY <1>4, ProvedStays
    <2> QED
      BY <1>2, <1>3, <2>1, NewRowType DEF TableInv, VerifiedByItsCode, Ids
  <1>9. VerifiedByItsCode'
    BY <1>8 DEF VerifiedByItsCode, Proved, ProvedNext
  <1> QED
    BY <1>2, <1>3, <1>4, <1>5, <1>6, <1>7, <1>9 DEF TableInv, Ids

LEMMA WriteInv ==
    ASSUME rows \in Seq(Row), NEW i \in Ids, NEW row \in Row, Write(i, row),
           held \subseteq held', HistoriesGrow
    PROVE  /\ Grows /\ Ids' = Ids
           /\ \A j \in Ids \ {i} : rows'[j] = rows[j]
           /\ rows'[i].email = row.email
           /\ rows'[i].verified = row.verified /\ rows'[i].live = row.live
  <1> DEFINE new == [row EXCEPT !.version = rows[i].version + 1]
  <1>1. \A j \in Ids : rows[j].version \in Nat
    BY RowType, RowFields DEF Ids
  <1>2. /\ new \in Row /\ new.email = row.email /\ new.verified = row.verified
        /\ new.live = row.live /\ new.version = rows[i].version + 1
    BY <1>1 DEF Row
  <1>3. rows' = [rows EXCEPT ![i] = new]
    BY DEF Write
  <1>4. /\ rows' \in Seq(Row) /\ Len(rows') = Len(rows)
        /\ \A j \in Ids : rows'[j] = IF j = i THEN new ELSE rows[j]
    BY <1>2, <1>3, ExceptSeq DEF Ids
  <1>5. \A j \in Ids : /\ rows[j].version <= rows'[j].version
                       /\ rows'[j].version = rows[j].version => rows'[j] = rows[j]
    <2> HIDE DEF new
    <2> QED
      BY <1>1, <1>2, <1>4
  <1>6. Len(rows) <= Len(rows')
    BY <1>4, LenProperties
  <1>7. Grows
    BY <1>4, <1>5, <1>6 DEF Grows, HistoriesGrow
  <1> QED
    BY <1>2, <1>4, <1>7 DEF Ids

LEMMA DeleteInv ==
    ASSUME TableInv, HistoriesGrow, NEW i \in Ids, Delete(i), UNCHANGED held
    PROVE  /\ Grows /\ TableInv'
           /\ \A j \in Ids : /\ rows'[j].verified = rows[j].verified
                             /\ rows'[j].live => rows[j].live
  <1> DEFINE new == [rows[i] EXCEPT !.live = FALSE]
  <1>1. rows[i] \in Row /\ rows \in Seq(Row)
    BY RowType DEF TableInv, Ids
  <1>2. new \in Row /\ new.email = rows[i].email /\ new.verified = rows[i].verified
        /\ ~new.live
    BY <1>1 DEF Row
  <1>3. /\ Grows /\ Ids' = Ids
        /\ \A j \in Ids \ {i} : rows'[j] = rows[j]
        /\ rows'[i].email = new.email
        /\ rows'[i].verified = new.verified /\ rows'[i].live = new.live
    BY <1>1, <1>2, WriteInv DEF Delete
  <1>4. \A j \in Ids : /\ rows'[j].email = rows[j].email
                       /\ rows'[j].verified = rows[j].verified
                       /\ rows'[j].live => rows[j].live
    BY <1>2, <1>3
  <1>5. EmailIsHeld' /\ UniqueEmails'
    BY <1>3, <1>4 DEF EmailIsHeld, UniqueEmails, TableInv
  <1>6. \A j \in Ids' : rows'[j].verified => ProvedNext(j)
    BY <1>3, <1>4, ProvedStays DEF TableInv, VerifiedByItsCode
  <1> QED
    BY <1>3, <1>4, <1>5, <1>6
       DEF TableInv, VerifiedByItsCode, Proved, ProvedNext, Grows

LEMMA SaveInv ==
    ASSUME TableInv, HistoriesGrow, NEW i \in Ids, NEW copy \in Row,
           copy.verified => Proved(i), Save(i, copy)
    PROVE  /\ Grows /\ TableInv' /\ Ids' = Ids
           /\ \A j \in Ids \ {i} : rows'[j] = rows[j]
           /\ rows'[i].verified = copy.verified
           /\ rows'[i].email = copy.email
  <1>1. /\ Grows /\ Ids' = Ids
        /\ \A j \in Ids \ {i} : rows'[j] = rows[j]
        /\ rows'[i].email = copy.email /\ rows'[i].verified = copy.verified
    BY WriteInv DEF Save, TableInv
  <1>2. copy.email \in Emails
    BY RowFields
  <1>3. EmailIsHeld' /\ held' \subseteq Ids' \X Emails
    BY <1>1, <1>2 DEF EmailIsHeld, TableInv, Save
  <1>4. UniqueEmails'
    <2>1. \A j \in Ids \ {i} : rows'[j].email # copy.email
      BY <1>1 DEF Save
    <2> QED
      BY <1>1, <2>1 DEF UniqueEmails, TableInv
  <1>5. \A j \in Ids' : rows'[j].verified => ProvedNext(j)
    BY <1>1, ProvedStays DEF TableInv, VerifiedByItsCode
  <1> QED
    BY <1>1, <1>3, <1>4, <1>5
       DEF TableInv, VerifiedByItsCode, Proved, ProvedNext, Grows

-----------------------------------------------------------------------------
(* The invariance proof *)

CodesInv ==
    /\ codes \in [Emails -> Codes \cup {NoCode}]
    /\ issued \subseteq Emails \X Codes
    /\ presented \subseteq Emails \X Codes
    /\ StoredIsIssued

LEMMA IInvParts ==
    IInv <=> /\ TableInv /\ CodesInv /\ RequestsInv
             /\ req \in [Reqs -> Request]
  BY DEF IInv, TypeOK, TableInv, CodesInv

LEMMA SameCodes ==
    ASSUME CodesInv, UNCHANGED <<codes, issued, presented>>
    PROVE  CodesInv' /\ HistoriesGrow
  BY DEF CodesInv, StoredIsIssued, HistoriesGrow

LEMMA StoreCodeInv ==
    ASSUME CodesInv, NEW e \in Emails, StoreCode(e), UNCHANGED presented
    PROVE  CodesInv' /\ HistoriesGrow
  BY CodesAssumption DEF StoreCode, CodesInv, StoredIsIssued, HistoriesGrow

LEMMA ForgetCodeInv ==
    ASSUME CodesInv, NEW e \in Emails, codes' = [codes EXCEPT ![e] = NoCode],
           UNCHANGED <<issued, presented>>
    PROVE  CodesInv' /\ HistoriesGrow
  BY DEF CodesInv, StoredIsIssued, HistoriesGrow

LEMMA MoveInv ==
    ASSUME IInv, Grows, TableInv', CodesInv', NEW r \in Reqs, NEW s,
           Goto(r, s), s \in Request', ReqInvNext(s)
    PROVE  IInv'
  <1>1. TypeOK /\ RequestsInv
    BY DEF IInv
  <1>2. req' \in [Reqs -> Request'] /\ RequestsInv'
    BY <1>1, GotoInv
  <1> QED
    BY <1>2 DEF IInv, TypeOK, TableInv, CodesInv

LEMMA AnswerInv ==
    ASSUME IInv, Grows, TableInv', CodesInv', NEW r \in Reqs, Answer(r)
    PROVE  IInv'
  <1>1. [pc |-> "answered"] \in Request' /\ ReqInvNext([pc |-> "answered"])
    BY DEF Request, ReqInvNext
  <1> QED
    BY <1>1, MoveInv DEF Answer

LEMMA AtRequest ==
    ASSUME IInv, NEW r \in Reqs
    PROVE  /\ At(r, "creating") => req[r].email \in Emails
           /\ At(r, "mailing") => req[r].email \in Emails /\ req[r].id \in Ids
           /\ At(r, "undoing") => req[r].id \in Ids
           /\ At(r, "consuming") \/ At(r, "finding") =>
                 /\ req[r].email \in Emails /\ req[r].code \in Codes
                 /\ <<req[r].email, req[r].code>> \in presented \cap issued
           /\ At(r, "saving") =>
                 /\ req[r].id \in Ids /\ req[r].copy \in Row
                 /\ req[r].copy.verified => Proved(req[r].id)
                 /\ req[r].copy.version <= rows[req[r].id].version
                 /\ req[r].copy.version = rows[req[r].id].version =>
                       /\ rows[req[r].id].live
                       /\ rows[req[r].id].verified => req[r].copy.verified
  <1>1. req[r] \in Request /\ ReqInv(req[r])
    BY DEF IInv, RequestsInv
  <1> QED
    BY <1>1 DEF At, Request, ReqInv

LEMMA RegisterUserInv ==
    ASSUME IInv, NEW r \in Reqs, RegisterUser(r)
    PROVE  IInv'
  <1>1. CodesInv' /\ HistoriesGrow
    BY SameCodes, IInvParts DEF RegisterUser
  <1>2. Grows /\ TableInv'
    BY <1>1, SameTable, IInvParts DEF RegisterUser
  <1>3. CASE Answer(r)
    BY <1>1, <1>2, <1>3, AnswerInv
  <1>4. ASSUME NEW e \in Emails, Goto(r, [pc |-> "creating", email |-> e])
        PROVE  IInv'
    <2>1. /\ [pc |-> "creating", email |-> e] \in Request'
          /\ ReqInvNext([pc |-> "creating", email |-> e])
      BY DEF Request, ReqInvNext
    <2> QED
      BY <1>1, <1>2, <1>4, <2>1, MoveInv
  <1> QED
    BY <1>3, <1>4 DEF RegisterUser

LEMMA CreateUserInv ==
    ASSUME IInv, NEW r \in Reqs, CreateUser(r)
    PROVE  IInv' /\ \A i \in Ids : ~Undone(i)
  <1>1. CodesInv' /\ HistoriesGrow
    BY SameCodes, IInvParts DEF CreateUser
  <1>2. req[r].email \in Emails
    BY AtRequest DEF CreateUser
  <1>3. CASE Insert(req[r].email)
    <2>1. /\ Grows /\ TableInv' /\ Len(rows) + 1 \in Ids'
          /\ \A i \in Ids : rows'[i] = rows[i]
      BY <1>1, <1>2, <1>3, InsertInv, IInvParts
    <2>2. CASE Answer(r)
      BY <1>1, <2>1, <2>2, AnswerInv DEF Undone
    <2>3. CASE Goto(r, [pc |-> "mailing", email |-> req[r].email,
                        id |-> Len(rows) + 1])
      <3>1. PICK s : s = [pc |-> "mailing", email |-> req[r].email,
                          id |-> Len(rows) + 1]
        OBVIOUS
      <3>2. s \in Request' /\ ReqInvNext(s)
        BY <1>2, <2>1, <3>1 DEF Request, ReqInvNext
      <3> QED
        BY <1>1, <2>1, <2>3, <3>1, <3>2, MoveInv DEF Undone
    <2> QED
      BY <1>3, <2>2, <2>3 DEF CreateUser, Answer, Goto
  <1>4. CASE Answer(r) /\ UNCHANGED <<rows, held>>
    <2>1. Grows /\ TableInv'
      BY <1>1, <1>4, SameTable, IInvParts
    <2> QED
      BY <1>1, <1>4, <2>1, AnswerInv DEF Undone
  <1> QED
    BY <1>3, <1>4 DEF CreateUser

LEMMA MailCodeInv ==
    ASSUME IInv, NEW r \in Reqs, MailCode(r)
    PROVE  IInv'
  <1>1. req[r].email \in Emails /\ req[r].id \in Ids
    BY AtRequest DEF MailCode
  <1>2. CodesInv' /\ HistoriesGrow
    BY <1>1, StoreCodeInv, SameCodes, IInvParts DEF MailCode
  <1>3. Grows /\ TableInv'
    BY <1>2, SameTable, IInvParts DEF MailCode
  <1>4. CASE Answer(r)
    BY <1>2, <1>3, <1>4, AnswerInv
  <1>5. CASE Goto(r, [pc |-> "undoing", id |-> req[r].id])
    <2>1. PICK s : s = [pc |-> "undoing", id |-> req[r].id]
      OBVIOUS
    <2>2. Ids \subseteq Ids'
      BY <1>3, IdsGrow, IInvParts DEF TableInv
    <2>3. s \in Request' /\ ReqInvNext(s)
      BY <1>1, <2>1, <2>2 DEF Request, ReqInvNext
    <2> QED
      BY <1>2, <1>3, <1>5, <2>1, <2>3, MoveInv
  <1> QED
    BY <1>4, <1>5 DEF MailCode

LEMMA DeletingInv ==
    ASSUME IInv, NEW r \in Reqs, UndoCreate(r) \/ DeleteUser(r)
    PROVE  IInv' /\ \A i \in Ids : ~Undone(i)
  <1>1. CodesInv' /\ HistoriesGrow
    BY SameCodes, IInvParts DEF UndoCreate, DeleteUser
  <1>2. ASSUME NEW i \in Ids, Delete(i)
        PROVE  Grows /\ TableInv' /\ \A j \in Ids : ~Undone(j)
    <2>1. UNCHANGED held
      BY DEF UndoCreate, DeleteUser
    <2> QED
      BY <1>1, <1>2, <2>1, DeleteInv, IInvParts DEF Undone
  <1>3. ASSUME UNCHANGED rows
        PROVE  Grows /\ TableInv' /\ \A j \in Ids : ~Undone(j)
    BY <1>1, <1>3, SameTable, IInvParts DEF UndoCreate, DeleteUser, Undone
  <1>4. Grows /\ TableInv' /\ \A j \in Ids : ~Undone(j)
    BY <1>2, <1>3, AtRequest DEF UndoCreate, DeleteUser
  <1> QED
    BY <1>1, <1>4, AnswerInv DEF UndoCreate, DeleteUser

LEMMA VerifyUserEmailInv ==
    ASSUME IInv, NEW r \in Reqs, VerifyUserEmail(r)
    PROVE  IInv'
  <1>1. PICK e \in Emails, c \in Codes :
            \/ /\ codes[e] = c
               /\ Goto(r, [pc |-> "consuming", email |-> e, code |-> c])
               /\ presented' = presented \cup {<<e, c>>}
            \/ Answer(r) /\ UNCHANGED presented
    BY DEF VerifyUserEmail
  <1>2. CodesInv' /\ HistoriesGrow
    BY <1>1, IInvParts
       DEF VerifyUserEmail, CodesInv, StoredIsIssued, HistoriesGrow
  <1>3. Grows /\ TableInv'
    BY <1>2, SameTable, IInvParts DEF VerifyUserEmail
  <1>4. CASE codes[e] = c /\ Goto(r, [pc |-> "consuming", email |-> e, code |-> c])
             /\ presented' = presented \cup {<<e, c>>}
    <2>1. PICK s : s = [pc |-> "consuming", email |-> e, code |-> c]
      OBVIOUS
    <2>2. <<e, c>> \in issued'
      BY <1>4, CodesAssumption DEF VerifyUserEmail, IInv, StoredIsIssued
    <2>3. s \in Request' /\ ReqInvNext(s)
      BY <1>4, <2>1, <2>2 DEF Request, ReqInvNext
    <2> QED
      BY <1>2, <1>3, <1>4, <2>1, <2>3, MoveInv
  <1>5. CASE Answer(r)
    BY <1>2, <1>3, <1>5, AnswerInv
  <1> QED
    BY <1>1, <1>4, <1>5

LEMMA ConsumeCodeInv ==
    ASSUME IInv, NEW r \in Reqs, ConsumeCode(r)
    PROVE  IInv'
  <1>1. /\ req[r].email \in Emails /\ req[r].code \in Codes
        /\ <<req[r].email, req[r].code>> \in presented \cap issued
    BY AtRequest DEF ConsumeCode
  <1>2. CodesInv' /\ HistoriesGrow
    BY <1>1, ForgetCodeInv, SameCodes, IInvParts DEF ConsumeCode
  <1>3. Grows /\ TableInv'
    BY <1>2, SameTable, IInvParts DEF ConsumeCode
  <1>4. PICK s : s = [req[r] EXCEPT !.pc = "finding"]
    OBVIOUS
  <1>5. req[r] \in [pc : {"consuming", "finding"}, email : Emails, code : Codes]
    BY DEF ConsumeCode, At, IInv, RequestsInv, Request
  <1>6. /\ s \in [pc : {"consuming", "finding"}, email : Emails, code : Codes]
        /\ s.pc = "finding" /\ s.email = req[r].email /\ s.code = req[r].code
    BY <1>4, <1>5
  <1>7. s \in Request'
    BY <1>6 DEF Request
  <1>8. ReqInvNext(s)
    BY <1>1, <1>2, <1>6 DEF ReqInvNext, HistoriesGrow
  <1> QED
    BY <1>2, <1>3, <1>4, <1>7, <1>8, MoveInv DEF ConsumeCode

\* A request that has read a row and will save a copy of it.
LEMMA LoadInv ==
    ASSUME IInv, UNCHANGED <<rows, codes, held, issued, presented>>,
           NEW r \in Reqs, NEW i \in Ids, NEW copy \in Row, rows[i].live,
           copy.version = rows[i].version,
           rows[i].verified => copy.verified, copy.verified => Proved(i),
           Goto(r, [pc |-> "saving", id |-> i, copy |-> copy])
    PROVE  IInv'
  <1>1. CodesInv' /\ HistoriesGrow
    BY SameCodes, IInvParts
  <1>2. Grows /\ TableInv'
    BY <1>1, SameTable, IInvParts
  <1>3. PICK s : s = [pc |-> "saving", id |-> i, copy |-> copy]
    OBVIOUS
  <1>4. i \in Ids' /\ s \in Request'
    BY <1>3 DEF Request, Ids
  <1>5. ReqInvNext(s)
    <2>1. copy.verified => ProvedNext(i)
      BY <1>2, ProvedStays
    <2>2. copy.version \in Nat
      BY RowFields
    <2> QED
      BY <1>3, <2>1, <2>2 DEF ReqInvNext
  <1> QED
    BY <1>1, <1>2, <1>3, <1>4, <1>5, MoveInv

LEMMA FindToVerifyInv ==
    ASSUME IInv, NEW r \in Reqs, FindToVerify(r)
    PROVE  IInv'
  <1>1. CASE Answer(r)
    <2>1. CodesInv' /\ HistoriesGrow
      BY SameCodes, IInvParts DEF FindToVerify
    <2>2. Grows /\ TableInv'
      BY <2>1, SameTable, IInvParts DEF FindToVerify
    <2> QED
      BY <1>1, <2>1, <2>2, AnswerInv
  <1>2. ASSUME NEW i \in Ids, Found(req[r].email, i),
               Goto(r, [pc |-> "saving", id |-> i,
                        copy |-> [rows[i] EXCEPT !.verified = TRUE]])
        PROVE  IInv'
    <2>1. PICK copy : copy = [rows[i] EXCEPT !.verified = TRUE]
      OBVIOUS
    <2>2. rows[i] \in Row
      BY RowType, IInvParts DEF TableInv, Ids
    <2>3. copy \in Row /\ copy.version = rows[i].version /\ copy.verified
      BY <2>1, <2>2 DEF Row
    <2>4. /\ req[r].email \in Emails /\ req[r].code \in Codes
          /\ <<req[r].email, req[r].code>> \in presented \cap issued
      BY AtRequest DEF FindToVerify
    <2>5. rows[i].live /\ rows[i].email = req[r].email
      BY <1>2 DEF Found
    <2>6. Proved(i)
      BY <2>4, <2>5 DEF Proved, IInv, EmailIsHeld
    <2> QED
      BY <1>2, <2>1, <2>3, <2>5, <2>6, LoadInv DEF FindToVerify
  <1> QED
    BY <1>1, <1>2 DEF FindToVerify

LEMMA UpdateUserInv ==
    ASSUME IInv, NEW r \in Reqs, UpdateUser(r)
    PROVE  IInv'
  <1>1. PICK i \in Ids, e \in Emails :
            /\ rows[i].live
            /\ Goto(r, [pc |-> "saving", id |-> i,
                        copy |-> [rows[i] EXCEPT !.email = e]])
    BY DEF UpdateUser
  <1>2. PICK copy : copy = [rows[i] EXCEPT !.email = e]
    OBVIOUS
  <1>3. rows[i] \in Row
    BY RowType, IInvParts DEF TableInv, Ids
  <1>4. /\ copy \in Row /\ copy.version = rows[i].version
        /\ copy.verified = rows[i].verified
    BY <1>2, <1>3 DEF Row
  <1>5. rows[i].verified => Proved(i)
    BY DEF IInv, VerifiedByItsCode
  <1> QED
    BY <1>1, <1>2, <1>4, <1>5, LoadInv DEF UpdateUser

\* A save that undoes something was made of a copy older than the row.
LEMMA SaveUserInv ==
    ASSUME IInv, NEW r \in Reqs, SaveUser(r)
    PROVE  /\ IInv'
           /\ \A i \in Ids : Undone(i) =>
                 /\ At(r, "saving") /\ req[r].id = i
                 /\ req[r].copy.version < rows[i].version
  <1> DEFINE k == req[r].id
             copy == req[r].copy
  <1>1. /\ k \in Ids /\ copy \in Row
        /\ copy.verified => Proved(k)
        /\ copy.version <= rows[k].version
        /\ copy.version = rows[k].version =>
              rows[k].live /\ (rows[k].verified => copy.verified)
    BY AtRequest DEF SaveUser
  <1>2. CodesInv' /\ HistoriesGrow
    BY SameCodes, IInvParts DEF SaveUser
  <1>3. CASE Save(k, copy)
    <2>1. /\ Grows /\ TableInv'
          /\ \A j \in Ids \ {k} : rows'[j] = rows[j]
          /\ rows'[k].verified = copy.verified
      BY <1>1, <1>2, <1>3, SaveInv, IInvParts
    <2>2. IInv'
      BY <1>2, <2>1, AnswerInv DEF SaveUser
    <2>3. rows[k].version \in Nat /\ copy.version \in Nat
      BY <1>1, RowType, RowFields, IInvParts DEF TableInv, Ids
    <2>4. ASSUME NEW i \in Ids, Undone(i)
          PROVE  i = k /\ copy.version < rows[k].version
      <3>1. i = k
        BY <2>1, <2>4 DEF Undone
      <3>2. copy.version # rows[k].version
        BY <1>1, <2>1, <2>4, <3>1 DEF Undone
      <3> QED
        BY <1>1, <2>3, <3>1, <3>2
    <2> QED
      BY <2>2, <2>4 DEF SaveUser
  <1>4. CASE UNCHANGED <<rows, held>>
    <2>1. Grows /\ TableInv'
      BY <1>2, <1>4, SameTable, IInvParts
    <2> QED
      BY <1>2, <1>4, <2>1, AnswerInv DEF SaveUser, Undone
  <1> QED
    BY <1>3, <1>4 DEF SaveUser

LEMMA CreateUnverifiedInv ==
    ASSUME IInv, NEW r \in Reqs, CreateUnverified(r)
    PROVE  IInv' /\ \A i \in Ids : ~Undone(i)
  <1>1. CodesInv' /\ HistoriesGrow
    BY SameCodes, IInvParts DEF CreateUnverified
  <1>2. /\ Grows /\ TableInv'
        /\ \A i \in Ids : rows'[i] = rows[i]
    BY <1>1, InsertInv, IInvParts DEF CreateUnverified
  <1> QED
    BY <1>1, <1>2, AnswerInv DEF CreateUnverified, Undone

LEMMA ResendCodeInv ==
    ASSUME IInv, NEW r \in Reqs, ResendCode(r)
    PROVE  IInv'
  <1>1. CodesInv' /\ HistoriesGrow
    BY StoreCodeInv, IInvParts DEF ResendCode
  <1>2. Grows /\ TableInv'
    BY <1>1, SameTable, IInvParts DEF ResendCode
  <1> QED
    BY <1>1, <1>2, AnswerInv DEF ResendCode

LEMMA AnswerAtOnceInv ==
    ASSUME IInv, NEW r \in Reqs, AnswerAtOnce(r)
    PROVE  IInv'
  <1>1. CodesInv' /\ HistoriesGrow
    BY SameCodes, IInvParts DEF AnswerAtOnce
  <1>2. Grows /\ TableInv'
    BY <1>1, SameTable, IInvParts DEF AnswerAtOnce
  <1> QED
    BY <1>1, <1>2, AnswerInv DEF AnswerAtOnce

LEMMA ExpireInv ==
    ASSUME IInv, NEW e \in Emails, Expire(e)
    PROVE  IInv'
  <1>1. CodesInv' /\ HistoriesGrow
    BY ForgetCodeInv, IInvParts DEF Expire
  <1>2. Grows /\ TableInv'
    BY <1>1, SameTable, IInvParts DEF Expire
  <1>3. TypeOK /\ RequestsInv
    BY DEF IInv
  <1>4. \A x \in Reqs : req'[x] \in Request' /\ ReqInvNext(req'[x])
    BY <1>2, <1>3, Keeps DEF RequestsInv, Expire
  <1>5. req' \in [Reqs -> Request'] /\ RequestsInv'
    BY <1>3, <1>4
       DEF TypeOK, Expire, RequestsInv, ReqInv, ReqInvNext, Proved, ProvedNext
  <1> QED
    BY <1>1, <1>2, <1>5 DEF IInv, TypeOK, TableInv, CodesInv

LEMMA RestartInv ==
    ASSUME IInv, Restart
    PROVE  IInv'
  <1>1. CodesInv' /\ HistoriesGrow
    BY SameCodes, IInvParts DEF Restart
  <1>2. Grows /\ TableInv'
    BY <1>1, SameTable, IInvParts DEF Restart
  <1>3. TypeOK /\ RequestsInv
    BY DEF IInv
  <1>4. \A x \in Reqs : req'[x] \in Request' /\ ReqInvNext(req'[x])
    <2>1. [pc |-> "answered"] \in Request' /\ ReqInvNext([pc |-> "answered"])
      BY DEF Request, ReqInvNext
    <2> QED
      BY <1>2, <1>3, <2>1, Keeps DEF RequestsInv, Restart
  <1>5. req' \in [Reqs -> Request'] /\ RequestsInv'
    BY <1>4 DEF Restart, RequestsInv, ReqInv, ReqInvNext, Proved, ProvedNext
  <1> QED
    BY <1>1, <1>2, <1>5 DEF IInv, TypeOK, TableInv, CodesInv

LEMMA InitInv == Init => IInv
  <1> SUFFICES ASSUME Init
               PROVE  IInv
    OBVIOUS
  <1>1. Ids = {}
    BY DEF Init, Ids
  <1>2. TypeOK
    BY DEF Init, TypeOK, Request
  <1>3. RequestsInv
    BY DEF Init, RequestsInv, Request, ReqInv
  <1> QED
    BY <1>1, <1>2, <1>3
       DEF Init, IInv, StoredIsIssued, EmailIsHeld, UniqueEmails, VerifiedByItsCode

\* A step that leaves the rows alone undoes nothing.
LEMMA QuietUndoesNothing ==
    ASSUME UNCHANGED rows
    PROVE  \A i \in Ids : ~Undone(i)
  BY DEF Undone

StaleOnly ==
    \A i \in Ids : Undone(i) =>
        \E r \in Reqs : /\ At(r, "saving") /\ req[r].id = i
                        /\ req[r].copy.version < rows[i].version

LEMMA StepInv == IInv /\ [Next]_vars => IInv' /\ StaleOnly
  <1> SUFFICES ASSUME IInv, [Next]_vars
               PROVE  IInv' /\ StaleOnly
    OBVIOUS
  <1>1. ASSUME NEW r \in Reqs, RegisterUser(r)
        PROVE  IInv' /\ StaleOnly
    BY <1>1, RegisterUserInv, QuietUndoesNothing DEF StaleOnly, RegisterUser
  <1>2. ASSUME NEW r \in Reqs, CreateUser(r)
        PROVE  IInv' /\ StaleOnly
    BY <1>2, CreateUserInv DEF StaleOnly
  <1>3. ASSUME NEW r \in Reqs, MailCode(r)
        PROVE  IInv' /\ StaleOnly
    BY <1>3, MailCodeInv, QuietUndoesNothing DEF StaleOnly, MailCode
  <1>4. ASSUME NEW r \in Reqs, UndoCreate(r) \/ DeleteUser(r)
        PROVE  IInv' /\ StaleOnly
    BY <1>4, DeletingInv DEF StaleOnly
  <1>5. ASSUME NEW r \in Reqs, VerifyUserEmail(r)
        PROVE  IInv' /\ StaleOnly
    BY <1>5, VerifyUserEmailInv, QuietUndoesNothing DEF StaleOnly, VerifyUserEmail
  <1>6. ASSUME NEW r \in Reqs, ConsumeCode(r)
        PROVE  IInv' /\ StaleOnly
    BY <1>6, ConsumeCodeInv, QuietUndoesNothing DEF StaleOnly, ConsumeCode
  <1>7. ASSUME NEW r \in Reqs, FindToVerify(r)
        PROVE  IInv' /\ StaleOnly
    BY <1>7, FindToVerifyInv, QuietUndoesNothing DEF StaleOnly, FindToVerify
  <1>8. ASSUME NEW r \in Reqs, UpdateUser(r)
        PROVE  IInv' /\ StaleOnly
    BY <1>8, UpdateUserInv, QuietUndoesNothing DEF StaleOnly, UpdateUser
  <1>9. ASSUME NEW r \in Reqs, SaveUser(r)
        PROVE  IInv' /\ StaleOnly
    BY <1>9, SaveUserInv DEF StaleOnly
  <1>10. ASSUME NEW r \in Reqs, CreateUnverified(r)
         PROVE  IInv' /\ StaleOnly
    BY <1>10, CreateUnverifiedInv DEF StaleOnly
  <1>11. ASSUME NEW r \in Reqs, ResendCode(r)
         PROVE  IInv' /\ StaleOnly
    BY <1>11, ResendCodeInv, QuietUndoesNothing DEF StaleOnly, ResendCode
  <1>12. ASSUME NEW e \in Emails, Expire(e)
         PROVE  IInv' /\ StaleOnly
    BY <1>12, ExpireInv, QuietUndoesNothing DEF StaleOnly, Expire
  <1>13. CASE Restart
    BY <1>13, RestartInv, QuietUndoesNothing DEF StaleOnly, Restart
  <1>14. ASSUME NEW r \in Reqs, AnswerAtOnce(r)
         PROVE  IInv' /\ StaleOnly
    BY <1>14, AnswerAtOnceInv, QuietUndoesNothing DEF StaleOnly, AnswerAtOnce
  <1>15. CASE UNCHANGED vars
    <2>1. UNCHANGED <<rows, codes, req, held, issued, presented>>
      BY <1>15 DEF vars
    <2>2. IInv'
      BY <2>1 DEF IInv, TypeOK, Request, RequestsInv, ReqInv, StoredIsIssued,
                  EmailIsHeld, UniqueEmails, VerifiedByItsCode, Proved, Ids
    <2> QED
      BY <2>1, <2>2, QuietUndoesNothing DEF StaleOnly
  <1> QED
    BY <1>1, <1>2, <1>3, <1>4, <1>5, <1>6, <1>7, <1>8, <1>9, <1>10, <1>11,
       <1>12, <1>13, <1>14, <1>15 DEF Next, Handle

LEMMA Invariance == Spec => []IInv
  BY InitInv, StepInv, PTL DEF Spec

\* A request always works on a row of the table.
THEOREM TypeCorrect == Spec => []TypeOK
  <1>1. IInv => TypeOK
    BY DEF IInv
  <1> QED
    BY <1>1, Invariance, PTL

\* No two accounts ever have one email, however registrations, updates and
\* deletions interleave and fail.
THEOREM EmailsAreUnique == Spec => []UniqueEmails
  <1>1. IInv => UniqueEmails
    BY DEF IInv
  <1> QED
    BY <1>1, Invariance, PTL

\* Every verified account was verified with a code generated for an email it had.
THEOREM VerifiedCorrect == Spec => []VerifiedByItsCode
  <1>1. IInv => VerifiedByItsCode
    BY DEF IInv
  <1> QED
    BY <1>1, Invariance, PTL

\* Only the save of a stale copy undoes a verification or a deletion.
THEOREM UndoneByStaleSaves == Spec => OnlyStaleSavesUndo
  <1>1. IInv /\ [Next]_vars => [StaleOnly]_vars
    BY StepInv
  <1>2. Spec => [][StaleOnly]_vars
    BY <1>1, Invariance, PTL DEF Spec
  <1> QED
    BY <1>2 DEF OnlyStaleSavesUndo, StaleOnly

-----------------------------------------------------------------------------
(* The refinement of EmailRegistry *)

LEMMA OwnerIs ==
    ASSUME UniqueEmails, NEW i \in Ids, NEW e, rows[i].email = e
    PROVE  Owner(e) = i
  BY DEF Owner, Taken, UniqueEmails

LEMMA OwnerOfTaken ==
    ASSUME NEW e, Owner(e) # 0
    PROVE  Owner(e) \in Ids /\ rows[Owner(e)].email = e
  BY DEF Owner, Taken

LEMMA OwnerTypes ==
    ASSUME IInv, NEW e
    PROVE  Owner(e) \in Nat /\ (Owner(e) = 0 <=> ~Taken(e))
  <1>1. 0 \notin Ids /\ Ids \subseteq Nat
    BY LenProperties DEF IInv, TypeOK, Ids
  <1> QED
    BY <1>1 DEF Owner, Taken

\* The owner after a step, in terms of the rows after it.
LEMMA OwnerNext ==
    ASSUME IInv', NEW e
    PROVE  /\ \A i \in Ids' : rows'[i].email = e => Owner(e)' = i
           /\ (\A i \in Ids' : rows'[i].email # e) => Owner(e)' = 0
  BY DEF Owner, Taken, UniqueEmails, IInv

\* Rows that keep their emails keep their owners.
LEMMA SameEmails ==
    ASSUME IInv, IInv', Ids' = Ids, \A i \in Ids : rows'[i].email = rows[i].email
    PROVE  UNCHANGED RegistryMap
  <1>1. ASSUME NEW e \in Emails
        PROVE  Owner(e)' = Owner(e)
    <2>1. CASE Taken(e)
      <3>1. PICK i \in Ids : rows[i].email = e
        BY <2>1 DEF Taken
      <3> QED
        BY <3>1, OwnerIs, OwnerNext DEF IInv
    <2>2. CASE ~Taken(e)
      <3>1. Owner(e) = 0 /\ \A i \in Ids' : rows'[i].email # e
        BY <2>2 DEF Taken, Owner
      <3> QED
        BY <3>1, OwnerNext
    <2> QED
      BY <2>1, <2>2
  <1> QED
    BY <1>1 DEF RegistryMap

LEMMA InsertClaims ==
    ASSUME IInv, IInv', NEW e \in Emails, Insert(e)
    PROVE  Registry!Claim(e)
  <1> DEFINE n == Len(rows) + 1
  <1>1. rows \in Seq(Row) /\ NewRow(e) \in Row /\ Len(rows) \in Nat
    BY NewRowType, LenProperties DEF IInv, TypeOK
  <1>2. /\ Len(rows') = n /\ rows'[n].email = e
        /\ \A i \in 1 .. Len(rows) : rows'[i] = rows[i]
    BY <1>1, NewRowType, AppendProperties DEF Insert
  <1>3. /\ Ids' = Ids \cup {n} /\ n \notin Ids /\ n \in Nat \ {0}
    BY <1>1, <1>2 DEF Ids
  <1>4. Owner(e) = 0 /\ ~Taken(e)
    BY DEF Insert, Owner
  <1>5. Owner(e)' = n
    BY <1>2, <1>3, OwnerNext
  <1>6. \A f \in Emails : Owner(f) # n
    <2>1. ASSUME NEW f \in Emails, Owner(f) = n
          PROVE  FALSE
      BY <1>3, <2>1, OwnerOfTaken
    <2> QED
      BY <2>1
  <1>7. ASSUME NEW f \in Emails, f # e
        PROVE  Owner(f)' = Owner(f)
    <2>1. CASE Taken(f)
      <3>1. PICK i \in Ids : rows[i].email = f
        BY <2>1 DEF Taken
      <3>2. i \in Ids' /\ rows'[i].email = f
        BY <1>2, <1>3, <3>1 DEF Ids
      <3> QED
        BY <3>1, <3>2, OwnerIs, OwnerNext DEF IInv
    <2>2. CASE ~Taken(f)
      <3>1. Owner(f) = 0 /\ \A i \in Ids' : rows'[i].email # f
        BY <1>2, <1>3, <1>7, <2>2 DEF Taken, Owner, Ids
      <3> QED
        BY <3>1, OwnerNext
    <2> QED
      BY <2>1, <2>2
  <1>8. [f \in Emails |-> Owner(f)'] = [[f \in Emails |-> Owner(f)] EXCEPT ![e] = n]
    BY <1>5, <1>7
  <1> QED
    BY <1>3, <1>4, <1>5, <1>6, <1>8 DEF Registry!Claim, RegistryMap

LEMMA SaveMoves ==
    ASSUME IInv, IInv', NEW k \in Ids, NEW copy \in Row, Save(k, copy),
           Ids' = Ids, rows'[k].email = copy.email,
           \A j \in Ids \ {k} : rows'[j] = rows[j]
    PROVE  [Registry!Next]_RegistryMap
  <1>1. rows[k].email \in Emails /\ copy.email \in Emails
    BY RowType, RowFields DEF IInv, TypeOK, Ids
  <1>2. CASE copy.email = rows[k].email
    <2>1. UNCHANGED RegistryMap
      BY <1>2, SameEmails
    <2> QED
      BY <2>1
  <1>3. CASE copy.email # rows[k].email
    <2> DEFINE e == rows[k].email
               f == copy.email
    <2>1. PICK from \in Emails, to \in Emails : from = e /\ to = f
      BY <1>1
    <2>2. k \in Nat \ {0}
      BY LenProperties DEF IInv, TypeOK, Ids
    <2>3. Owner(from) = k /\ Owner(to) = 0
      <3>1. \A j \in Ids : rows[j].email # to
        BY <1>3, <2>1 DEF Save
      <3> QED
        BY <2>1, <3>1, OwnerIs DEF IInv, Owner, Taken
    <2>4. Owner(to)' = k
      BY <2>1, OwnerNext
    <2>5. Owner(from)' = 0
      <3>1. \A j \in Ids : rows'[j].email # from
        BY <1>3, <2>1 DEF IInv, UniqueEmails
      <3> QED
        BY <3>1, OwnerNext
    <2>6. ASSUME NEW g \in Emails, g # from, g # to
          PROVE  Owner(g)' = Owner(g)
      <3>1. CASE Taken(g)
        <4>1. PICK i \in Ids : rows[i].email = g
          BY <3>1 DEF Taken
        <4>2. i # k
          BY <2>1, <2>6, <4>1
        <4> QED
          BY <4>1, <4>2, OwnerIs, OwnerNext DEF IInv
      <3>2. CASE ~Taken(g)
        <4>1. Owner(g) = 0 /\ \A i \in Ids' : rows'[i].email # g
          BY <2>1, <2>6, <3>2 DEF Taken, Owner
        <4> QED
          BY <4>1, OwnerNext
      <3> QED
        BY <3>1, <3>2
    <2>7. [g \in Emails |-> Owner(g)'] =
              [[g \in Emails |-> Owner(g)] EXCEPT ![from] = 0, ![to] = k]
      BY <2>3, <2>4, <2>5, <2>6
    <2>8. Registry!Move(from, to)
      BY <2>2, <2>3, <2>7 DEF Registry!Move, RegistryMap
    <2> QED
      BY <2>8 DEF Registry!Next
  <1> QED
    BY <1>2, <1>3

LEMMA StepRefines == IInv /\ IInv' /\ [Next]_vars => [Registry!Next]_RegistryMap
  <1> SUFFICES ASSUME IInv, IInv', [Next]_vars
               PROVE  [Registry!Next]_RegistryMap
    OBVIOUS
  <1>1. ASSUME UNCHANGED rows
        PROVE  UNCHANGED RegistryMap
    BY <1>1, SameEmails DEF Ids
  <1>2. ASSUME NEW e \in Emails, Insert(e)
        PROVE  [Registry!Next]_RegistryMap
    BY <1>2, InsertClaims DEF Registry!Next
  <1>3. ASSUME NEW i \in Ids, Delete(i)
        PROVE  UNCHANGED RegistryMap
    <2>1. rows \in Seq(Row) /\ rows[i] \in Row
      BY RowType DEF IInv, TypeOK, Ids
    <2>2. PICK row : row = [rows[i] EXCEPT !.live = FALSE]
      OBVIOUS
    <2>3. row \in Row /\ row.email = rows[i].email
      BY <2>1, <2>2 DEF Row
    <2>4. rows' = [rows EXCEPT ![i] = [row EXCEPT !.version = rows[i].version + 1]]
      BY <1>3, <2>2 DEF Delete, Write
    <2>5. rows[i].version \in Nat
      BY <2>1, RowFields
    <2>6. PICK new : new = [row EXCEPT !.version = rows[i].version + 1]
      OBVIOUS
    <2>7. new \in Row /\ new.email = rows[i].email
      BY <2>3, <2>5, <2>6 DEF Row
    <2>8. /\ Len(rows') = Len(rows)
          /\ \A j \in Ids : rows'[j] = IF j = i THEN new ELSE rows[j]
      BY <2>1, <2>4, <2>6, <2>7, ExceptSeq DEF Ids
    <2> QED
      BY <2>7, <2>8, SameEmails DEF Ids
  <1>4. ASSUME NEW r \in Reqs, SaveUser(r)
        PROVE  [Registry!Next]_RegistryMap
    <2>1. /\ req[r].id \in Ids /\ req[r].copy \in Row
          /\ req[r].copy.verified => Proved(req[r].id)
      BY <1>4, AtRequest DEF SaveUser
    <2>2. CASE Save(req[r].id, req[r].copy)
      <3>1. TableInv /\ HistoriesGrow
        BY <1>4, IInvParts, SameCodes DEF SaveUser
      <3>2. /\ Ids' = Ids /\ rows'[req[r].id].email = req[r].copy.email
            /\ \A j \in Ids \ {req[r].id} : rows'[j] = rows[j]
        BY <2>1, <2>2, <3>1, SaveInv
      <3> QED
        BY <2>1, <2>2, <3>2, SaveMoves
    <2> QED
      BY <1>1, <1>4, <2>2 DEF SaveUser
  <1>5. ASSUME NEW r \in Reqs, Handle(r)
        PROVE  [Registry!Next]_RegistryMap
    <2>1. CASE CreateUser(r)
      <3>1. req[r].email \in Emails
        BY <2>1, AtRequest DEF CreateUser
      <3> QED
        BY <1>1, <1>2, <2>1, <3>1 DEF CreateUser
    <2>2. CASE UndoCreate(r)
      <3>1. req[r].id \in Ids
        BY <2>2, AtRequest DEF UndoCreate
      <3> QED
        BY <1>1, <1>3, <2>2, <3>1 DEF UndoCreate
    <2>3. CASE CreateUnverified(r)
      BY <1>2, <2>3 DEF CreateUnverified
    <2>4. CASE DeleteUser(r)
      BY <1>3, <2>4 DEF DeleteUser
    <2>5. CASE SaveUser(r)
      BY <1>4, <2>5
    <2>6. CASE \/ RegisterUser(r) \/ MailCode(r) \/ VerifyUserEmail(r)
               \/ ConsumeCode(r) \/ FindToVerify(r) \/ UpdateUser(r)
               \/ ResendCode(r) \/ AnswerAtOnce(r)
      BY <1>1, <2>6 DEF RegisterUser, MailCode, VerifyUserEmail, ConsumeCode,
                        FindToVerify, UpdateUser, ResendCode, AnswerAtOnce
    <2> QED
      BY <1>5, <2>1, <2>2, <2>3, <2>4, <2>5, <2>6 DEF Handle
  <1>6. CASE (\E e \in Emails : Expire(e)) \/ Restart \/ UNCHANGED vars
    BY <1>1, <1>6 DEF Expire, Restart, vars
  <1> QED
    BY <1>5, <1>6 DEF Next

\* Accounts implements the registry of emails: an email passes to another account
\* only after its own has moved to a free one.
THEOREM EmailsStayProved == Spec => EmailsStay
  <1>1. Init => Registry!Init
    BY DEF Init, Registry!Init, RegistryMap, Owner, Taken, Ids
  <1>2. IInv /\ IInv' /\ [Next]_vars => [Registry!Next]_RegistryMap
    BY StepRefines
  <1> QED
    BY <1>1, <1>2, Invariance, PTL DEF Spec, EmailsStay, Registry!Spec
=============================================================================
