------------------------------ MODULE Accounts ------------------------------
(***************************************************************************)
(* The accounts of the gateway, src/internal/services/user_service.go and  *)
(* email_service.go, over the users table (gorm on MySQL) and the codes in *)
(* Redis.  A request is a goroutine of its own that makes one call of a    *)
(* store after another, with no transaction around them: each call is one  *)
(* action, and between two of them other requests run, a code expires, or  *)
(* the process ends.                                                       *)
(*                                                                         *)
(* A call of a store may fail, and may have been applied although it       *)
(* failed.  Names, ages and passwords are left out: a name that is taken   *)
(* makes the call fail, as a lost connection does.                         *)
(***************************************************************************)
EXTENDS Naturals, Sequences

CONSTANTS
    Reqs,       \* HTTP requests
    Emails,
    Codes,      \* verification codes; two emails may be given the same one
    NoCode

ASSUME CodesAssumption == NoCode \notin Codes

VARIABLES
    rows,       \* the table users, by id; a deleted account keeps its row
    codes,      \* the keys email_code:<email> of Redis
    req,        \* each request: where it is, and what it carries
    held, issued, presented     \* for properties only: which emails each account
                \* has had, the codes generated for each email, and those that a
                \* request came with and found in Redis

vars == <<rows, codes, req, held, issued, presented>>

\* models.User; version counts the writes of the row, for properties only.
Row == [email : Emails, verified : BOOLEAN, live : BOOLEAN, version : Nat]

NewRow(e) == [email |-> e, verified |-> FALSE, live |-> TRUE, version |-> 0]

Ids == 1 .. Len(rows)

\* Mutant: the unique index leaves out the rows that are deleted.
LiveTaken(e) == \E i \in Ids : rows[i].email = e /\ rows[i].live

\* The unique index knows of deleted rows, the queries do not.
Taken(e) == \E i \in Ids : rows[i].email = e
Found(e, i) == i \in Ids /\ rows[i].email = e /\ rows[i].live

Init ==
    /\ rows = <<>>
    /\ codes = [e \in Emails |-> NoCode]
    /\ req = [r \in Reqs |-> [pc |-> "new"]]
    /\ held = {} /\ issued = {} /\ presented = {}

At(r, place) == req[r].pc = place
Goto(r, state) == req' = [req EXCEPT ![r] = state]
Answer(r) == Goto(r, [pc |-> "answered"])

-----------------------------------------------------------------------------
(* Calls of the stores *)

\* userRepo.CreateUser
Insert(e) ==
    /\ ~Taken(e)
    /\ rows' = Append(rows, NewRow(e))
    /\ held' = held \cup {<<Len(rows) + 1, e>>}

Write(i, row) ==
    rows' = [rows EXCEPT ![i] = [row EXCEPT !.version = rows[i].version + 1]]

\* userRepo.DeleteUser: a soft delete.
Delete(i) ==
    /\ i \in Ids /\ rows[i].live
    /\ Write(i, [rows[i] EXCEPT !.live = FALSE])

\* Mutant: the unique index is not there.
SaveUnchecked(i, copy) ==
    /\ Write(i, copy)
    /\ held' = held \cup {<<i, copy.email>>}

\* userRepo.UpdateUser: gorm's Save writes every field; where the row was deleted
\* meanwhile it inserts it again, which brings the account back.
Save(i, copy) ==
    /\ \A j \in Ids \ {i} : rows[j].email # copy.email
    /\ Write(i, copy)
    /\ held' = held \cup {<<i, copy.email>>}

\* SendVerificationEmail up to the mail: the code replaces an earlier one.
StoreCode(e) ==
    \E c \in Codes :
        /\ codes' = [codes EXCEPT ![e] = c]
        /\ issued' = issued \cup {<<e, c>>}

-----------------------------------------------------------------------------
(* RegisterUser *)

\* The email of an account is answered at once, like a success.  An error of the
\* query counts as "not found".
RegisterUser(r) ==
    /\ At(r, "new")
    /\ \E e \in Emails :
          \/ (\E i \in Ids : Found(e, i)) /\ Answer(r)
          \/ Goto(r, [pc |-> "creating", email |-> e])
    /\ UNCHANGED <<rows, codes, held, issued, presented>>

CreateUser(r) ==
    /\ At(r, "creating")
    /\ \/ /\ Insert(req[r].email)
          /\ \/ Goto(r, [pc |-> "mailing", email |-> req[r].email,
                         id |-> Len(rows) + 1])
             \/ Answer(r)
       \/ Answer(r) /\ UNCHANGED <<rows, held>>
    /\ UNCHANGED <<codes, issued, presented>>

\* SendEmail always succeeds.
MailCode(r) ==
    /\ At(r, "mailing")
    /\ \/ StoreCode(req[r].email) /\ Answer(r)
       \/ /\ StoreCode(req[r].email) \/ UNCHANGED <<codes, issued>>
          /\ Goto(r, [pc |-> "undoing", id |-> req[r].id])
    /\ UNCHANGED <<rows, held, presented>>

UndoCreate(r) ==
    /\ At(r, "undoing")
    /\ Delete(req[r].id) \/ UNCHANGED rows
    /\ Answer(r)
    /\ UNCHANGED <<codes, held, issued, presented>>

-----------------------------------------------------------------------------
(* VerifyUserEmail *)

\* Mutant: the code that came is not compared.
VerifyAnyCode(r) ==
    /\ At(r, "new")
    /\ \E e \in Emails, c \in Codes :
          /\ codes[e] # NoCode
          /\ Goto(r, [pc |-> "consuming", email |-> e, code |-> c])
          /\ presented' = presented \cup {<<e, c>>}
    /\ UNCHANGED <<rows, codes, held, issued>>

VerifyUserEmail(r) ==
    /\ At(r, "new")
    /\ \E e \in Emails, c \in Codes :
          \/ /\ codes[e] = c
             /\ Goto(r, [pc |-> "consuming", email |-> e, code |-> c])
             /\ presented' = presented \cup {<<e, c>>}
          \/ Answer(r) /\ UNCHANGED presented
    /\ UNCHANGED <<rows, codes, held, issued>>

\* Whatever code is there by now is deleted, or the call fails unnoticed.
ConsumeCode(r) ==
    /\ At(r, "consuming")
    /\ \/ codes' = [codes EXCEPT ![req[r].email] = NoCode]
       \/ UNCHANGED codes
    /\ Goto(r, [req[r] EXCEPT !.pc = "finding"])
    /\ UNCHANGED <<rows, held, issued, presented>>

\* Mutant: an account that is not there is not noticed.
FindUnchecked(r) ==
    /\ At(r, "finding")
    /\ \/ \E i \in Ids :
             /\ Found(req[r].email, i)
             /\ Goto(r, [pc |-> "saving", id |-> i,
                         copy |-> [rows[i] EXCEPT !.verified = TRUE]])
       \/ Goto(r, [pc |-> "saving", id |-> 0,
                   copy |-> [NewRow(req[r].email) EXCEPT !.verified = TRUE]])
    /\ UNCHANGED <<rows, codes, held, issued, presented>>

FindToVerify(r) ==
    /\ At(r, "finding")
    /\ \/ \E i \in Ids :
             /\ Found(req[r].email, i) /\ ~rows[i].verified
             /\ Goto(r, [pc |-> "saving", id |-> i,
                         copy |-> [rows[i] EXCEPT !.verified = TRUE]])
       \/ Answer(r)
    /\ UNCHANGED <<rows, codes, held, issued, presented>>

-----------------------------------------------------------------------------
(* The other requests *)

\* Mutant: the row is built from the request alone.
UpdateFromRequest(r) ==
    /\ At(r, "new")
    /\ \E i \in Ids, e \in Emails :
          /\ rows[i].live
          /\ Goto(r, [pc |-> "saving", id |-> i,
                      copy |-> [NewRow(e) EXCEPT !.version = rows[i].version]])
    /\ UNCHANGED <<rows, codes, held, issued, presented>>

\* UpdateUser: the account as it is, with the email the request carries, if any.
UpdateUser(r) ==
    /\ At(r, "new")
    /\ \E i \in Ids :
          /\ rows[i].live
          /\ \E e \in Emails :
                Goto(r, [pc |-> "saving", id |-> i,
                         copy |-> [rows[i] EXCEPT !.email = e]])
    /\ UNCHANGED <<rows, codes, held, issued, presented>>

SaveUser(r) ==
    /\ At(r, "saving")
    /\ Save(req[r].id, req[r].copy) \/ UNCHANGED <<rows, held>>
    /\ Answer(r)
    /\ UNCHANGED <<codes, issued, presented>>

\* CreateUser of the service: no look first, no mail.
CreateUnverified(r) ==
    /\ At(r, "new")
    /\ \E e \in Emails : Insert(e)
    /\ Answer(r)
    /\ UNCHANGED <<codes, issued, presented>>

DeleteUser(r) ==
    /\ At(r, "new")
    /\ \E i \in Ids : Delete(i)
    /\ Answer(r)
    /\ UNCHANGED <<codes, held, issued, presented>>

\* SendVerificationEmail of the controller, for any email.
ResendCode(r) ==
    /\ At(r, "new")
    /\ \E e \in Emails : StoreCode(e)
    /\ Answer(r)
    /\ UNCHANGED <<rows, held, presented>>

\* Login, GetUserByID and GetAllUser only read; and any request is answered so when
\* its body cannot be read, there is no such account, or its first call fails.
AnswerAtOnce(r) ==
    /\ At(r, "new")
    /\ Answer(r)
    /\ UNCHANGED <<rows, codes, held, issued, presented>>

-----------------------------------------------------------------------------

\* Five minutes have passed, or Redis lost its data.
Expire(e) ==
    /\ codes[e] # NoCode
    /\ codes' = [codes EXCEPT ![e] = NoCode]
    /\ UNCHANGED <<rows, req, held, issued, presented>>

\* The gateway ends, with every request it was about.
Restart ==
    /\ req' = [r \in Reqs |-> IF At(r, "new") THEN req[r] ELSE [pc |-> "answered"]]
    /\ UNCHANGED <<rows, codes, held, issued, presented>>

Handle(r) ==
    \/ RegisterUser(r) \/ CreateUser(r) \/ MailCode(r) \/ UndoCreate(r)
    \/ VerifyUserEmail(r) \/ ConsumeCode(r) \/ FindToVerify(r)
    \/ UpdateUser(r) \/ SaveUser(r)
    \/ CreateUnverified(r) \/ DeleteUser(r) \/ ResendCode(r)
    \/ AnswerAtOnce(r)

Next == (\E r \in Reqs : Handle(r)) \/ (\E e \in Emails : Expire(e)) \/ Restart

Spec == Init /\ [][Next]_vars
-----------------------------------------------------------------------------

Request ==
    [pc : {"new", "answered"}]
    \cup [pc : {"creating"}, email : Emails]
    \cup [pc : {"mailing"}, email : Emails, id : Ids]
    \cup [pc : {"undoing"}, id : Ids]
    \cup [pc : {"consuming", "finding"}, email : Emails, code : Codes]
    \cup [pc : {"saving"}, id : Ids, copy : Row]

\* A request works on a row of the table; rows are never taken away.
TypeOK ==
    /\ rows \in Seq(Row)
    /\ codes \in [Emails -> Codes \cup {NoCode}]
    /\ req \in [Reqs -> Request]
    /\ held \subseteq Ids \X Emails
    /\ issued \subseteq Emails \X Codes
    /\ presented \subseteq Emails \X Codes

\* user.go:11, "unique": no two accounts have one email, though the query of a
\* registration and its insert are two calls and updates may change emails.
UniqueEmails == \A i, j \in Ids : rows[i].email = rows[j].email => i = j

\* An account that is verified has, at some time, had an email for which somebody
\* came with a code that was generated for that email, whatever expired, was
\* replaced, saved late or lost in between.
Proved(i) == \E e \in Emails, c \in Codes :
    <<i, e>> \in held /\ <<e, c>> \in presented \cap issued
VerifiedByItsCode == \A i \in Ids : rows[i].verified => Proved(i)

\* A verification is never undone and a deleted account never comes back, but by
\* the save of a request that read the row before it was written last.
Undone(i) == \/ rows[i].verified /\ ~rows'[i].verified
             \/ ~rows[i].live /\ rows'[i].live
OnlyStaleSavesUndo ==
    [][\A i \in Ids : Undone(i) =>
          \E r \in Reqs : /\ At(r, "saving") /\ req[r].id = i
                          /\ req[r].copy.version < rows[i].version]_vars

\* An email belongs to one account for ever, unless the account itself moves:
\* also the email of a registration that was rolled back (user_service.go:81).
Owner(e) == IF Taken(e) THEN CHOOSE i \in Ids : rows[i].email = e ELSE 0
RegistryMap == [e \in Emails |-> Owner(e)]
Registry == INSTANCE EmailRegistry WITH owner <- RegistryMap
EmailsStay == Registry!Spec
=============================================================================
