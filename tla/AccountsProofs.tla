--------------------------- MODULE AccountsProofs ---------------------------
(***************************************************************************)
(* An address has one account: proved for any number of addresses and of   *)
(* concurrent registrations.                                               *)
(*                                                                         *)
(* The check email_exists plays no part in the argument: what it saw may   *)
(* be stale by the INSERT.  The invariant is about the inserted rows, that *)
(* the unique index keeps apart from one another and from the committed.   *)
(***************************************************************************)
EXTENDS Accounts, TLAPS

HasRow(r) == ~At(r, "idle") /\ req[r].row # NoRow

RowsAlone ==
  \A r \in Requests :
    /\ At(r, "inserted") => req[r].row # NoRow
    /\ At(r, "checked") => req[r].row = NoRow
    /\ HasRow(r) => /\ Lower[req[r].row.email] = req[r].row.email
                    /\ \A u \in users : u.email # req[r].row.email
                    /\ \A q \in Requests \ {r} :
                         HasRow(q) => req[q].row.email # req[r].row.email

AccountsInv == TypeOK /\ OneAccountPerEmail /\ RowsAlone

\* The row of a registration is a row of the table, active and in lower case.
LEMMA NewUserType ==
  ASSUME NEW body \in [address : Addresses, password : Passwords, longName : BOOLEAN]
  PROVE  /\ NewUser(body) \in UserRow
         /\ Lower[NewUser(body).email] = NewUser(body).email
         /\ NewUser(body) # NoRow
<1>1. body.address \in Addresses /\ body.password \in Passwords
  OBVIOUS
<1>2. Lower[body.address] \in Addresses /\ Lower[Lower[body.address]] = Lower[body.address]
  BY <1>1, AccountsAssumption
<1>3. NewUser(body) \in UserRow /\ NewUser(body).email = Lower[body.address]
  BY <1>1, <1>2 DEF NewUser, UserRow
<1> QED BY <1>2, <1>3, AccountsAssumption DEF UserRow

\* No account and no request: nothing to collide.
LEMMA InitAccounts == Init => AccountsInv
BY DEF Init, AccountsInv, TypeOK, OneAccountPerEmail, RowsAlone, HasRow, At, Idle

\* The lookup decides what the request does next and inserts nothing.
LEMMA RegisterAccounts ==
  ASSUME AccountsInv, NEW r \in Requests,
         NEW body \in [address : Addresses, password : Passwords, longName : BOOLEAN],
         Register(r, body)
  PROVE  AccountsInv'
<1> USE DEF AccountsInv
<1>1. TypeOK'
  BY DEF TypeOK, Register, Served, PCs, Codes
<1>2. RowsAlone'
  BY DEF TypeOK, RowsAlone, Register, HasRow, At, Idle
<1>3. OneAccountPerEmail'
  BY DEF OneAccountPerEmail, Register
<1> QED BY <1>1, <1>2, <1>3

\* An INSERT that gets through the index has its address for itself; one that
\* meets an account leaves no row.
LEMMA InsertAccounts ==
  ASSUME AccountsInv, NEW r \in Requests, Insert(r)
  PROVE  AccountsInv'
<1> USE DEF AccountsInv
<1> DEFINE row == NewUser(req[r].body)
           taken == \E u \in users : u.email = row.email
<1>1. req[r] \in Served /\ req[r].pc = "checked" /\ req[r].row = NoRow
  BY DEF TypeOK, Insert, At, Idle, RowsAlone
<1>2. row \in UserRow /\ Lower[row.email] = row.email /\ row # NoRow
  <2>1. req[r].body \in [address : Addresses, password : Passwords, longName : BOOLEAN]
    BY <1>1 DEF Served
  <2> QED BY <2>1, NewUserType
<1>3. ~Pending(r, row.email) /\ UNCHANGED <<users, tokens>>
  BY DEF Insert
<1>4. OneAccountPerEmail'
  BY <1>3 DEF OneAccountPerEmail
<1>5. CASE taken
  <2>1. req' = [req EXCEPT ![r] = [@ EXCEPT !.pc = "failed", !.code = "internal_error"]]
    BY <1>5 DEF Insert
  <2>2. TypeOK'
    BY <1>1, <1>3, <2>1 DEF TypeOK, Served, PCs, Codes
  <2>3. RowsAlone'
    BY <1>1, <1>3, <2>1 DEF TypeOK, RowsAlone, HasRow, At, Idle, Served
  <2> QED BY <1>4, <2>2, <2>3
<1>6. CASE ~taken
  <2>1. PICK entry \in Served : /\ req' = [req EXCEPT ![r] = entry]
                               /\ entry.row = row
                               /\ entry.pc \in {"failed", "inserted"}
    <3> DEFINE failed == [req[r] EXCEPT !.pc = "failed", !.code = "internal_error", !.row = row]
               inserted == [req[r] EXCEPT !.pc = "inserted", !.row = row]
    <3>1. failed \in Served /\ inserted \in Served
      BY <1>1, <1>2 DEF Served, PCs, Codes
    <3>2. /\ failed.row = row /\ failed.pc = "failed"
          /\ inserted.row = row /\ inserted.pc = "inserted"
      BY <1>1 DEF Served
    <3>3. req' = [req EXCEPT ![r] = failed] \/ req' = [req EXCEPT ![r] = inserted]
      BY <1>6 DEF Insert
    <3> QED BY <3>1, <3>2, <3>3
  <2> HIDE DEF row
  <2>2. TypeOK'
    BY <1>3, <2>1 DEF TypeOK
  <2>3. \A q \in Requests \ {r} : HasRow(q) => req[q].row.email # row.email
    BY <1>3 DEF Pending, HasRow
  <2>4. \A q \in Requests : req'[q] = IF q = r THEN entry ELSE req[q]
    BY <2>1 DEF TypeOK
  <2>5. RowsAlone'
    BY <1>2, <1>3, <1>6, <2>1, <2>3, <2>4 DEF RowsAlone, HasRow, At
  <2> QED BY <1>4, <2>2, <2>5
<1> QED BY <1>5, <1>6

\* A commit moves a row from the transaction to the table, where it is as alone.
LEMMA CommitAccounts ==
  ASSUME AccountsInv, NEW r \in Requests, Commit(r)
  PROVE  AccountsInv'
<1> USE DEF AccountsInv
<1> DEFINE row == req[r].row
<1>1. req[r] \in Served /\ row \in UserRow /\ HasRow(r)
  BY DEF TypeOK, Commit, At, Idle, Served, RowsAlone, HasRow
<1>2. /\ Lower[row.email] = row.email
      /\ \A u \in users : u.email # row.email
      /\ \A q \in Requests \ {r} : HasRow(q) => req[q].row.email # row.email
  BY <1>1 DEF RowsAlone
<1>3. users' = users \cup {row} /\ req' = [req EXCEPT ![r] = Idle] /\ tokens' = tokens
  BY DEF Commit
<1> HIDE DEF row
<1>4. TypeOK'
  BY <1>1, <1>2, <1>3 DEF TypeOK
<1>5. OneAccountPerEmail'
  BY <1>2, <1>3 DEF OneAccountPerEmail, TypeOK
<1>6. \A q \in Requests : req'[q] = IF q = r THEN Idle ELSE req[q]
  BY <1>3 DEF TypeOK
<1>7. RowsAlone'
  BY <1>2, <1>3, <1>6 DEF RowsAlone, HasRow, At, Idle
<1> QED BY <1>4, <1>5, <1>7

\* A request that ends without a commit takes its row along.
LEMMA EndAccounts ==
  ASSUME AccountsInv, NEW r \in Requests, Rollback(r) \/ Crash(r)
  PROVE  AccountsInv'
<1> USE DEF AccountsInv
<1>1. req' = [req EXCEPT ![r] = Idle] /\ UNCHANGED <<users, tokens>>
  BY DEF Rollback, Crash
<1>2. TypeOK'
  BY <1>1 DEF TypeOK
<1>3. OneAccountPerEmail'
  BY <1>1 DEF OneAccountPerEmail
<1>4. \A q \in Requests : req'[q] = IF q = r THEN Idle ELSE req[q]
  BY <1>1 DEF TypeOK
<1>5. RowsAlone'
  BY <1>1, <1>4 DEF RowsAlone, HasRow, At, Idle
<1> QED BY <1>2, <1>3, <1>5

\* Logins and deactivations leave every address where it is.
LEMMA LoginAccounts ==
  ASSUME AccountsInv,
         \/ \E r \in Requests, address \in Addresses, password \in Passwords :
              Authenticate(r, address, password)
         \/ \E u \in users : Deactivate(u)
  PROVE  AccountsInv'
<1> USE DEF AccountsInv
<1>1. CASE \E r \in Requests, address \in Addresses, password \in Passwords :
             Authenticate(r, address, password)
  <2>1. UNCHANGED <<users, req>> /\ tokens' \subseteq {u.email : u \in users}
    BY <1>1 DEF Authenticate, Found, TypeOK
  <2> QED BY <2>1 DEF TypeOK, OneAccountPerEmail, RowsAlone, HasRow, At
<1>2. ASSUME NEW u \in users, Deactivate(u)
      PROVE  AccountsInv'
  <2> DEFINE off == [u EXCEPT !.active = FALSE]
  <2>1. /\ users' = (users \ {u}) \cup {off}
        /\ UNCHANGED <<req, tokens>>
    BY <1>2 DEF Deactivate
  <2>2. off \in UserRow /\ off.email = u.email
    BY DEF TypeOK, UserRow
  <2> HIDE DEF off
  <2>3. {v.email : v \in users'} = {v.email : v \in users}
    BY <2>1, <2>2
  <2>4. TypeOK'
    BY <2>1, <2>2, <2>3 DEF TypeOK
  <2>5. OneAccountPerEmail'
    BY <2>1, <2>2 DEF OneAccountPerEmail
  <2>6. RowsAlone'
    BY <2>1, <2>2 DEF RowsAlone, HasRow, At
  <2> QED BY <2>4, <2>5, <2>6
<1> QED BY <1>1, <1>2

\* The invariant holds in every reachable state.
THEOREM AccountsInvariant == Spec => []AccountsInv
<1>1. Init => AccountsInv
  BY InitAccounts
<1>2. AccountsInv /\ [Next]_vars => AccountsInv'
  <2> SUFFICES ASSUME AccountsInv, [Next]_vars
               PROVE  AccountsInv'
    OBVIOUS
  <2>1. CASE UNCHANGED vars
    BY <2>1 DEF vars, AccountsInv, TypeOK, OneAccountPerEmail, RowsAlone, HasRow, At
  <2>2. CASE Next
    BY <2>2, RegisterAccounts, InsertAccounts, CommitAccounts, EndAccounts, LoginAccounts
       DEF Next, Serve
  <2> QED BY <2>1, <2>2
<1> QED BY <1>1, <1>2, PTL DEF Spec

\* Stored addresses are in lower case, and only accounts have tokens.
THEOREM AccountsTypeCorrect == Spec => []TypeOK
<1>1. AccountsInv => TypeOK
  BY DEF AccountsInv
<1> QED BY <1>1, AccountsInvariant, PTL

\* An address never has two accounts, however it is typed.
THEOREM NoTwins == Spec => []OneAccountPerEmail
<1>1. AccountsInv => OneAccountPerEmail
  BY DEF AccountsInv
<1> QED BY <1>1, AccountsInvariant, PTL

\* A registration whose INSERT went through can commit: its address is taken by
\* no account and no other open transaction.
THEOREM CreatedStaysAlone == Spec => []CreatedIsAlone
<1>1. AccountsInv => CreatedIsAlone
  <2> SUFFICES ASSUME AccountsInv, NEW r \in Requests, At(r, "inserted")
               PROVE  /\ ~Pending(r, req[r].row.email)
                      /\ \A u \in users : u.email # req[r].row.email
    BY DEF CreatedIsAlone
  <2>1. HasRow(r)
    BY DEF AccountsInv, RowsAlone, HasRow, At
  <2> QED BY <2>1 DEF AccountsInv, RowsAlone, HasRow, Pending
<1> QED BY <1>1, AccountsInvariant, PTL
=============================================================================
