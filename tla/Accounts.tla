------------------------------ MODULE Accounts ------------------------------
(***************************************************************************)
(* Accounts and logins: UserService of app/services, UserRepository and    *)
(* the table users, with the requests of concurrent clients.               *)
(*                                                                         *)
(*   register:  idle -> checked -> inserted -> idle                        *)
(*   any refusal or error -> failed -> idle                                *)
(*                                                                         *)
(* email_exists sees the committed rows only.  The unique index on email   *)
(* sees the uncommitted ones too: an INSERT of an address another          *)
(* transaction has just inserted waits for that transaction to end.        *)
(* Between the two steps the password is hashed.                           *)
(***************************************************************************)
EXTENDS Naturals

CONSTANTS Addresses,     \* as clients type them
          Lower,         \* str.lower on them
          Passwords, Requests,
          NoRow

ASSUME AccountsAssumption ==
  /\ Lower \in [Addresses -> Addresses]
  /\ \A a \in Addresses : Lower[Lower[a]] = Lower[a]
  /\ NoRow \notin [email : Addresses, password : Passwords, active : BOOLEAN]

VARIABLES users,    \* the committed rows
          req,      \* the requests being served
          tokens    \* the accounts access tokens were issued for, by email

vars == <<users, req, tokens>>

UserRow == [email : Addresses, password : Passwords, active : BOOLEAN]
PCs == {"checked", "inserted", "failed"}
Codes == {"ok", "conflict", "internal_error"}

Idle == [pc |-> "idle"]

\* body is what the client sent, row what the transaction has inserted.
Served == [pc : PCs, body : [address : Addresses, password : Passwords, longName : BOOLEAN],
           row : UserRow \cup {NoRow}, code : Codes]

\* Stored addresses are in lower case; only accounts have tokens.
TypeOK == /\ users \subseteq {u \in UserRow : Lower[u.email] = u.email}
          /\ req \in [Requests -> {Idle} \cup Served]
          /\ tokens \subseteq {u.email : u \in users}

Init == /\ users = {}
        /\ req = [r \in Requests |-> Idle]
        /\ tokens = {}

-----------------------------------------------------------------------------

At(r, pc) == req[r].pc = pc

\* Mutant: the address is compared as typed.
FoundAsTyped(address) == {u \in users : u.email = address}

\* get_by_email
Found(address) == {u \in users : u.email = Lower[address]}

\* longName: full_name keeps two characters when it is stripped.
Register(r, body) ==
  /\ At(r, "idle")
  /\ req' = [req EXCEPT ![r] =
               IF Found(body.address) # {}
               THEN [pc |-> "failed", body |-> body, row |-> NoRow, code |-> "conflict"]
               ELSE [pc |-> "checked", body |-> body, row |-> NoRow, code |-> "ok"]]
  /\ UNCHANGED <<users, tokens>>

\* Mutant: the address is stored as typed.
NewUserAsTyped(body) == [email |-> body.address, password |-> body.password, active |-> TRUE]

NewUser(body) == [email |-> Lower[body.address], password |-> body.password, active |-> TRUE]

\* An uncommitted row with this address.
Pending(r, email) ==
  \E q \in Requests \ {r} : ~At(q, "idle") /\ req[q].row # NoRow /\ req[q].row.email = email

\* Mutant: a table without the unique index.
InsertUnindexed(r) ==
  /\ At(r, "checked")
  /\ req' = [req EXCEPT ![r].pc = "inserted", ![r].row = NewUser(req[r].body)]
  /\ UNCHANGED <<users, tokens>>

\* add: the INSERT, then the read of the row for the response, whose full_name
\* may have become too short for UserRead.
Insert(r) ==
  /\ At(r, "checked")
  /\ LET row == NewUser(req[r].body)
     IN /\ ~Pending(r, row.email)
        /\ req' = [req EXCEPT ![r] =
                     IF \E u \in users : u.email = row.email
                     THEN [@ EXCEPT !.pc = "failed", !.code = "internal_error"]
                     ELSE IF ~req[r].body.longName
                     THEN [@ EXCEPT !.pc = "failed", !.code = "internal_error", !.row = row]
                     ELSE [@ EXCEPT !.pc = "inserted", !.row = row]]
  /\ UNCHANGED <<users, tokens>>

Commit(r) ==
  /\ At(r, "inserted")
  /\ users' = users \cup {req[r].row}
  /\ req' = [req EXCEPT ![r] = Idle]
  /\ UNCHANGED tokens

\* Mutant: a failed transaction that is left open.
RollbackLeftOpen(r) ==
  /\ At(r, "failed") /\ req[r].row = NoRow
  /\ req' = [req EXCEPT ![r] = Idle]
  /\ UNCHANGED <<users, tokens>>

Rollback(r) ==
  /\ At(r, "failed")
  /\ req' = [req EXCEPT ![r] = Idle]
  /\ UNCHANGED <<users, tokens>>

\* The process or its connection dies: PostgreSQL drops the transaction.
Crash(r) ==
  /\ ~At(r, "idle")
  /\ req' = [req EXCEPT ![r] = Idle]
  /\ UNCHANGED <<users, tokens>>

\* authenticate reads and decides in one statement and writes nothing.
Authenticate(r, address, password) ==
  /\ At(r, "idle")
  /\ \E u \in Found(address) :
       /\ u.password = password /\ u.active
       /\ tokens' = tokens \cup {u.email}
  /\ UNCHANGED <<users, req>>

\* Nothing in the code clears is_active; whoever runs the database may.
Deactivate(u) ==
  /\ u \in users /\ u.active
  /\ users' = (users \ {u}) \cup {[u EXCEPT !.active = FALSE]}
  /\ UNCHANGED <<req, tokens>>

Serve(r) == Insert(r) \/ Commit(r) \/ Rollback(r)

Next ==
  \/ \E r \in Requests :
       \/ \E body \in [address : Addresses, password : Passwords, longName : BOOLEAN] :
            Register(r, body)
       \/ \E address \in Addresses, password \in Passwords : Authenticate(r, address, password)
       \/ Serve(r)
       \/ Crash(r)
  \/ \E u \in users : Deactivate(u)

Spec == Init /\ [][Next]_vars

\* The event loop resumes each request.  PostgreSQL wakes a waiting INSERT each
\* time the transaction it waits for ends, and it does not lose every race for
\* the address after that.
FairSpec == Spec /\ \A r \in Requests : WF_vars(Serve(r)) /\ SF_vars(Insert(r))

-----------------------------------------------------------------------------
(* Properties *)

\* An address has one account however it is typed and however many clients
\* register it at once (users.email UNIQUE, email.lower()).
OneAccountPerEmail ==
  \A u, v \in users : Lower[u.email] = Lower[v.email] => u = v

\* A registration that may answer 201 has its address for itself: no account
\* and no other uncommitted row has it, so its commit cannot fail.
CreatedIsAlone ==
  \A r \in Requests : At(r, "inserted") =>
    /\ ~Pending(r, req[r].row.email)
    /\ \A u \in users : u.email # req[r].row.email

\* A registration ends, also one that waited for another one's transaction.
RegistrationsEnd == \A r \in Requests : ~At(r, "idle") ~> At(r, "idle")
=============================================================================
