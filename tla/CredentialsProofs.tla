-------------------------- MODULE CredentialsProofs ---------------------------
(***************************************************************************)
(* What a member's overlapping requests keep, for any number of addresses, *)
(* passwords, terms, requests at work and requests served.                 *)
(***************************************************************************)
EXTENDS Credentials, TLAPS

-----------------------------------------------------------------------------
(* Types.                                                                   *)

LEMMA InitTypeOK == Init => TypeOK
BY CredentialsAssumption DEF Init, TypeOK, Id

\* A request that begins has a command.
LEMMA BeginTypeOK ==
  ASSUME TypeOK, NEW r \in Req, NEW c \in Cmd,
         NEW first \in {"required", "find", "list"},
         (c.op = "signUp") = (first \in SigningUp), Begin(r, c, first)
  PROVE  TypeOK'
<1>1. c # None
  BY CredentialsAssumption
<1>2. served' \in 0..MaxRequests
  BY CredentialsAssumption DEF TypeOK, Begin
<1> QED
  BY <1>1, <1>2 DEF TypeOK, Begin, SigningUp, tables, catalog, ids, history

\* A request that ends leaves nothing behind.
LEMMA FinishTypeOK ==
  ASSUME TypeOK, NEW r \in Req, Finish(r),
         UNCHANGED <<tables, catalog, ids, history, served>>
  PROVE  TypeOK'
BY DEF TypeOK, Finish, tables, catalog, ids, history

\* An id that was given out is an id.
LEMMA GivenOut == TypeOK => \A u \in 1..nextId - 1 : u \in Id
BY CredentialsAssumption DEF TypeOK, Id

\* What a sign-up inserts.
NewUser(c) == IF c.pw = None THEN CreateWithSocialAuth(c) ELSE CreateWithLocalAuth(c)

\* A row of the user table.
LEMMA RowOfUser ==
  ASSUME NEW e \in Email, NEW p \in Password \cup {None}, NEW t \in BOOLEAN
  PROVE  [email |-> e, pw |-> p, team |-> t] \in User
BY DEF User

\* The rows of an agreement.
LEMMA RowsOfTerms ==
  ASSUME NEW T \in SUBSET Term, NEW era \in Nat
  PROVE  NewRows(T, era) \in SUBSET Row
BY DEF NewRows, Row

\* A command that is told its user.
LEMMA CommandOfUser ==
  ASSUME NEW c \in Cmd, NEW u \in 0..MaxRequests
  PROVE  /\ [c EXCEPT !.user = u] \in Cmd
         /\ [c EXCEPT !.user = u].user = u /\ [c EXCEPT !.user = u].op = c.op
BY DEF Cmd

\* Each step keeps the types.
LEMMA NextTypeOK == TypeOK /\ [Next]_vars => TypeOK'
<1> SUFFICES ASSUME TypeOK, [Next]_vars PROVE TypeOK'
  OBVIOUS
<1> USE DEF tables, catalog, ids, local, history
<1>1. ASSUME NEW r \in Req, SignUp(r) PROVE TypeOK'
  <2>1. PICK e \in Email, p \in Password \cup {None} :
          Begin(r, [email |-> e, op |-> "signUp", pw |-> p, terms |-> {}, user |-> 0], "required")
    BY <1>1 DEF SignUp
  <2>2. [email |-> e, op |-> "signUp", pw |-> p, terms |-> {}, user |-> 0] \in Cmd
    BY CredentialsAssumption DEF Cmd
  <2> QED
    BY <2>1, <2>2, BeginTypeOK DEF SigningUp, Profile
<1>2. ASSUME NEW r \in Req, ChangePassword(r) PROVE TypeOK'
  <2>1. PICK e \in Email, p \in Password :
          Begin(r, [email |-> e, op |-> "password", pw |-> p, terms |-> {}, user |-> 0], "find")
    BY <1>2 DEF ChangePassword
  <2>2. [email |-> e, op |-> "password", pw |-> p, terms |-> {}, user |-> 0] \in Cmd
    BY CredentialsAssumption DEF Cmd
  <2> QED
    BY <2>1, <2>2, BeginTypeOK DEF SigningUp, Profile
<1>3. ASSUME NEW r \in Req, ChangeProfile(r) PROVE TypeOK'
  <2>1. PICK u \in Alive, f \in Profile :
          Begin(r, [email |-> users[u].email, op |-> f, pw |-> None, terms |-> {}, user |-> u],
                "find")
    BY <1>3 DEF ChangeProfile
  <2>2. [email |-> users[u].email, op |-> f, pw |-> None, terms |-> {}, user |-> u] \in Cmd
    BY CredentialsAssumption DEF Cmd, TypeOK, Alive, Id, User
  <2> QED
    BY <2>1, <2>2, BeginTypeOK DEF SigningUp, Profile
<1>4. ASSUME NEW r \in Req, AgreeTerm(r) PROVE TypeOK'
  <2>1. PICK u \in Alive, T \in SUBSET Term \ {{}} :
          Begin(r, [email |-> users[u].email, op |-> "agree", pw |-> None, terms |-> T, user |-> u],
                "list")
    BY <1>4 DEF AgreeTerm
  <2>2. [email |-> users[u].email, op |-> "agree", pw |-> None, terms |-> T, user |-> u] \in Cmd
    BY CredentialsAssumption DEF Cmd, TypeOK, Alive, Id, User
  <2> QED
    BY <2>1, <2>2, BeginTypeOK DEF SigningUp, Profile
<1>5. ASSUME NEW r \in Req, GetRequiredTermIds(r) PROVE TypeOK'
  BY <1>5 DEF GetRequiredTermIds, Go, TypeOK, SigningUp
<1>6. ASSUME NEW r \in Req, Create(r) PROVE TypeOK'
  <2>1. cmd[r] \in Cmd
    BY <1>6 DEF Create, TypeOK
  <2>2. NewUser(cmd[r]) \in User /\ NewUser(cmd[r]) # None /\ cmd[r].pw \in Password \cup {None}
    <3>1. cmd[r].email \in Email /\ cmd[r].pw \in Password \cup {None}
      BY <2>1 DEF Cmd
    <3> QED
      <4>1. NewUser(cmd[r]) \in User
        BY <3>1, RowOfUser DEF NewUser, CreateWithLocalAuth, CreateWithSocialAuth
      <4> QED
        BY <3>1, <4>1, CredentialsAssumption
  <2>3. nextId' = nextId + 1 /\ nextId' \in 1..MaxRequests + 1
    BY <1>6, CredentialsAssumption DEF Create, TypeOK, Id
  <2>4. /\ users' \in [Id -> {None} \cup User] /\ agreed' \in [Id -> SUBSET Row]
        /\ confirmed' \in [Id -> Password \cup {None}]
    <3>1. NewRows(list[r], left[nextId]) \in SUBSET Row
      BY <1>6, RowsOfTerms DEF Create, TypeOK
    <3> QED
      BY <1>6, <2>2, <3>1 DEF Create, NewUser, TypeOK
  <2>5. \A u \in Id : (users'[u] = None => agreed'[u] = {}) /\ (u >= nextId' => users'[u] = None)
    BY <1>6, <2>2, <2>3, CredentialsAssumption DEF Create, NewUser, TypeOK, Id
  <2>6. \A q \in Req :
          step'[q] \in {"reload", "write"} => cmd'[q].user \in 1..nextId' - 1 /\ seen'[q] # None
    BY <1>6, <2>3, CredentialsAssumption DEF Create, Finish, TypeOK, SigningUp
  <2> QED
    BY <1>6, <2>3, <2>4, <2>5, <2>6 DEF Create, Finish, TypeOK, SigningUp
<1>7. ASSUME NEW r \in Req, Find(r) PROVE TypeOK'
  <2> USE <1>7
  <2>1. CASE Finish(r)
    BY <2>1, FinishTypeOK DEF Find
  <2>2. ASSUME NEW u \in Alive,
               cmd[r].op = "password" => users[u].pw # None,
               seen' = [seen EXCEPT ![r] =
                  IF cmd[r].op = "agree"
                  THEN [pw |-> None, rows |-> agreed[u],
                        fresh |-> cmd[r].terms \ TermsOf(agreed[u])]
                  ELSE [pw |-> IF cmd[r].op = "password" THEN cmd[r].pw ELSE users[u].pw,
                        rows |-> {}, fresh |-> {}]],
               cmd' = [cmd EXCEPT ![r] = [cmd[r] EXCEPT !.user = u]],
               Go(r, "reload"), UNCHANGED <<list, base>>
        PROVE  TypeOK'
    <3>1. cmd[r] \in Cmd /\ u \in Id /\ users[u] \in User /\ step[r] = "find"
      BY DEF Find, TypeOK, Alive
    <3>2. u \in 1..nextId - 1
      BY <3>1, CredentialsAssumption DEF TypeOK, Alive, Id
    <3>3. cmd'[r] \in Cmd /\ cmd'[r] # None /\ cmd'[r].user = u /\ cmd'[r].op = cmd[r].op
      <4>1. u \in 0..MaxRequests /\ cmd'[r] = [cmd[r] EXCEPT !.user = u]
        BY <2>2, <3>1, CredentialsAssumption DEF TypeOK, Id
      <4> QED
        BY <3>1, <4>1, CommandOfUser, CredentialsAssumption
    <3>4. seen'[r] \in Entity /\ seen'[r] # None
      BY <2>2, <3>1, CredentialsAssumption DEF Cmd, TypeOK, Entity, User
    <3>5. cmd[r].op # "signUp"
      BY <3>1 DEF TypeOK, SigningUp
    <3> QED
      BY <2>2, <3>2, <3>3, <3>4, <3>5 DEF Find, TypeOK, Go, SigningUp
  <2> QED
    BY <2>1, <2>2 DEF Find
<1>8. ASSUME NEW r \in Req, GetTermList(r) PROVE TypeOK'
  BY <1>8 DEF GetTermList, Usable, Go, TypeOK, SigningUp
<1>9. ASSUME NEW r \in Req, FindTerms(r) PROVE TypeOK'
  BY <1>9 DEF FindTerms, Go, TypeOK, SigningUp
<1>10. ASSUME NEW r \in Req, SaveTermList(r) PROVE TypeOK'
  BY <1>10 DEF SaveTermList, Go, TypeOK, SigningUp
<1>11. ASSUME NEW r \in Req, CheckTerms(r) PROVE TypeOK'
  BY <1>11, FinishTypeOK DEF CheckTerms, Go, TypeOK, SigningUp
<1>12. ASSUME NEW r \in Req, Reload(r) PROVE TypeOK'
  <2>1. base' \in [Req -> {None} \cup Loads]
    <3> DEFINE u == cmd[r].user
    <3>1. u \in Id
      BY <1>12, GivenOut DEF Reload, TypeOK
    <3>2. users[u] # None => [pw |-> users[u].pw, rows |-> agreed[u]] \in Loads
      BY <3>1 DEF TypeOK, Loads, User
    <3> QED
      BY <1>12, <3>2 DEF Reload, TypeOK
  <2> QED
    BY <1>12, <2>1 DEF Reload, Go, TypeOK, SigningUp
<1>13. ASSUME NEW r \in Req, Write(r) PROVE TypeOK'
  <2> USE <1>13
  <2> DEFINE u == cmd[r].user
  <2>1. /\ u \in Id /\ u < nextId /\ nextId \in Nat
        /\ cmd[r] \in Cmd /\ seen[r] \in Entity
    BY GivenOut, CredentialsAssumption DEF Write, TypeOK
  <2>2. /\ users' \in [Id -> {None} \cup User] /\ agreed' \in [Id -> SUBSET Row]
        /\ users'[u] = None => agreed'[u] = {}
        /\ \A v \in Id \ {u} : users'[v] = users[v] /\ agreed'[v] = agreed[v]
    <3>1. CASE Insert(r)
      <4>1. [email |-> cmd[r].email, pw |-> seen[r].pw, team |-> cmd[r].op = "team"] \in User
        BY <2>1 DEF Cmd, Entity, User
      <4>2. [email |-> cmd[r].email, pw |-> seen[r].pw, team |-> cmd[r].op = "team"] # None
        BY <4>1, CredentialsAssumption
      <4>3. seen[r].rows \cup NewRows(seen[r].fresh, left[u]) \in SUBSET Row
        BY <2>1, RowsOfTerms DEF Entity, TypeOK
      <4> QED
        BY <2>1, <3>1, <4>1, <4>2, <4>3 DEF Insert, TypeOK
    <3>2. CASE UpdateTerms(r)
      <4>1. Inserted(r) \subseteq Row
        BY <2>1, RowsOfTerms DEF Inserted, Entity, TypeOK
      <4> QED
        BY <2>1, <3>2, <4>1 DEF UpdateTerms, TypeOK
    <3>3. CASE UpdateUser(r)
      <4>1. users[u] = None => UNCHANGED tables
        BY <3>3 DEF UpdateUser
      <4>2. ASSUME users[u] # None, users' # users
            PROVE  \E row \in User : users' = [users EXCEPT ![u] = row]
        <5>1. users[u] \in User
          BY <2>1, <4>2 DEF TypeOK
        <5>2. PICK p \in {seen[r].pw, users[u].pw} :
                users' = [users EXCEPT ![u] = [email |-> users[u].email, pw |-> p,
                                               team |-> users[u].team \/ cmd[r].op = "team"]]
          BY <3>3, <4>2 DEF UpdateUser
        <5>3. users[u].email \in Email /\ p \in Password \cup {None}
          BY <2>1, <5>1 DEF User, Entity
        <5>4. [email |-> users[u].email, pw |-> p,
                team |-> users[u].team \/ cmd[r].op = "team"] \in User
          BY <5>3, RowOfUser
        <5> QED
          BY <5>2, <5>4
      <4> QED
        BY <2>1, <3>3, <4>1, <4>2, CredentialsAssumption DEF UpdateUser, TypeOK
    <3> QED
      BY <3>1, <3>2, <3>3 DEF Write
  <2>3. \A v \in Id : (users'[v] = None => agreed'[v] = {}) /\ (v >= nextId => users'[v] = None)
    <3>1. \A v \in Id : (users[v] = None => agreed[v] = {}) /\ (v >= nextId => users[v] = None)
      BY DEF TypeOK
    <3>2. \A v \in Id : v >= nextId => v # u
      BY <2>1, CredentialsAssumption DEF Id
    <3> QED
      BY <2>1, <2>2, <3>1, <3>2 DEF Write
  <2>4. confirmed' \in [Id -> Password \cup {None}]
    BY <2>1 DEF Write, TypeOK, Entity
  <2>5. stale' \subseteq Req /\ spoiled' \subseteq Id
    BY <2>1 DEF Write, TypeOK, Overtaken, Loaded
  <2> QED
    BY <2>2, <2>3, <2>4, <2>5 DEF Write, Finish, TypeOK, SigningUp
<1>14. ASSUME NEW u \in Id, Leave(u) PROVE TypeOK'
  BY <1>14, CredentialsAssumption DEF Leave, Cascade, Loaded, TypeOK
<1>15. ASSUME NEW t \in Term, AddTerm(t) PROVE TypeOK'
  BY <1>15 DEF AddTerm, TypeOK
<1>16. CASE TermsEvicted
  BY <1>16 DEF TermsEvicted, TypeOK
<1>17. CASE UNCHANGED vars
  BY <1>17 DEF vars, TypeOK
<1> QED
  BY <1>1, <1>2, <1>3, <1>4, <1>5, <1>6, <1>7, <1>8, <1>9, <1>10, <1>11, <1>12, <1>13, <1>14,
     <1>15, <1>16, <1>17 DEF Next, Step

\* Every reachable state is well-typed: users, agreements, the list of terms and
\* what each request has loaded.
THEOREM TypeCorrect == Spec => []TypeOK
BY InitTypeOK, NextTypeOK, PTL DEF Spec

-----------------------------------------------------------------------------
(* Agreements.                                                              *)

\* A user whose account exists before and after a step keeps the agreements: only
\* an agreement writes to them, and it is refused rather than lose one.
LEMMA StepKeepsAgreements ==
  ASSUME TypeOK, [Next]_vars, NEW u \in Id, users[u] # None, users'[u] # None
  PROVE  agreed[u] \subseteq agreed'[u]
<1> USE DEF tables, catalog, ids, local, history
<1>1. ASSUME NEW r \in Req, Create(r) PROVE agreed[u] \subseteq agreed'[u]
  <2>1. u # nextId
    BY <1>1, CredentialsAssumption DEF TypeOK, Create, Id
  <2> QED
    BY <1>1, <2>1 DEF Create, TypeOK
<1>2. ASSUME NEW r \in Req, Write(r) PROVE agreed[u] \subseteq agreed'[u]
  <2>1. CASE Insert(r)
    BY <2>1 DEF Insert, TypeOK
  <2>2. CASE UpdateTerms(r)
    BY <2>2 DEF UpdateTerms, Refused, TypeOK
  <2>3. CASE UpdateUser(r)
    BY <2>3 DEF UpdateUser
  <2> QED
    BY <1>2, <2>1, <2>2, <2>3 DEF Write
<1>3. ASSUME NEW v \in Id, Leave(v) PROVE agreed[u] \subseteq agreed'[u]
  BY <1>3 DEF Leave, Cascade, TypeOK
<1>4. ASSUME NEW r \in Req, ~Create(r), ~Write(r), Step(r) PROVE UNCHANGED agreed
  BY <1>4 DEF Step, SignUp, GetRequiredTermIds, ChangePassword, ChangeProfile, AgreeTerm, Begin,
     Find, Reload, GetTermList, FindTerms, SaveTermList, CheckTerms
<1>5. (\E t \in Term : AddTerm(t)) \/ TermsEvicted \/ UNCHANGED vars => UNCHANGED agreed
  BY DEF AddTerm, TermsEvicted, vars
<1> QED
  BY <1>1, <1>2, <1>3, <1>4, <1>5 DEF Next

\* A member's agreements never vanish while the account exists, however many
\* agreements of the member overlap.
THEOREM AgreementsKept == Spec => AgreementsStay
<1>1. TypeOK /\ [Next]_vars =>
        [\A u \in Id : users[u] # None /\ users'[u] # None => agreed[u] \subseteq agreed'[u]]_vars
  BY StepKeepsAgreements
<1> QED
  BY <1>1, TypeCorrect, PTL DEF Spec, AgreementsStay

-----------------------------------------------------------------------------
(* The list of terms.                                                       *)

\* A list of terms that is cached, or about to be, lacks no term but the late ones.
ListInv ==
  /\ cached # None /\ cached # {} => terms \ late \subseteq cached
  /\ \A r \in Req : step[r] = "set" /\ list[r] # {} => terms \ late \subseteq list[r]

LEMMA InitListInv == Init => ListInv
BY DEF Init, ListInv

LEMMA NextListInv == TypeOK /\ ListInv /\ [Next]_vars => ListInv'
<1> SUFFICES ASSUME TypeOK, ListInv, [Next]_vars PROVE ListInv'
  OBVIOUS
<1> USE DEF ListInv, tables, catalog, ids, local, history
<1>1. ASSUME NEW r \in Req, FindTerms(r) PROVE ListInv'
  BY <1>1 DEF FindTerms, Go, TypeOK
<1>2. ASSUME NEW r \in Req, SaveTermList(r) PROVE ListInv'
  BY <1>2 DEF SaveTermList, Go, TypeOK
<1>3. ASSUME NEW t \in Term, AddTerm(t) PROVE ListInv'
  <2>1. CASE late' = late \cup {t}
    BY <1>3, <2>1 DEF AddTerm
  <2>2. CASE InUse = {}
    <3>1. cached # None => cached = {}
      BY <2>2 DEF InUse
    <3>2. ASSUME NEW r \in Req, step[r] = "set" PROVE list[r] = {}
      <4>1. list[r] \in {list[q] : q \in {x \in Req : step[x] = "set"}}
        BY <3>2
      <4> QED
        BY <2>2, <4>1 DEF InUse
    <3> QED
      BY <1>3, <3>1, <3>2 DEF AddTerm
  <2> QED
    BY <1>3, <2>1, <2>2 DEF AddTerm
<1>4. CASE TermsEvicted
  BY <1>4 DEF TermsEvicted, TypeOK
<1>5. ASSUME NEW r \in Req, ~FindTerms(r), ~SaveTermList(r), Step(r) PROVE ListInv'
  <2>1. UNCHANGED catalog
    BY <1>5 DEF Step, SignUp, GetRequiredTermIds, Create, ChangePassword, ChangeProfile, AgreeTerm,
       Begin, Find, Reload, Write, GetTermList, CheckTerms
  <2>2. \A q \in Req : step'[q] = "set" => step[q] = "set" /\ list'[q] = list[q]
    BY <1>5 DEF Step, SignUp, GetRequiredTermIds, Create, ChangePassword, ChangeProfile, AgreeTerm,
       Begin, Find, Reload, Write, GetTermList, CheckTerms, Go, Finish, TypeOK
  <2> QED
    BY <2>1, <2>2
<1>6. ASSUME NEW u \in Id, Leave(u) PROVE ListInv'
  BY <1>6 DEF Leave
<1>7. CASE UNCHANGED vars
  BY <1>7 DEF vars
<1> QED
  BY <1>1, <1>2, <1>3, <1>4, <1>5, <1>6, <1>7 DEF Next

\* Whatever terms a member is asked to agree to, and however the list is cached
\* and evicted, agreeTerm takes them, but for those added behind a cached list.
THEOREM OffersTaken == Spec => []OffersAccepted
<1>1. ListInv => OffersAccepted
  BY DEF ListInv, OffersAccepted, NotAgreed, Acceptable, Usable
<1> QED
  BY <1>1, InitListInv, NextListInv, TypeCorrect, PTL DEF Spec

-----------------------------------------------------------------------------
(* Passwords.                                                               *)

\* Unless saved from an overtaken entity, a member has the password last set and
\* a team.
PasswordInv ==
  \A u \in Id \ spoiled :
    users[u] # None => users[u].pw = confirmed[u] /\ users[u].team

\* An address has one user at most.
EmailInv == \A u, v \in Alive : users[u].email = users[v].email => u = v

\* An entity that was not overtaken is that of a user who is there, and a change of
\* the profile holds the password which save finds, or has found, in the row.
EntityInv ==
  \A r \in Req \ stale :
    step[r] \in {"reload", "write"} /\ cmd[r].user \notin spoiled =>
      /\ step[r] = "reload" => /\ users[cmd[r].user] # None
                               /\ cmd[r].op \in Profile => seen[r].pw = users[cmd[r].user].pw
      /\ step[r] = "write"  => /\ base[r] # None
                               /\ cmd[r].op \in Profile => seen[r].pw = base[r].pw

LoginInv == PasswordInv /\ EntityInv

LEMMA InitLoginInv == Init => LoginInv
BY DEF Init, LoginInv, PasswordInv, EntityInv

\* Steps that write no user and load no entity.
LEMMA QuietStep ==
  ASSUME LoginInv, UNCHANGED <<users, history>>,
         \A q \in Req : \/ step'[q] \notin {"reload", "write"}
                        \/ /\ step'[q] = step[q] /\ cmd'[q] = cmd[q]
                           /\ seen'[q] = seen[q] /\ base'[q] = base[q]
  PROVE  LoginInv'
BY DEF LoginInv, PasswordInv, EntityInv, history

\* What save writes into the row of a user who is there.
LEMMA UpdatedRow ==
  ASSUME TypeOK, NEW r \in Req, Write(r), users[cmd[r].user] # None, UpdateUser(r)
  PROVE  /\ users'[cmd[r].user] # None
         /\ users[cmd[r].user].team => users'[cmd[r].user].team
         /\ \/ users'[cmd[r].user].pw = users[cmd[r].user].pw
            \/ Differs(r) /\ users'[cmd[r].user].pw = seen[r].pw
<1> DEFINE u == cmd[r].user
           p == IF Differs(r) /\ (base[r].pw = None \/ users[u].pw # None)
                THEN seen[r].pw ELSE users[u].pw
           t == users[u].team \/ cmd[r].op = "team"
<1>1. u \in Id /\ seen[r] # None
  BY GivenOut DEF Write, TypeOK
<1>2. /\ users[u].email \in Email /\ users[u].pw \in Password \cup {None}
      /\ seen[r].pw \in Password \cup {None}
  BY <1>1 DEF TypeOK, User, Entity
<1>3. \/ UNCHANGED users
      \/ users' = [users EXCEPT ![u] = [email |-> users[u].email, pw |-> p, team |-> t]]
  BY DEF UpdateUser
<1>4. p \in Password \cup {None} /\ t \in BOOLEAN
  BY <1>2
<1>5. [email |-> users[u].email, pw |-> p, team |-> t] # None
  BY <1>2, <1>4, RowOfUser, CredentialsAssumption
<1>6. (users[u].team => t) /\ (p = users[u].pw \/ (Differs(r) /\ p = seen[r].pw))
  OBVIOUS
<1> HIDE DEF p, t
<1> QED
  BY <1>1, <1>3, <1>5, <1>6 DEF TypeOK

\* Saving does not remove a user.
LEMMA WriteKeepsUser ==
  ASSUME TypeOK, NEW r \in Req, Write(r), users[cmd[r].user] # None
  PROVE  users'[cmd[r].user] # None
BY UpdatedRow DEF Write, Insert, UpdateTerms, tables

\* A request that was not overtaken writes a password only if that was asked for.
LEMMA FreshWrite ==
  ASSUME TypeOK, LoginInv, NEW r \in Req, Write(r), r \notin stale, cmd[r].user \notin spoiled,
         users'[cmd[r].user] # None
  PROVE  /\ users[cmd[r].user] # None
         /\ users[cmd[r].user].team => users'[cmd[r].user].team
         /\ \/ users'[cmd[r].user].pw = users[cmd[r].user].pw
            \/ cmd[r].op = "password" /\ users'[cmd[r].user].pw = seen[r].pw
<1> DEFINE u == cmd[r].user
<1>1. cmd[r] \in Cmd /\ step[r] = "write" /\ cmd[r].op # "signUp"
  BY DEF Write, TypeOK, SigningUp
<1>2. base[r] # None /\ (cmd[r].op \in Profile => seen[r].pw = base[r].pw)
  BY <1>1 DEF LoginInv, EntityInv
<1>3. CASE UpdateTerms(r)
  BY <1>3 DEF UpdateTerms
<1>4. CASE UpdateUser(r) /\ cmd[r].op # "agree"
  <2>1. cmd[r].op = "password" \/ cmd[r].op \in Profile
    BY <1>1, <1>4 DEF Cmd
  <2>2. Differs(r) => cmd[r].op = "password"
    BY <1>2, <2>1 DEF Differs
  <2>3. users[u] # None
    BY <1>4 DEF UpdateUser
  <2> QED
    BY <1>4, <2>2, <2>3, UpdatedRow
<1> QED
  BY <1>2, <1>3, <1>4 DEF Write

\* A step keeps what is known of passwords.
LEMMA NextLoginInv == TypeOK /\ LoginInv /\ [Next]_vars => LoginInv'
<1> SUFFICES ASSUME TypeOK, LoginInv, [Next]_vars PROVE LoginInv'
  OBVIOUS
<1>0. TypeOK'
  BY NextTypeOK
<1> USE DEF tables, catalog, ids, local, history
<1>1. ASSUME NEW r \in Req, Create(r) PROVE LoginInv'
  <2>1. /\ nextId \in Id
        /\ \A u \in Id \ {nextId} : users'[u] = users[u] /\ confirmed'[u] = confirmed[u]
        /\ \/ users'[nextId] = users[nextId] /\ confirmed'[nextId] = confirmed[nextId]
           \/ users'[nextId] = NewUser(cmd[r]) /\ confirmed'[nextId] = cmd[r].pw
    BY <1>1 DEF Create, NewUser, TypeOK
  <2>2. PasswordInv'
    BY <1>1, <2>1 DEF Create, LoginInv, PasswordInv, NewUser, CreateWithLocalAuth,
              CreateWithSocialAuth
  <2>3. \A q \in Req : step'[q] \in {"reload", "write"} =>
          /\ step'[q] = step[q] /\ cmd'[q] = cmd[q] /\ seen'[q] = seen[q] /\ base'[q] = base[q]
          /\ cmd[q].user \in Id \ {nextId}
    BY <1>1, GivenOut, CredentialsAssumption DEF Create, Finish, TypeOK
  <2>4. EntityInv'
    BY <1>1, <2>1, <2>3 DEF Create, LoginInv, EntityInv
  <2> QED
    BY <2>2, <2>4 DEF LoginInv
<1>2. ASSUME NEW r \in Req, Find(r) PROVE LoginInv'
  <2>1. CASE Finish(r)
    BY <1>2, <2>1, QuietStep DEF Find, Finish, TypeOK
  <2>2. ASSUME NEW u \in Alive,
               seen' = [seen EXCEPT ![r] =
                  IF cmd[r].op = "agree"
                  THEN [pw |-> None, rows |-> agreed[u],
                        fresh |-> cmd[r].terms \ TermsOf(agreed[u])]
                  ELSE [pw |-> IF cmd[r].op = "password" THEN cmd[r].pw ELSE users[u].pw,
                        rows |-> {}, fresh |-> {}]],
               cmd' = [cmd EXCEPT ![r] = [cmd[r] EXCEPT !.user = u]],
               Go(r, "reload"), UNCHANGED <<list, base>>
        PROVE  LoginInv'
    <3>1. u \in Id /\ users[u] # None /\ step'[r] = "reload" /\ cmd[r] \in Cmd
      BY <1>2, <2>2 DEF Find, Go, TypeOK, Alive
    <3>2. u \in 0..MaxRequests /\ cmd'[r] = [cmd[r] EXCEPT !.user = u]
      BY <2>2, <3>1, CredentialsAssumption DEF TypeOK, Id
    <3>3. cmd'[r].user = u /\ cmd'[r].op = cmd[r].op
      BY <3>1, <3>2, CommandOfUser
    <3>4. cmd[r].op \in Profile => seen'[r].pw = users[u].pw
      BY <2>2 DEF TypeOK, Profile
    <3>5. \A q \in Req \ {r} : /\ step'[q] = step[q] /\ cmd'[q] = cmd[q]
                               /\ seen'[q] = seen[q] /\ base'[q] = base[q]
      BY <2>2 DEF Go, TypeOK
    <3>6. EntityInv'
      BY <1>2, <3>1, <3>3, <3>4, <3>5 DEF Find, LoginInv, EntityInv
    <3> QED
      BY <1>2, <3>6 DEF Find, LoginInv, PasswordInv
  <2> QED
    BY <1>2, <2>1, <2>2 DEF Find
<1>3. ASSUME NEW r \in Req, Reload(r) PROVE LoginInv'
  <2>1. cmd[r].user \in Id
    BY <1>3, GivenOut DEF Reload, TypeOK
  <2>2. users[cmd[r].user] # None =>
          base'[r] = [pw |-> users[cmd[r].user].pw, rows |-> agreed[cmd[r].user]] /\ base'[r] # None
    <3>1. [pw |-> users[cmd[r].user].pw, rows |-> agreed[cmd[r].user]] \in Loads
            \/ users[cmd[r].user] = None
      BY <2>1 DEF TypeOK, Loads, User
    <3> QED
      BY <1>3, <3>1, CredentialsAssumption DEF Reload, TypeOK
  <2>3. /\ step[r] = "reload" /\ step'[r] = "write"
        /\ \A q \in Req \ {r} : step'[q] = step[q] /\ base'[q] = base[q]
    BY <1>3 DEF Reload, Go, TypeOK
  <2>4. EntityInv'
    BY <1>3, <2>2, <2>3 DEF Reload, LoginInv, EntityInv
  <2> QED
    BY <1>3, <2>4 DEF Reload, LoginInv, PasswordInv
<1>4. ASSUME NEW r \in Req, Write(r) PROVE LoginInv'
  <2> USE <1>4
  <2> DEFINE u == cmd[r].user
  <2>1. u \in Id /\ step[r] = "write" /\ seen[r] # None
    BY GivenOut DEF Write, TypeOK
  <2>2. \A v \in Id \ {u} : users'[v] = users[v] /\ confirmed'[v] = confirmed[v]
    BY <2>1 DEF Write, Insert, UpdateTerms, UpdateUser, TypeOK
  <2>3. /\ \A q \in Req \ {r} : /\ step'[q] = step[q] /\ cmd'[q] = cmd[q]
                                /\ seen'[q] = seen[q] /\ base'[q] = base[q]
        /\ step'[r] = "idle"
    BY DEF Write, Finish, TypeOK
  <2>4. CASE u \in spoiled'
    <3>1. PasswordInv'
      BY <2>2, <2>4 DEF Write, LoginInv, PasswordInv
    <3>2. EntityInv'
      BY <2>1, <2>2, <2>3, <2>4, GivenOut DEF Write, LoginInv, EntityInv, TypeOK
    <3> QED
      BY <3>1, <3>2 DEF LoginInv
  <2>5. CASE u \notin spoiled' /\ users'[u] = None
    <3>1. users[u] = None
      BY <2>5, WriteKeepsUser
    <3>2. PasswordInv'
      BY <2>2, <2>5 DEF Write, LoginInv, PasswordInv
    <3>3. \A q \in Req \ {r} : step[q] = "reload" /\ cmd[q].user = u => q \in stale
      BY <2>5, <3>1 DEF Write, LoginInv, EntityInv
    <3>4. EntityInv'
      BY <2>1, <2>2, <2>3, <3>3, GivenOut DEF Write, LoginInv, EntityInv, TypeOK
    <3> QED
      BY <3>2, <3>4 DEF LoginInv
  <2>6. CASE u \notin spoiled' /\ users'[u] # None
    <3>1. r \notin stale /\ u \notin spoiled
      BY <2>6 DEF Write
    <3>2. /\ users[u] # None /\ (users[u].team => users'[u].team)
          /\ \/ users'[u].pw = users[u].pw
             \/ cmd[r].op = "password" /\ users'[u].pw = seen[r].pw
      BY <2>6, <3>1, FreshWrite
    <3>3. users'[u].pw = confirmed'[u] /\ users'[u].team
      BY <2>1, <2>6, <3>1, <3>2 DEF Write, LoginInv, PasswordInv, TypeOK
    <3>4. PasswordInv'
      BY <2>2, <3>3 DEF Write, LoginInv, PasswordInv
    <3>5. ASSUME NEW q \in Req \ {r}, q \notin stale', step[q] = "reload", cmd[q].user = u,
                 cmd[q].op \in Profile
          PROVE  users'[u].pw = users[u].pw
      BY <2>1, <3>2, <3>5 DEF Write, Overtaken, Loaded
    <3>6. EntityInv'
      BY <2>1, <2>2, <2>3, <2>6, <3>1, <3>2, <3>5, GivenOut DEF Write, LoginInv, EntityInv, TypeOK
    <3> QED
      BY <3>4, <3>6 DEF LoginInv
  <2> QED
    BY <2>4, <2>5, <2>6
<1>5. ASSUME NEW u \in Id, Leave(u) PROVE LoginInv'
  <2>1. PasswordInv'
    BY <1>5 DEF Leave, LoginInv, PasswordInv, TypeOK
  <2>2. EntityInv'
    BY <1>5 DEF Leave, Loaded, LoginInv, EntityInv, TypeOK
  <2> QED
    BY <2>1, <2>2 DEF LoginInv
<1>6. ASSUME NEW r \in Req, ~Create(r), ~Find(r), ~Reload(r), ~Write(r), Step(r) PROVE LoginInv'
  BY <1>6, QuietStep DEF Step, SignUp, GetRequiredTermIds, ChangePassword, ChangeProfile, AgreeTerm,
     Begin, GetTermList, FindTerms, SaveTermList, CheckTerms, Go, Finish, TypeOK
<1>7. (\E t \in Term : AddTerm(t)) \/ TermsEvicted \/ UNCHANGED vars => LoginInv'
  BY QuietStep DEF AddTerm, TermsEvicted, vars
<1> QED
  BY <1>1, <1>2, <1>3, <1>4, <1>5, <1>6, <1>7 DEF Next, Step

\* A step leaves an address to one user.
LEMMA NextEmailInv == TypeOK /\ EmailInv /\ [Next]_vars => EmailInv'
<1> SUFFICES ASSUME TypeOK, EmailInv, [Next]_vars PROVE EmailInv'
  OBVIOUS
<1> USE DEF EmailInv, Alive, tables, catalog, ids, local, history
<1>1. ASSUME NEW r \in Req, Create(r) PROVE EmailInv'
  BY <1>1 DEF Create, EmailTaken, CreateWithLocalAuth, CreateWithSocialAuth, TypeOK
<1>2. ASSUME NEW r \in Req, Write(r) PROVE EmailInv'
  <2>1. cmd[r].user \in Id
    BY <1>2, GivenOut DEF Write, TypeOK
  <2>2. CASE Insert(r)
    BY <2>1, <2>2 DEF Insert, EmailTaken, TypeOK
  <2>3. CASE UpdateTerms(r)
    BY <2>3 DEF UpdateTerms
  <2>4. CASE UpdateUser(r)
    BY <2>1, <2>4 DEF UpdateUser, TypeOK
  <2> QED
    BY <1>2, <2>2, <2>3, <2>4 DEF Write
<1>3. ASSUME NEW u \in Id, Leave(u) PROVE EmailInv'
  BY <1>3 DEF Leave, TypeOK
<1>4. ASSUME NEW r \in Req, ~Create(r), ~Write(r), Step(r) PROVE UNCHANGED users
  BY <1>4 DEF Step, SignUp, GetRequiredTermIds, ChangePassword, ChangeProfile, AgreeTerm, Begin,
     Find, Reload, GetTermList, FindTerms, SaveTermList, CheckTerms
<1>5. (\E t \in Term : AddTerm(t)) \/ TermsEvicted \/ UNCHANGED vars => UNCHANGED users
  BY DEF AddTerm, TermsEvicted, vars
<1> QED
  BY <1>1, <1>2, <1>3, <1>4, <1>5 DEF Next

\* A member who was never saved from an overtaken entity signs in with the password
\* last set, whatever else of the member is at work.
THEOREM LoginKeepsWorking == Spec => []LoginWorks
<1>1. TypeOK /\ LoginInv /\ EmailInv => LoginWorks
  <2> SUFFICES ASSUME TypeOK, LoginInv, EmailInv, NEW u \in Alive \ spoiled
               PROVE  /\ TokenIssued(u)
                      /\ CheckUserEmail(users[u].email)
                           = [isExist |-> TRUE, local |-> confirmed[u] # None]
                      /\ confirmed[u] # None => /\ LoginServed(users[u].email, confirmed[u])
                                                /\ PasswordCorrect(u, confirmed[u])
    BY DEF LoginWorks
  <2>1. users[u].pw = confirmed[u] /\ users[u].team /\ u \in FindUserByEmail(users[u].email)
    BY DEF LoginInv, PasswordInv, Alive, FindUserByEmail
  <2>2. SignedUpLocally(users[u].email) <=> users[u].pw # None
    BY DEF SignedUpLocally, FindUserByEmail, EmailInv
  <2>3. TokenIssued(u)
    BY <2>1 DEF TokenIssued
  <2>4. CheckUserEmail(users[u].email) = [isExist |-> TRUE, local |-> confirmed[u] # None]
    <3>1. (confirmed[u] # None) = SignedUpLocally(users[u].email)
      <4>1. SignedUpLocally(users[u].email) \in BOOLEAN
        BY DEF SignedUpLocally
      <4> QED
        BY <2>1, <2>2, <4>1
    <3>2. (FindUserByEmail(users[u].email) # {}) = TRUE
      BY <2>1
    <3> QED
      BY <3>1, <3>2 DEF CheckUserEmail
  <2>5. ASSUME confirmed[u] # None
        PROVE  LoginServed(users[u].email, confirmed[u]) /\ PasswordCorrect(u, confirmed[u])
    BY <2>1, <2>5 DEF LoginServed, LoginLocalUser, VerifyLocalAuth, ValidatePassword, PasswordCorrect
  <2> QED
    BY <2>3, <2>4, <2>5
<1>2. Init => EmailInv
  BY DEF Init, EmailInv, Alive
<1> QED
  BY <1>1, <1>2, InitLoginInv, NextLoginInv, NextEmailInv, TypeCorrect, PTL DEF Spec
=============================================================================
