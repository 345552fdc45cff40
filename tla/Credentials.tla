------------------------------ MODULE Credentials ------------------------------
(***************************************************************************)
(* What a member owns in the database besides registrations: a password,   *)
(* and agreements to the terms.  Requests load the user with one of its    *)
(* relations, work on the entity and save it; save reads the row again and *)
(* writes what differs.  Nothing locks the user in between, so requests of *)
(* one member overlap freely, leaving included.                            *)
(*                                                                         *)
(* A change of the image or the nickname loads the password as well, and a *)
(* save that finds no user any more inserts it again.                      *)
(*                                                                         *)
(* Terms are written into their table by hand; their list is cached in     *)
(* Redis without an expiry when a member first agrees to one.  All are     *)
(* required.  Nickname, image and what leaving does outside the database   *)
(* are AccountCache's, social accounts are SocialAccounts'.                *)
(***************************************************************************)
EXTENDS Integers, FiniteSets

CONSTANTS Email, Password, Term,
          None,          \* no row, no password
          Req,           \* bound on the requests at work at once
          MaxRequests    \* bound on the requests of a behaviour

\* Ids of users, from a sequence; a failed INSERT uses a number up as well.
Id == 1..MaxRequests

VARIABLES
  users,     \* the user and local_auth tables, [Id -> [email, pw, team]]
  agreed,    \* the user_term table, [Id -> set of rows]
  terms,     \* the term table
  cached,    \* the cached list of terms, or None
  nextId,
  left,      \* [Id -> how often the user has left]; see Row
  step,      \* [Req -> what the request does next]
  cmd,       \* [Req -> [email, op, pw, terms, user]]
  list,      \* [Req -> the terms it has read]
  seen,      \* [Req -> the entity in memory, [pw, rows, fresh]]
  base,      \* [Req -> what save has read again, [pw, rows], or None]
  confirmed, \* history: [Id -> the password last set]
  late,      \* history: terms added while an older list was in use
  stale,     \* history: requests whose entity was overtaken before save read the row
  spoiled,   \* history: users who were saved from such an entity
  served

tables  == <<users, agreed>>
catalog == <<terms, cached, late>>
ids     == <<nextId, left>>
local   == <<cmd, list, seen, base>>
history == <<confirmed, stale, spoiled>>
vars    == <<tables, catalog, ids, step, local, history, served>>

Alive         == {u \in Id : users[u] # None}
EmailTaken(e) == \E u \in Alive : users[u].email = e

\* Requests that hold an entity of u which save has not compared with the row.
Loaded(u) == {q \in Req : step[q] = "reload" /\ cmd[q].user = u}

\* The changes of the profile: that of the team loads and saves the team too.
Profile == {"image", "team"}

\* A row of user_term and its id: between two rows of a user for one term the
\* user has left, so that the term and the number of departures tell them apart.
Row == [term : Term, era : Nat]

TermsOf(rows) == {x.term : x \in rows}

\* The rows that agreeing to the terms T inserts.
NewRows(T, era) == {[term |-> t, era |-> era] : t \in T}

\* An entity holds the rows it was loaded with, and terms newly agreed to, which
\* have no row and no id yet.
User   == [email : Email, pw : Password \cup {None}, team : BOOLEAN]
Entity == [pw : Password \cup {None}, rows : SUBSET Row, fresh : SUBSET Term]
Loads  == [pw : Password \cup {None}, rows : SUBSET Row]
Cmd    == [email : Email, op : {"signUp", "password", "agree"} \cup Profile,
           pw : Password \cup {None}, terms : SUBSET Term, user : 0..MaxRequests]

SigningUp == {"required", "create"}

ASSUME CredentialsAssumption ==
  /\ MaxRequests \in Nat
  /\ None \notin Password \cup User \cup Entity \cup Loads \cup Cmd
  /\ \A T \in SUBSET Term : T # None

Init ==
  /\ users = [u \in Id |-> None] /\ agreed = [u \in Id |-> {}]
  /\ terms = {} /\ cached = None /\ late = {}
  /\ nextId = 1 /\ left = [u \in Id |-> 0]
  /\ step = [r \in Req |-> "idle"] /\ cmd = [r \in Req |-> None]
  /\ list = [r \in Req |-> {}] /\ seen = [r \in Req |-> None] /\ base = [r \in Req |-> None]
  /\ confirmed = [u \in Id |-> None] /\ stale = {} /\ spoiled = {}
  /\ served = 0

Begin(r, c, first) ==
  /\ step[r] = "idle" /\ served < MaxRequests
  /\ step' = [step EXCEPT ![r] = first]
  /\ cmd' = [cmd EXCEPT ![r] = c]
  /\ served' = served + 1
  /\ UNCHANGED <<tables, catalog, ids, list, seen, base, history>>

Go(r, next) == step' = [step EXCEPT ![r] = next]

\* The answer, an error or not.
Finish(r) ==
  /\ step' = [step EXCEPT ![r] = "idle"]
  /\ cmd'  = [cmd  EXCEPT ![r] = None]
  /\ list' = [list EXCEPT ![r] = {}]
  /\ seen' = [seen EXCEPT ![r] = None]
  /\ base' = [base EXCEPT ![r] = None]

-----------------------------------------------------------------------------
(* Signing up, with a password or through a social account.                 *)

SignUp(r) ==
  \E e \in Email, p \in Password \cup {None} :
    Begin(r, [email |-> e, op |-> "signUp", pw |-> p, terms |-> {}, user |-> 0], "required")

\* The required terms are agreed to without being asked about.
GetRequiredTermIds(r) ==
  /\ step[r] = "required"
  /\ list' = [list EXCEPT ![r] = terms]
  /\ Go(r, "create")
  /\ UNCHANGED <<tables, catalog, ids, cmd, seen, base, history, served>>

CreateWithLocalAuth(c)  == [email |-> c.email, pw |-> c.pw, team |-> TRUE]
CreateWithSocialAuth(c) == [email |-> c.email, pw |-> None, team |-> TRUE]

\* INSERT and COMMIT; an address that is taken makes both fail.
Create(r) ==
  /\ step[r] = "create" /\ nextId \in Id
  /\ IF EmailTaken(cmd[r].email)
     THEN UNCHANGED <<users, agreed, confirmed>>
     ELSE /\ users'  = [users  EXCEPT ![nextId] = IF cmd[r].pw = None
                                                 THEN CreateWithSocialAuth(cmd[r])
                                                 ELSE CreateWithLocalAuth(cmd[r])]
          /\ agreed' = [agreed EXCEPT ![nextId] = NewRows(list[r], left[nextId])]
          /\ confirmed' = [confirmed EXCEPT ![nextId] = cmd[r].pw]
  /\ nextId' = nextId + 1
  /\ Finish(r)
  /\ UNCHANGED <<catalog, left, stale, spoiled, served>>

-----------------------------------------------------------------------------
(* The requests that load a user, and what they make of it in memory.       *)

\* By address, for anyone; the body is an address and the new password.
ChangePassword(r) ==
  \E e \in Email, p \in Password :
    Begin(r, [email |-> e, op |-> "password", pw |-> p, terms |-> {}, user |-> 0], "find")

ChangeProfile(r) ==
  \E u \in Alive, f \in Profile :
    Begin(r, [email |-> users[u].email, op |-> f, pw |-> None, terms |-> {}, user |-> u], "find")

AgreeTerm(r) ==
  \E u \in Alive, T \in SUBSET Term \ {{}} :
    Begin(r, [email |-> users[u].email, op |-> "agree", pw |-> None, terms |-> T, user |-> u],
          "list")

\* The entity that a row and its relation become, changed as asked.  A new
\* password needs an old one, a new team needs an old one.
Find(r) ==
  LET c    == cmd[r]
      Rows == {u \in Alive : /\ IF c.op = "password" THEN users[u].email = c.email
                                                     ELSE u = c.user
                             /\ c.op = "password" => users[u].pw # None
                             /\ c.op = "team" => users[u].team}
  IN /\ step[r] = "find"
     /\ \/ /\ Rows = {}
           /\ Finish(r)
        \/ \E u \in Rows :
             /\ seen' = [seen EXCEPT ![r] =
                  IF c.op = "agree"
                  THEN [pw |-> None, rows |-> agreed[u], fresh |-> c.terms \ TermsOf(agreed[u])]
                  ELSE [pw |-> IF c.op = "password" THEN c.pw ELSE users[u].pw,
                        rows |-> {}, fresh |-> {}]]
             /\ cmd' = [cmd EXCEPT ![r] = [c EXCEPT !.user = u]]
             /\ Go(r, "reload")
             /\ UNCHANGED <<list, base>>
     /\ UNCHANGED <<tables, catalog, ids, history, served>>

-----------------------------------------------------------------------------
(* The list of terms an agreement is checked against.                       *)

\* Mutant: a list counts as cached even when it is empty.
Stored(c) == c # None

\* A cached list without a term is read as if there were none.
Usable(c) == c # None /\ c # {}

GetTermList(r) ==
  /\ step[r] = "list"
  /\ IF Usable(cached)
     THEN list' = [list EXCEPT ![r] = cached] /\ Go(r, "check")
     ELSE Go(r, "terms") /\ UNCHANGED list
  /\ UNCHANGED <<tables, catalog, ids, cmd, seen, base, history, served>>

FindTerms(r) ==
  /\ step[r] = "terms"
  /\ list' = [list EXCEPT ![r] = terms]
  /\ Go(r, "set")
  /\ UNCHANGED <<tables, catalog, ids, cmd, seen, base, history, served>>

\* Without an expiry, and whatever has been stored in the meantime.
SaveTermList(r) ==
  /\ step[r] = "set"
  /\ cached' = list[r]
  /\ Go(r, "check")
  /\ UNCHANGED <<tables, terms, late, ids, local, history, served>>

\* 400 for an id that the list lacks.
CheckTerms(r) ==
  /\ step[r] = "check"
  /\ IF cmd[r].terms \subseteq list[r]
     THEN Go(r, "find") /\ UNCHANGED local
     ELSE Finish(r)
  /\ UNCHANGED <<tables, catalog, ids, history, served>>

-----------------------------------------------------------------------------
(* userRepo.save: the row is read again, then what differs is written, in   *)
(* one transaction.                                                         *)

Reload(r) ==
  LET u == cmd[r].user
  IN /\ step[r] = "reload"
     /\ base' = [base EXCEPT ![r] = IF users[u] = None THEN None
                                    ELSE [pw |-> users[u].pw, rows |-> agreed[u]]]
     /\ Go(r, "write")
     /\ UNCHANGED <<tables, catalog, ids, cmd, list, seen, history, served>>

\* The user was gone: the entity is inserted, with the relations it carries.
Insert(r) ==
  LET u == cmd[r].user
  IN IF users[u] # None \/ EmailTaken(cmd[r].email)
     THEN UNCHANGED tables
     ELSE /\ users'  = [users EXCEPT ![u] =
                 [email |-> cmd[r].email, pw |-> seen[r].pw, team |-> cmd[r].op = "team"]]
          /\ agreed' = [agreed EXCEPT ![u] = seen[r].rows \cup NewRows(seen[r].fresh, left[u])]

\* Rows are compared by id.  Those that the entity does not hold are taken from the
\* user, those that the table lacks are inserted under their old id.
Orphans(r)  == base[r].rows \ seen[r].rows
Inserted(r) == (seen[r].rows \ base[r].rows) \cup NewRows(seen[r].fresh, left[cmd[r].user])

\* A member agrees to a term once.
Twice(r) == TermsOf(Inserted(r)) \cap TermsOf(agreed[cmd[r].user]) # {}

\* Mutant: a row of user_term may be left without its user.
RefusedTwice(r) == Twice(r)

\* A row that the entity does not hold would lose its user, which the column does
\* not allow: an agreement made in between fails this one, to the same term or not.
Refused(r) == Orphans(r) # {} \/ Twice(r)

\* The new agreements are inserted.
UpdateTerms(r) ==
  LET u == cmd[r].user
  IN /\ IF users[u] = None \/ Refused(r)
        THEN UNCHANGED agreed
        ELSE agreed' = [agreed EXCEPT ![u] = (@ \ Orphans(r)) \cup Inserted(r)]
     /\ UNCHANGED users

\* Mutant: save writes the entity as it is, whatever the row holds.
Held(r) == seen[r].pw # None

\* The hash in the entity is another one; that of a new password always is.
Differs(r) == cmd[r].op = "password" \/ seen[r].pw # base[r].pw

\* The row of local_auth is inserted when save found none and updated when the
\* hash differs; an UPDATE writes nothing when the row has gone.  An entity
\* without a password would take the row's user away, which its key forbids.
UpdateUser(r) ==
  LET u       == cmd[r].user
      row     == users[u]
      fails   == Differs(r) /\ (seen[r].pw = None \/ (base[r].pw = None /\ row.pw # None))
      written == Differs(r) /\ (base[r].pw = None \/ row.pw # None)
  IN /\ IF row = None \/ fails
        THEN UNCHANGED users
        ELSE users' = [users EXCEPT ![u] = [email |-> row.email,
                                            pw    |-> IF written THEN seen[r].pw ELSE row.pw,
                                            team  |-> row.team \/ cmd[r].op = "team"]]
     /\ UNCHANGED agreed

\* Requests that hold the password which is being replaced.
Overtaken(r) == IF cmd[r].op = "password"
                THEN {q \in Loaded(cmd[r].user) : cmd[q].op \in Profile} ELSE {}

Write(r) ==
  LET u == cmd[r].user
  IN /\ step[r] = "write"
     /\ \/ base[r] = None /\ Insert(r)
        \/ base[r] # None /\ cmd[r].op = "agree" /\ UpdateTerms(r)
        \/ base[r] # None /\ cmd[r].op # "agree" /\ UpdateUser(r)
     /\ confirmed' = IF cmd[r].op = "password" /\ users'[u] # None /\ users'[u].pw = seen[r].pw
                     THEN [confirmed EXCEPT ![u] = seen[r].pw] ELSE confirmed
     /\ stale'   = (stale \ {r}) \cup Overtaken(r)
     /\ spoiled' = IF r \in stale /\ users'[u] # None THEN spoiled \cup {u} ELSE spoiled
     /\ Finish(r)
     /\ UNCHANGED <<catalog, ids, served>>

-----------------------------------------------------------------------------

\* Mutant: the rows of user_term outlive their user.
Outlive(u) == agreed

\* ON DELETE CASCADE
Cascade(u) == [agreed EXCEPT ![u] = {}]

\* deleteUser: the rows of the other tables go with the user's.
Leave(u) ==
  /\ users[u] # None /\ served < MaxRequests
  /\ users'  = [users  EXCEPT ![u] = None]
  /\ agreed' = Cascade(u)
  /\ stale'  = stale \cup Loaded(u)
  /\ left'   = [left EXCEPT ![u] = @ + 1]
  /\ served' = served + 1
  /\ UNCHANGED <<catalog, nextId, step, local, confirmed, spoiled>>

\* The terms of lists that are cached or about to be.
InUse == (IF cached = None THEN {} ELSE cached)
           \cup UNION {list[r] : r \in {q \in Req : step[q] = "set"}}

\* A term is added to the table.
AddTerm(t) ==
  /\ t \notin terms
  /\ terms' = terms \cup {t}
  /\ late'  = IF InUse = {} THEN late ELSE late \cup {t}
  /\ UNCHANGED <<tables, cached, ids, step, local, history, served>>

\* Redis drops the list, or is emptied.
TermsEvicted ==
  /\ cached # None
  /\ cached' = None
  /\ late' = {t \in late : \E r \in Req : step[r] = "set" /\ list[r] # {} /\ t \notin list[r]}
  /\ UNCHANGED <<tables, terms, ids, step, local, history, served>>

Step(r) ==
  \/ SignUp(r) \/ GetRequiredTermIds(r) \/ Create(r)
  \/ ChangePassword(r) \/ ChangeProfile(r) \/ AgreeTerm(r)
  \/ Find(r) \/ Reload(r) \/ Write(r)
  \/ GetTermList(r) \/ FindTerms(r) \/ SaveTermList(r) \/ CheckTerms(r)

Next ==
  \/ \E r \in Req : Step(r)
  \/ \E u \in Id : Leave(u)
  \/ \E t \in Term : AddTerm(t)
  \/ TermsEvicted

Spec == Init /\ [][Next]_vars

-----------------------------------------------------------------------------
(* What the requests that only read answer.                                 *)

FindUserByEmail(e) == {u \in Alive : users[u].email = e}

\* An error for a user without a password.
ValidatePassword(u, p) == users[u].pw # None /\ users[u].pw = p

VerifyLocalAuth(u, p) == users[u].pw # None /\ ValidatePassword(u, p)

LoginLocalUser(e, p) == {u \in FindUserByEmail(e) : VerifyLocalAuth(u, p)}

\* The controller reads the team as well.
LoginServed(e, p) == \E u \in LoginLocalUser(e, p) : users[u].team

\* reissueAcToken, for a member whose access token has run out.
TokenIssued(u) == u \in Alive /\ users[u].team

\* checkPassword, before the page for a new password.
PasswordCorrect(u, p) == u \in Alive /\ ValidatePassword(u, p)

\* isExistEmail, which tells a sign-up by password from one through a provider.
SignedUpLocally(e) == \E u \in FindUserByEmail(e) : users[u].pw # None

CheckUserEmail(e) == [isExist |-> FindUserByEmail(e) # {}, local |-> SignedUpLocally(e)]

\* getNotAgreedRequiredTermIds, for the check of a token.
NotAgreed(u) == terms \ TermsOf(agreed[u])

\* What agreeTerm would take.
Acceptable == IF Usable(cached) THEN cached ELSE terms

-----------------------------------------------------------------------------
(* Properties.                                                              *)

\* Every variable has its type, a row of user_term belongs to a user, ids are
\* given out in order, and a request holds what its step has loaded.
TypeOK ==
  /\ users \in [Id -> {None} \cup User]
  /\ agreed \in [Id -> SUBSET Row] /\ left \in [Id -> Nat]
  /\ terms \subseteq Term /\ late \subseteq terms
  /\ cached # None => cached \subseteq terms
  /\ nextId \in 1..MaxRequests + 1 /\ served \in 0..MaxRequests
  /\ step \in [Req -> SigningUp \cup {"idle", "list", "terms", "set", "check", "find",
                                      "reload", "write"}]
  /\ cmd \in [Req -> {None} \cup Cmd] /\ list \in [Req -> SUBSET Term]
  /\ seen \in [Req -> {None} \cup Entity] /\ base \in [Req -> {None} \cup Loads]
  /\ confirmed \in [Id -> Password \cup {None}]
  /\ stale \subseteq Req /\ spoiled \subseteq Id
  /\ \A u \in Id : (users[u] = None => agreed[u] = {}) /\ (u >= nextId => users[u] = None)
  /\ \A r \in Req :
       /\ list[r] \subseteq terms
       /\ step[r] # "idle" => cmd[r] # None /\ (cmd[r].op = "signUp") = (step[r] \in SigningUp)
       /\ step[r] \in {"reload", "write"} => cmd[r].user \in 1..nextId - 1 /\ seen[r] # None

\* What a member has agreed to stays agreed to for as long as the account
\* exists, however the requests that agree overlap (agreeTerms, UserTerm).
AgreementsStay ==
  [][\A u \in Id : users[u] # None /\ users'[u] # None => agreed[u] \subseteq agreed'[u]]_vars

\* A member signs in, and passes the check of the password, with the one last set,
\* is issued tokens, and is told how the account was signed up.  Excepted are members
\* who were saved from an entity loaded before a change of the password or before
\* leaving: the change of a profile that overlaps with either puts the old password
\* back or the account without a team (loginLocalUser, updateUserProfileImage).
LoginWorks ==
  \A u \in Alive \ spoiled :
    /\ TokenIssued(u)
    /\ CheckUserEmail(users[u].email) = [isExist |-> TRUE, local |-> confirmed[u] # None]
    /\ confirmed[u] # None => /\ LoginServed(users[u].email, confirmed[u])
                              /\ PasswordCorrect(u, confirmed[u])

\* The terms that the check of a token asks a member to agree to can be agreed
\* to, but for those added while the list in use was an older one, which has no
\* expiry (getNotAgreedRequiredTermIds, agreeTerm, getTermList).
OffersAccepted == \A u \in Alive : NotAgreed(u) \ late \subseteq Acceptable
=============================================================================
