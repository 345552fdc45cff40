---------------------------- MODULE SocialAccounts ----------------------------
(***************************************************************************)
(* Signing in and linking by social accounts: the flow through the         *)
(* provider, with its one-time keys in Redis, and the tables of users and  *)
(* social accounts it ends in.                                             *)
(*                                                                         *)
(* A flow is three requests of a browser: the entry point saves a state    *)
(* for 60 s and sends the browser to the provider; the callback trades the *)
(* state for a pid, kept for 30 s with the provider's code; the handler    *)
(* trades the pid for what the provider says of the account, and then logs *)
(* in, signs up or links.  The browser may stop at any point, or send one  *)
(* of its requests twice.                                                  *)
(*                                                                         *)
(* Of a user only the e-mail address and whether there are a password and  *)
(* a supported team are kept: nickname, rank rows and copies in Redis are  *)
(* AccountCache's.  The requests of one user overlap, leaving included,    *)
(* and the address an account has at its provider may change at any time.  *)
(***************************************************************************)
EXTENDS Integers, FiniteSets, FiniteSetsExt

CONSTANTS Social,        \* accounts at the providers
          Provider,
          ProviderOf,    \* [Social -> Provider]
          Email,
          MailOf,        \* [Social -> Email], what the provider says at first
          NoUser,        \* an absent row of the user table, and what is not known yet
          Req,           \* bound on the flows and requests at work at once
          MaxRequests    \* bound on the requests and changes of address of a behaviour

ASSUME SocialAssumption ==
  /\ ProviderOf \in [Social -> Provider] /\ MailOf \in [Social -> Email]
  /\ NoUser \notin Email /\ MaxRequests \in Nat
  /\ NoUser \notin [email : Email, local : BOOLEAN, team : BOOLEAN]

\* Ids of users and of rows of social_auth, from one counter: no request
\* inserts more than one of each, so that the guards nextId \in Id never hold
\* anything up.  Users are found in the order of their ids.
Id == 1..MaxRequests

VARIABLES
  users,     \* the user table, [Id -> [email, local, team]]
  links,     \* the social_auth table, a set of [id, primary, social, user]
  nextId,    \* the sequence; a failed INSERT uses a number up as well
  mail,      \* [Social -> the address the provider has now]
  step,      \* [Req -> what the flow or request does next]
  cmd,       \* [Req -> [again, flow, mail, social, user]]: whether its key was read
             \* twice, the address it knows, user 0 when nobody is signed in
  seen,      \* [Req -> the rows of social_auth loaded with the user]
  base,      \* [Req -> the set with those that save has loaded, {} if the user is gone]
  moved,     \* history: social accounts whose address has changed
  overtaken, \* history: users who left while a link of theirs was about to be saved
  served

tables == <<users, links, nextId>>
hands  == <<seen, base>>
aside  == <<mail, moved, overtaken>>
vars   == <<tables, step, cmd, hands, aside, served>>

Alive    == {u \in Id : users[u] # NoUser}
Linked(u) == {l \in links : l.user = u}

\* Keys in Redis: the state of a flow at the provider, the pid of one that came
\* back.
\* Mutant: the pid is kept without a time to live.
StateExpiring == {"consent"}
Expiring      == {"consent", "coded"}

Init ==
  /\ users = [u \in Id |-> NoUser] /\ links = {} /\ nextId = 1
  /\ mail = MailOf /\ moved = {} /\ overtaken = {}
  /\ step = [r \in Req |-> "idle"] /\ cmd = [r \in Req |-> NoUser]
  /\ seen = [r \in Req |-> {}] /\ base = [r \in Req |-> {}]
  /\ served = 0

Begin(r, c, first) ==
  /\ step[r] = "idle" /\ served < MaxRequests
  /\ step' = [step EXCEPT ![r] = first]
  /\ cmd'  = [cmd EXCEPT ![r] = c]
  /\ served' = served + 1

Finish(r) ==
  /\ step' = [step EXCEPT ![r] = "idle"]
  /\ cmd'  = [cmd EXCEPT ![r] = NoUser]
  /\ seen' = [seen EXCEPT ![r] = {}]
  /\ base' = [base EXCEPT ![r] = {}]

Go(r, next) == step' = [step EXCEPT ![r] = next] /\ UNCHANGED <<cmd, hands>>

-----------------------------------------------------------------------------
(* The flow.                                                                *)

\* A request for a flow or a link that is just beginning.
Fresh(flow, s, u) ==
  [again |-> FALSE, flow |-> flow, mail |-> NoUser, social |-> s, user |-> u]

\* A person signs in with s,
EnterLogin(r) ==
  /\ \E s \in Social : Begin(r, Fresh("login", s, 0), "consent")
  /\ UNCHANGED <<tables, hands, aside>>

\* or, signed in as u, links s.
EnterLink(r) ==
  /\ \E s \in Social, u \in Alive : Begin(r, Fresh("link", s, u), "consent")
  /\ UNCHANGED <<tables, hands, aside>>

\* A key is read, and deleted by a call of its own: in between, the same request
\* sent once more finds the key as well (a bound: twice, not more often).
Twice(q, r) ==
  /\ step[q] = "idle" /\ served < MaxRequests
  /\ step[r] \in {"callback", "pid"} /\ ~cmd[r].again
  /\ cmd' = [cmd EXCEPT ![r].again = TRUE, ![q] = [cmd[r] EXCEPT !.again = TRUE]]
  /\ step' = [step EXCEPT ![q] = step[r]]
  /\ served' = served + 1
  /\ UNCHANGED <<tables, hands, aside>>

\* The callback reads the state,
Callback(r) ==
  /\ step[r] = "consent"
  /\ Go(r, "callback")
  /\ UNCHANGED <<tables, aside, served>>

\* deletes it and saves the provider's code under a pid of its own.
SaveCode(r) ==
  /\ step[r] = "callback"
  /\ step' = [step EXCEPT ![r] = "coded"]
  /\ cmd' = [cmd EXCEPT ![r].again = FALSE]
  /\ UNCHANGED <<tables, hands, aside, served>>

\* The handler reads the pid,
TakePid(r) ==
  /\ step[r] = "coded"
  /\ Go(r, "pid")
  /\ UNCHANGED <<tables, aside, served>>

\* deletes it,
DropPid(r) ==
  /\ step[r] = "pid"
  /\ Go(r, "exchange")
  /\ UNCHANGED <<tables, aside, served>>

\* and the provider says whose code it is and the address of the moment, or refuses.
Exchange(r) ==
  /\ step[r] = "exchange"
  /\ \/ /\ step' = [step EXCEPT ![r] = IF cmd[r].flow = "login" THEN "find" ELSE "load"]
        /\ cmd' = [cmd EXCEPT ![r].mail = mail[cmd[r].social]]
        /\ UNCHANGED hands
     \/ Finish(r)
  /\ UNCHANGED <<tables, aside, served>>

\* The owner of a social account gives it another address.
ChangeMail ==
  /\ served < MaxRequests
  /\ \E s \in Social, e \in Email :
       /\ e # mail[s]
       /\ mail' = [mail EXCEPT ![s] = e]
       /\ moved' = moved \cup {s}
  /\ served' = served + 1
  /\ UNCHANGED <<tables, step, cmd, hands, overtaken>>

\* A key lapses or is evicted, and with it a flow: the browser that comes back
\* with it is refused.
Lapse(r) ==
  /\ step[r] \in Expiring
  /\ Finish(r)
  /\ UNCHANGED <<tables, aside, served>>

\* Redis or the database refuses a command: a 500, and the key is left to lapse.
Refused(r) ==
  /\ step[r] \in {"callback", "pid", "find", "create", "load", "save", "store", "remove"}
  /\ Finish(r)
  /\ UNCHANGED <<tables, aside, served>>

-----------------------------------------------------------------------------
(* Logging in.                                                              *)

\* Users that are linked to s or have the address e, and the one findOne returns.
Candidates(s, e) ==
  {u \in Alive : users[u].email = e \/ \E l \in Linked(u) : l.social = s}
Found(s, e) == Min(Candidates(s, e))
Owns(u, s)  == \E l \in Linked(u) : l.social = s

\* Nobody yet, the user to log in, or a refusal because of the address.
FindSocialUserOrValidate(s, e) ==
  IF Candidates(s, e) = {} THEN [isNewUser |-> TRUE, user |-> {}]
  ELSE [isNewUser |-> FALSE, user |-> {Found(s, e)} \cap {u \in Alive : Owns(u, s)}]

\* handleSocialLogin: tokens, a sign-up, or an error.
Find(r) ==
  /\ step[r] = "find"
  /\ IF FindSocialUserOrValidate(cmd[r].social, cmd[r].mail).isNewUser
     THEN Go(r, "create") ELSE Finish(r)
  /\ UNCHANGED <<tables, aside, served>>

\* Mutant: social_auth has no unique key on (sub, provider).
NeverTaken(s) == FALSE

\* The unique keys.
SocialTaken(s) == \E l \in links : l.social = s

\* Mutant: the e-mail column of the user table is not unique.
NeverUsed(e) == FALSE

EmailTaken(e)  == \E u \in Alive : users[u].email = e

\* createSocialUser and COMMIT.  An INSERT waits for the transaction that holds
\* its keys, so it and the COMMIT are one step.
Create(r) ==
  LET s == cmd[r].social
      e == cmd[r].mail
  IN /\ step[r] = "create" /\ nextId \in Id
     /\ IF EmailTaken(e) \/ SocialTaken(s)
        THEN UNCHANGED <<users, links>>
        ELSE /\ users' = [users EXCEPT ![nextId] = [email |-> e, local |-> FALSE, team |-> TRUE]]
             /\ links' = links \cup
                  {[id |-> nextId, primary |-> TRUE, social |-> s, user |-> nextId]}
     /\ nextId' = nextId + 1
     /\ Finish(r)
     /\ UNCHANGED <<aside, served>>

\* registerLocalUser; a refused one changes nothing.
RegisterLocalUser ==
  /\ served < MaxRequests /\ nextId \in Id
  /\ \E e \in Email :
       /\ ~EmailTaken(e)
       /\ users' = [users EXCEPT ![nextId] = [email |-> e, local |-> TRUE, team |-> TRUE]]
  /\ nextId' = nextId + 1
  /\ served' = served + 1
  /\ UNCHANGED <<links, step, cmd, hands, aside>>

-----------------------------------------------------------------------------
(* Linking and unlinking.                                                   *)

\* linkSocial loads the user with the social accounts; addSocialAuth looks there.
\* For a user who has left there is nothing to look in, an error.
LinkLoad(r) ==
  LET u == cmd[r].user
  IN /\ step[r] = "load"
     /\ IF u \notin Alive \/ Owns(u, cmd[r].social)
        THEN Finish(r)
        ELSE /\ seen' = [seen EXCEPT ![r] = Linked(u)]
             /\ cmd' = [cmd EXCEPT ![r].mail = users[u].email]
             /\ step' = [step EXCEPT ![r] = "save"]
             /\ UNCHANGED base
     /\ UNCHANGED <<tables, aside, served>>

\* save(user) loads the user's rows once more to compare.
LinkReload(r) ==
  LET u == cmd[r].user
  IN /\ step[r] = "save"
     /\ base' = [base EXCEPT ![r] = IF u \in Alive THEN {Linked(u)} ELSE {}]
     /\ step' = [step EXCEPT ![r] = "store"]
     /\ UNCHANGED <<tables, cmd, seen, aside, served>>

\* Mutant: the row is saved by itself and belongs to nobody.
Unowned(r) == [id |-> nextId, primary |-> FALSE, social |-> cmd[r].social, user |-> NoUser]

\* What addSocialAuth adds to the array.
Added(r) == [id |-> nextId, primary |-> FALSE, social |-> cmd[r].social, user |-> cmd[r].user]

\* The user of the entity as an INSERT writes it: no relation but the social
\* accounts was loaded.
Reinserted(r) == [email |-> cmd[r].mail, local |-> FALSE, team |-> FALSE]

\* Then it makes the table agree with the entity.  A row the array lacks would lose
\* its user_id, which is NOT NULL: then all fails.  A row, or the user, that was not
\* found is inserted again under its old id, and a row with a social account of
\* another user, or of a user who has left since, is refused.
LinkSave(r) ==
  LET u == cmd[r].user
      New == base[r] = {}
      Inserted == (seen[r] \ UNION base[r]) \cup {Added(r)}
  IN /\ step[r] = "store" /\ nextId \in Id
     /\ IF /\ \A l \in Inserted : ~SocialTaken(l.social)
           /\ IF New THEN u \notin Alive /\ ~EmailTaken(cmd[r].mail)
                     ELSE u \in Alive /\ UNION base[r] \subseteq seen[r]
        THEN /\ links' = links \cup Inserted
             /\ users' = IF New THEN [users EXCEPT ![u] = Reinserted(r)] ELSE users
        ELSE UNCHANGED <<users, links>>
     /\ nextId' = nextId + 1
     /\ Finish(r)
     /\ UNCHANGED <<aside, served>>

\* Mutant: the account one signed up with can be unlinked.
AnyRemovable(u, p) == {l \in Linked(u) : ProviderOf[l.social] = p}

\* removeSocialAuth takes the first row of the provider, in the order the
\* database returned them, and refuses when that is the primary one; a refusal
\* changes nothing.
Removable(u, p) == {l \in Linked(u) : ProviderOf[l.social] = p /\ ~l.primary}

Unlink(r) ==
  /\ \E u \in Alive, p \in Provider :
       \E l \in Removable(u, p) :
         /\ Begin(r, Fresh("unlink", l.social, u), "remove")
         /\ seen' = [seen EXCEPT ![r] = {l}]
  /\ UNCHANGED <<tables, base, aside>>

\* DELETE by id.
UnlinkRemove(r) ==
  /\ step[r] = "remove"
  /\ links' = {l \in links : \A gone \in seen[r] : l.id # gone.id}
  /\ Finish(r)
  /\ UNCHANGED <<users, nextId, aside, served>>

\* The user goes, and by cascade every social account of the user.
DeleteUser ==
  /\ served < MaxRequests
  /\ \E u \in Alive :
       /\ users' = [users EXCEPT ![u] = NoUser]
       /\ links' = links \ Linked(u)
       /\ overtaken' = IF \E r \in Req : step[r] = "save" /\ cmd[r].user = u
                       THEN overtaken \cup {u} ELSE overtaken
  /\ served' = served + 1
  /\ UNCHANGED <<nextId, step, cmd, hands, mail, moved>>

-----------------------------------------------------------------------------
\* What the server does without the browser.
Server(r) ==
  \/ SaveCode(r) \/ DropPid(r) \/ Exchange(r) \/ Find(r) \/ Create(r)
  \/ LinkLoad(r) \/ LinkReload(r) \/ LinkSave(r) \/ UnlinkRemove(r)

Next ==
  \/ \E r \in Req : \/ EnterLogin(r) \/ EnterLink(r) \/ Callback(r) \/ TakePid(r) \/ Lapse(r)
                    \/ Unlink(r) \/ Server(r) \/ Refused(r) \/ \E q \in Req : Twice(q, r)
  \/ RegisterLocalUser \/ DeleteUser \/ ChangeMail

\* Requests at the server end, and keys lapse; a browser owes nothing.
Fairness == \A r \in Req : WF_vars(Server(r)) /\ WF_vars(Lapse(r))

Spec == Init /\ [][Next]_vars /\ Fairness

-----------------------------------------------------------------------------
Account == [email : Email, local : BOOLEAN, team : BOOLEAN]
Row     == [id : Id, primary : BOOLEAN, social : Social, user : Id]
Cmd     == [again : BOOLEAN, flow : {"link", "login", "unlink"}, mail : Email \cup {NoUser},
            social : Social, user : Id \cup {0}]
Steps   == {"idle", "consent", "callback", "coded", "pid", "exchange", "find", "create", "load",
            "save", "store", "remove"}

TypeOK ==
  /\ users \in [Id -> Account \cup {NoUser}]
  /\ links \subseteq Row
  /\ nextId \in 1..(MaxRequests + 1)
  /\ mail \in [Social -> Email] /\ moved \subseteq Social /\ overtaken \subseteq Id
  /\ step \in [Req -> Steps]
  /\ cmd \in [Req -> Cmd \cup {NoUser}] /\ seen \in [Req -> SUBSET Row]
  /\ base \in [Req -> SUBSET SUBSET Row]
  /\ \A r \in Req : step[r] # "idle" => cmd[r] \in Cmd
  /\ served \in 0..MaxRequests

\* The login by s finds u and no other.  The exception is a social account whose
\* address has changed at the provider, when an older user has that address: the
\* login then finds the older user and is refused.
SignsIn(s, u) ==
  \/ FindSocialUserOrValidate(s, mail[s]).user = {u}
  \/ s \in moved /\ \E v \in Alive : v < u /\ users[v].email = mail[s]

\* However sign-ups, links, unlinks and departures of several people interleave,
\* every account can be signed into: with its password, or with the social
\* account it was made from; and it has the supported team without which the login
\* is an error.  The exception is a user who left between the two loads of a link
\* of theirs: the save brings the user back without password and team.
EveryoneCanSignIn ==
  \A u \in Alive \ overtaken :
    /\ users[u].team
    /\ users[u].local \/ \E l \in Linked(u) : l.primary /\ SignsIn(l.social, u)

\* A social account never belongs to two users, though linking looks at the
\* links of one user only, a state or a pid may be used twice, and a save may
\* bring rows back; and every link is some user's.
OneOwner ==
  /\ \A k, l \in links : k.social = l.social => k = l
  /\ \A l \in links : l.user \in Alive

\* Every flow ends, whether or not the browser ever comes back: its keys do not
\* stay in Redis.
FlowsEnd == \A r \in Req : step[r] # "idle" ~> step[r] = "idle"
=============================================================================
