------------------------- MODULE SocialAccountsProofs -------------------------
(***************************************************************************)
(* A social account has one owner, and the account that was made from it   *)
(* can always be signed into, for any number of people, providers and      *)
(* overlapping flows.                                                      *)
(***************************************************************************)
EXTENDS SocialAccounts, TLAPS

-----------------------------------------------------------------------------
(* The inductive invariant.                                                 *)

\* An address has one user at most.
EmailInv == \A u, v \in Alive : users[u].email = users[v].email => u = v

\* Whoever was not brought back by a link has a team and, without a password, the
\* social account of the sign-up, whose address is the user's unless it changed.
PrimaryInv ==
  \A u \in Alive \ overtaken :
    /\ users[u].team
    /\ \/ users[u].local
       \/ \E l \in Linked(u) :
            l.primary /\ (l.social \notin moved => mail[l.social] = users[u].email)

\* Rows of social_auth that are in the table or in a request's hands.
Known(l) == l \in links \/ \E r \in Req : l \in seen[r]

\* Their ids tell them apart, and the next one is new.
IdInv ==
  \A k, l \in Row : Known(k) /\ Known(l) => k.id < nextId /\ (k.id = l.id => k = l)

\* A login knows the address its social account has, unless that has changed.  A
\* link that is about to be saved goes with the rows loaded for the same user, all of
\* other social accounts; when the user is gone, this is an overtaken one.  A row
\* about to be deleted is not the primary one.
RequestOK(r) ==
  /\ step[r] \in {"load", "save", "store", "remove"} => cmd[r].flow # "login"
  /\ step[r] # "idle" /\ cmd[r].flow # "login" => cmd[r].user \in Id
  /\ step[r] \in {"find", "create"} =>
       /\ cmd[r].mail \in Email
       /\ cmd[r].social \notin moved => cmd[r].mail = mail[cmd[r].social]
  /\ step[r] \in {"save", "store"} =>
       /\ cmd[r].mail \in Email
       /\ \A k, l \in seen[r] : k.social = l.social => k = l
       /\ \A l \in seen[r] : l.user = cmd[r].user /\ l.social # cmd[r].social
  /\ step[r] = "save" => cmd[r].user \in Alive \cup overtaken
  /\ step[r] = "store" /\ base[r] = {} => cmd[r].user \in overtaken
  /\ step[r] = "remove" => \A l \in seen[r] : ~l.primary

RequestsOK == \A r \in Req : RequestOK(r)

IInv == TypeOK /\ OneOwner /\ EmailInv /\ PrimaryInv /\ IdInv /\ RequestsOK

-----------------------------------------------------------------------------
(* The initial state.                                                       *)

LEMMA InitIInv == Init => IInv
<1> SUFFICES ASSUME Init PROVE IInv
  OBVIOUS
<1>1. TypeOK
  BY SocialAssumption DEF Init, TypeOK, Steps
<1>2. Alive = {} /\ links = {} /\ \A r \in Req : seen[r] = {} /\ step[r] = "idle"
  BY DEF Init, Alive
<1> QED
  BY <1>1, <1>2 DEF IInv, OneOwner, EmailInv, PrimaryInv, IdInv, Known, RequestsOK, RequestOK

-----------------------------------------------------------------------------
(* Steps that leave the tables alone.                                       *)

\* Flows that move on, with nothing in their hands but rows of the table or rows
\* they had there before.
LEMMA QuietStep ==
  ASSUME IInv, UNCHANGED tables, UNCHANGED aside, TypeOK',
         \A q \in Req : RequestOK(q)' /\ seen'[q] \subseteq seen[q] \cup links
  PROVE  IInv'
<1> USE DEF tables, aside
<1>1. OneOwner' /\ EmailInv' /\ PrimaryInv'
  BY DEF IInv, OneOwner, EmailInv, PrimaryInv, Alive, Linked
<1>2. \A l \in Row : Known(l)' => Known(l)
  BY DEF Known
<1>3. IdInv'
  BY <1>2 DEF IInv, IdInv
<1> QED
  BY <1>1, <1>3 DEF IInv, RequestsOK

\* What is true of a request stays so while it stands still.
LEMMA StillStep ==
  ASSUME NEW q \in Req, RequestOK(q), UNCHANGED users, UNCHANGED aside,
         step'[q] = step[q], cmd'[q] = cmd[q], seen'[q] = seen[q], base'[q] = base[q]
  PROVE  RequestOK(q)'
BY DEF RequestOK, Alive, aside

\* The same for one request r, the others standing still.
LEMMA MoveStep ==
  ASSUME IInv, NEW r \in Req, UNCHANGED tables, UNCHANGED aside, TypeOK', RequestOK(r)',
         seen'[r] \subseteq seen[r] \cup links,
         \A q \in Req \ {r} : /\ step'[q] = step[q] /\ cmd'[q] = cmd[q]
                              /\ seen'[q] = seen[q] /\ base'[q] = base[q]
  PROVE  IInv'
<1>1. \A q \in Req \ {r} : RequestOK(q)'
  BY StillStep DEF IInv, RequestsOK, tables
<1> QED
  BY <1>1, QuietStep

\* A request counts.
LEMMA ServedStep ==
  ASSUME TypeOK, served < MaxRequests, served' = served + 1 PROVE served' \in 0..MaxRequests
BY SocialAssumption DEF TypeOK

\* A request that begins.
LEMMA BeginStep ==
  ASSUME IInv, NEW r \in Req, NEW c \in Cmd, NEW first \in {"consent", "remove"},
         Begin(r, c, first), UNCHANGED tables, UNCHANGED aside, UNCHANGED base,
         c.flow # "login" => c.user \in Id,
         seen' \in [Req -> SUBSET Row], \A q \in Req \ {r} : seen'[q] = seen[q],
         seen'[r] \subseteq seen[r] \cup links,
         first = "remove" => c.flow # "login" /\ \A l \in seen'[r] : ~l.primary
  PROVE  IInv'
<1>1. step'[r] = first /\ cmd'[r] = c
  BY DEF IInv, TypeOK, Begin
<1>2. \A q \in Req \ {r} : step'[q] = step[q] /\ cmd'[q] = cmd[q]
  BY DEF IInv, TypeOK, Begin
<1>3. TypeOK'
  <2>1. served' \in 0..MaxRequests
    BY ServedStep DEF IInv, Begin
  <2>2. cmd' \in [Req -> Cmd \cup {NoUser}] /\ step' \in [Req -> Steps]
    BY DEF IInv, TypeOK, Begin, Steps
  <2>3. \A q \in Req : step'[q] # "idle" => cmd'[q] \in Cmd
    BY <1>1, <1>2 DEF IInv, TypeOK
  <2> QED
    BY <2>1, <2>2, <2>3 DEF IInv, TypeOK, tables, aside
<1>4. RequestOK(r)'
  BY <1>1 DEF RequestOK
<1> QED
  BY <1>2, <1>3, <1>4, MoveStep

\* A request that ends, the tables as they were.
LEMMA FinishStep ==
  ASSUME IInv, NEW r \in Req, Finish(r), UNCHANGED tables, UNCHANGED aside, UNCHANGED served
  PROVE  IInv'
<1>1. TypeOK'
  BY DEF IInv, TypeOK, Finish, Steps, tables, aside
<1>2. step'[r] = "idle" /\ seen'[r] = {}
  BY DEF IInv, TypeOK, Finish
<1>3. RequestOK(r)'
  BY <1>2 DEF RequestOK
<1>4. \A q \in Req \ {r} : /\ step'[q] = step[q] /\ cmd'[q] = cmd[q]
                           /\ seen'[q] = seen[q] /\ base'[q] = base[q]
  BY DEF IInv, TypeOK, Finish
<1> QED
  BY <1>1, <1>2, <1>3, <1>4, MoveStep

\* A flow that goes on before it knows an account.
LEMMA GoStep ==
  ASSUME IInv, NEW r \in Req, step[r] # "idle",
         NEW next \in {"callback", "coded", "pid", "exchange", "create"},
         step' = [step EXCEPT ![r] = next], UNCHANGED hands,
         cmd' = cmd \/ cmd' = [cmd EXCEPT ![r].again = FALSE],
         next = "create" => step[r] = "find" /\ cmd' = cmd,
         UNCHANGED tables, UNCHANGED aside, UNCHANGED served
  PROVE  IInv'
<1> USE DEF hands
<1>1. /\ cmd[r] \in Cmd /\ cmd'[r] \in Cmd /\ \A q \in Req \ {r} : cmd'[q] = cmd[q]
      /\ cmd'[r].flow = cmd[r].flow /\ cmd'[r].user = cmd[r].user
      /\ cmd' \in [Req -> Cmd \cup {NoUser}]
  <2>1. cmd[r] \in Cmd
    BY DEF IInv, TypeOK
  <2>2. /\ [cmd[r] EXCEPT !.again = FALSE] \in Cmd
        /\ [cmd[r] EXCEPT !.again = FALSE].flow = cmd[r].flow
        /\ [cmd[r] EXCEPT !.again = FALSE].user = cmd[r].user
    BY <2>1 DEF Cmd
  <2>3. CASE cmd' = cmd
    BY <2>1, <2>3 DEF IInv, TypeOK
  <2>4. CASE cmd' = [cmd EXCEPT ![r].again = FALSE]
    <3>1. cmd'[r] = [cmd[r] EXCEPT !.again = FALSE] /\ \A q \in Req \ {r} : cmd'[q] = cmd[q]
      BY <2>4 DEF IInv, TypeOK
    <3>2. cmd' \in [Req -> Cmd \cup {NoUser}]
      BY <2>2, <2>4 DEF IInv, TypeOK
    <3> QED
      BY <2>1, <2>2, <3>1, <3>2
  <2> QED
    BY <2>3, <2>4
<1>2. step'[r] = next /\ \A q \in Req \ {r} : step'[q] = step[q]
  BY DEF IInv, TypeOK
<1>3. TypeOK'
  BY <1>1, <1>2 DEF IInv, TypeOK, Steps, tables, aside
<1>4. RequestOK(r)'
  BY <1>1, <1>2 DEF IInv, RequestsOK, RequestOK, aside
<1> QED
  BY <1>1, <1>2, <1>3, <1>4, MoveStep

\* The same key read a second time.
LEMMA TwiceStep == ASSUME IInv, NEW q \in Req, NEW r \in Req, Twice(q, r) PROVE IInv'
<1>1. /\ step[q] = "idle" /\ step[r] \in {"callback", "pid"} /\ q # r
      /\ cmd' = [cmd EXCEPT ![r].again = TRUE, ![q] = [cmd[r] EXCEPT !.again = TRUE]]
      /\ step' = [step EXCEPT ![q] = step[r]]
      /\ UNCHANGED tables /\ UNCHANGED hands /\ UNCHANGED aside
      /\ served < MaxRequests /\ served' = served + 1
  BY DEF Twice
<1> DEFINE c == [cmd[r] EXCEPT !.again = TRUE]
<1>2. c \in Cmd /\ c.flow = cmd[r].flow /\ c.user = cmd[r].user
  BY <1>1 DEF IInv, TypeOK, Cmd
<1>3. /\ cmd'[r] = c /\ cmd'[q] = c /\ \A p \in Req \ {q, r} : cmd'[p] = cmd[p]
      /\ cmd' \in [Req -> Cmd \cup {NoUser}]
  BY <1>1, <1>2 DEF IInv, TypeOK
<1> HIDE DEF c
<1>4. /\ step'[q] = step[r] /\ \A p \in Req \ {q} : step'[p] = step[p]
      /\ step' \in [Req -> Steps]
  BY <1>1 DEF IInv, TypeOK
<1>5. TypeOK'
  BY <1>1, <1>2, <1>3, <1>4, ServedStep DEF IInv, TypeOK, tables, hands, aside
<1>6. RequestOK(r)' /\ RequestOK(q)'
  BY <1>1, <1>2, <1>3, <1>4 DEF IInv, RequestsOK, RequestOK
<1>7. \A p \in Req \ {q, r} : RequestOK(p)'
  BY <1>1, <1>3, <1>4, StillStep DEF IInv, RequestsOK, tables, hands
<1> QED
  BY <1>1, <1>5, <1>6, <1>7, QuietStep DEF hands

\* The provider's answer.
LEMMA ExchangeStep == ASSUME IInv, NEW r \in Req, Exchange(r) PROVE IInv'
<1>1. step[r] = "exchange" /\ UNCHANGED tables /\ UNCHANGED aside /\ UNCHANGED served
  BY DEF Exchange
<1>2. CASE Finish(r)
  BY <1>1, <1>2, FinishStep
<1>3. CASE /\ step' = [step EXCEPT ![r] = IF cmd[r].flow = "login" THEN "find" ELSE "load"]
           /\ cmd' = [cmd EXCEPT ![r].mail = mail[cmd[r].social]]
           /\ UNCHANGED hands
  <2>1. cmd[r] \in Cmd /\ cmd[r].social \in Social /\ mail[cmd[r].social] \in Email
    BY <1>1 DEF IInv, TypeOK, Cmd
  <2>2. /\ cmd'[r] \in Cmd /\ cmd'[r].mail = mail[cmd[r].social]
        /\ cmd'[r].flow = cmd[r].flow /\ cmd'[r].user = cmd[r].user
        /\ cmd'[r].social = cmd[r].social
        /\ \A q \in Req \ {r} : cmd'[q] = cmd[q] /\ step'[q] = step[q]
    BY <1>3, <2>1 DEF IInv, TypeOK, Cmd
  <2>3. step'[r] = IF cmd[r].flow = "login" THEN "find" ELSE "load"
    BY <1>3 DEF IInv, TypeOK
  <2>4. TypeOK'
    BY <1>1, <1>3, <2>2 DEF IInv, TypeOK, Steps, tables, aside, hands
  <2>5. RequestOK(r)'
    BY <1>1, <2>1, <2>2, <2>3 DEF IInv, RequestsOK, RequestOK, aside
  <2> QED
    BY <1>1, <1>3, <2>2, <2>4, <2>5, MoveStep DEF hands
<1> QED
  BY <1>2, <1>3 DEF Exchange

\* An address changes: no login and no account relies on it any more.
LEMMA ChangeMailStep == ASSUME IInv, ChangeMail PROVE IInv'
<1>1. PICK s \in Social, e \in Email : mail' = [mail EXCEPT ![s] = e] /\ moved' = moved \cup {s}
  BY DEF ChangeMail
<1>2. /\ UNCHANGED <<tables, step, cmd, hands, overtaken>>
      /\ served < MaxRequests /\ served' = served + 1
  BY DEF ChangeMail
<1>3. TypeOK'
  BY <1>1, <1>2, ServedStep DEF IInv, TypeOK, tables, hands
<1>4. \A x \in Social : x \notin moved' => x \notin moved /\ mail'[x] = mail[x]
  BY <1>1 DEF IInv, TypeOK
<1>5. OneOwner' /\ EmailInv' /\ IdInv'
  BY <1>2 DEF IInv, OneOwner, EmailInv, IdInv, Known, Alive, tables, hands
<1>6. PrimaryInv'
  <2>1. \A l \in links : l.social \in Social
    BY DEF IInv, TypeOK, Row
  <2> QED
    BY <1>2, <1>4, <2>1 DEF IInv, PrimaryInv, Linked, Alive, tables
<1>7. RequestsOK'
  <2>1. \A r \in Req : step[r] # "idle" => cmd[r].social \in Social
    BY DEF IInv, TypeOK, Cmd
  <2> QED
    BY <1>2, <1>4, <2>1 DEF IInv, RequestsOK, RequestOK, Alive, tables, hands
<1> QED
  BY <1>3, <1>5, <1>6, <1>7 DEF IInv

\* The user is loaded with the social accounts.
LEMMA LinkLoadStep == ASSUME IInv, NEW r \in Req, LinkLoad(r) PROVE IInv'
<1> DEFINE u == cmd[r].user
<1>1. step[r] = "load" /\ UNCHANGED tables /\ UNCHANGED aside /\ UNCHANGED served
  BY DEF LinkLoad
<1>2. CASE Finish(r)
  BY <1>1, <1>2, FinishStep
<1>3. CASE ~Finish(r)
  <2>1. /\ u \in Alive /\ ~Owns(u, cmd[r].social)
        /\ seen' = [seen EXCEPT ![r] = Linked(u)]
        /\ cmd' = [cmd EXCEPT ![r].mail = users[u].email]
        /\ step' = [step EXCEPT ![r] = "save"] /\ UNCHANGED base
    BY <1>3 DEF LinkLoad
  <2>2. cmd[r] \in Cmd /\ users[u].email \in Email /\ Linked(u) \subseteq links
    BY <1>1, <2>1 DEF IInv, TypeOK, Alive, Account, Linked
  <2>3. /\ cmd'[r] \in Cmd /\ cmd'[r].mail = users[u].email
        /\ cmd'[r].flow = cmd[r].flow /\ cmd'[r].user = u
        /\ cmd'[r].social = cmd[r].social
        /\ step'[r] = "save" /\ seen'[r] = Linked(u)
        /\ \A q \in Req \ {r} : /\ cmd'[q] = cmd[q] /\ step'[q] = step[q]
                                /\ seen'[q] = seen[q] /\ base'[q] = base[q]
    BY <2>1, <2>2 DEF IInv, TypeOK, Cmd
  <2>4. TypeOK'
    BY <1>1, <2>1, <2>2, <2>3 DEF IInv, TypeOK, Steps, tables, aside
  <2>5. cmd[r].flow # "login" /\ cmd[r].user \in Id
    BY <1>1 DEF IInv, RequestsOK, RequestOK
  <2>6. \A k, l \in Linked(u) : k.social = l.social => k = l
    BY DEF Linked, IInv, OneOwner
  <2>7. \A l \in Linked(u) : l.user = u /\ l.social # cmd[r].social
    BY <2>1 DEF Owns, Linked
  <2>8. RequestOK(r)'
    BY <1>1, <2>1, <2>2, <2>3, <2>5, <2>6, <2>7 DEF RequestOK, Alive, tables
  <2> QED
    BY <1>1, <2>2, <2>3, <2>4, <2>8, MoveStep
<1> QED
  BY <1>2, <1>3

\* The rows are loaded once more.  A user who is gone by now left in between.
LEMMA LinkReloadStep == ASSUME IInv, NEW r \in Req, LinkReload(r) PROVE IInv'
<1> DEFINE u == cmd[r].user
           now == IF u \in Alive THEN {Linked(u)} ELSE {}
<1>1. /\ step[r] = "save" /\ UNCHANGED <<tables, cmd, seen, aside, served>>
      /\ base' = [base EXCEPT ![r] = now] /\ step' = [step EXCEPT ![r] = "store"]
  BY DEF LinkReload
<1>2. now \in SUBSET SUBSET Row
  BY DEF Linked, IInv, TypeOK
<1>3. now = {} => u \in overtaken
  BY <1>1 DEF IInv, RequestsOK, RequestOK
<1> HIDE DEF now
<1>4. /\ step'[r] = "store" /\ base'[r] = now
      /\ \A q \in Req \ {r} : step'[q] = step[q] /\ base'[q] = base[q]
  BY <1>1 DEF IInv, TypeOK
<1>5. TypeOK'
  BY <1>1, <1>2, <1>4 DEF IInv, TypeOK, Steps, tables, aside
<1>6. RequestOK(r)'
  BY <1>1, <1>3, <1>4 DEF IInv, RequestsOK, RequestOK, aside
<1> QED
  BY <1>1, <1>4, <1>5, <1>6, MoveStep

-----------------------------------------------------------------------------
(* Steps that write the tables.                                             *)

\* Other requests do not notice that users and links are added.
LEMMA OthersStep ==
  ASSUME IInv, NEW r \in Req, Finish(r), Alive \subseteq Alive', UNCHANGED aside
  PROVE  RequestsOK' /\ \A q \in Req : seen'[q] \subseteq seen[q]
<1>1. step'[r] = "idle" /\ seen'[r] = {}
  BY DEF IInv, TypeOK, Finish
<1>2. \A q \in Req \ {r} : /\ step'[q] = step[q] /\ cmd'[q] = cmd[q]
                           /\ seen'[q] = seen[q] /\ base'[q] = base[q]
  BY DEF IInv, TypeOK, Finish
<1>3. \A q \in Req \ {r} : RequestOK(q)'
  BY <1>2 DEF IInv, RequestsOK, RequestOK, aside
<1>4. RequestOK(r)'
  BY <1>1 DEF RequestOK
<1> QED
  BY <1>1, <1>2, <1>3, <1>4 DEF RequestsOK

\* A request that ends leaves the others' types.
LEMMA FinishTypes ==
  ASSUME TypeOK, NEW r \in Req, Finish(r)
  PROVE  /\ step' \in [Req -> Steps] /\ cmd' \in [Req -> Cmd \cup {NoUser}]
         /\ seen' \in [Req -> SUBSET Row] /\ base' \in [Req -> SUBSET SUBSET Row]
         /\ \A q \in Req : step'[q] # "idle" => cmd'[q] \in Cmd
BY DEF TypeOK, Finish, Steps

\* A user is added, or brought back, under an address that has none.
LEMMA AddedUser ==
  ASSUME IInv, NEW n \in Id, NEW row \in Account, users' = [users EXCEPT ![n] = row],
         ~EmailTaken(row.email)
  PROVE  /\ users'[n] = row /\ n \in Alive'
         /\ \A u \in Id \ {n} : users'[u] = users[u]
         /\ Alive' = Alive \cup {n} /\ EmailInv'
<1>1. users'[n] = row /\ \A u \in Id \ {n} : users'[u] = users[u]
  BY DEF IInv, TypeOK
<1>2. row # NoUser
  BY SocialAssumption DEF Account
<1>3. Alive' = Alive \cup {n}
  BY <1>1, <1>2 DEF Alive
<1>4. EmailInv'
  BY <1>1, <1>3 DEF IInv, EmailInv, EmailTaken, Alive
<1> QED
  BY <1>1, <1>3, <1>4 DEF Alive

\* A sign-up through a social account.
LEMMA CreateStep == ASSUME IInv, NEW r \in Req, Create(r) PROVE IInv'
<1> DEFINE s == cmd[r].social
           e == cmd[r].mail
           row == [email |-> e, local |-> FALSE, team |-> TRUE]
           link == [id |-> nextId, primary |-> TRUE, social |-> s, user |-> nextId]
<1>1. /\ step[r] = "create" /\ nextId \in Id /\ Finish(r)
      /\ UNCHANGED aside /\ served' = served
      /\ nextId' = nextId + 1 /\ nextId' \in 1..(MaxRequests + 1)
  BY SocialAssumption DEF Create, Id
<1>2. /\ cmd[r] \in Cmd /\ s \in Social /\ e \in Email
      /\ s \notin moved => e = mail[s]
  BY <1>1 DEF IInv, TypeOK, Cmd, RequestsOK, RequestOK
<1>3. row \in Account /\ link \in Row
  BY <1>1, <1>2 DEF Account, Row
<1>4. /\ step' \in [Req -> Steps] /\ cmd' \in [Req -> Cmd \cup {NoUser}]
      /\ seen' \in [Req -> SUBSET Row] /\ base' \in [Req -> SUBSET SUBSET Row]
      /\ \A q \in Req : step'[q] # "idle" => cmd'[q] \in Cmd
  BY <1>1, FinishTypes DEF IInv
<1>5. CASE UNCHANGED <<users, links>>
  <2>1. TypeOK'
    BY <1>1, <1>4, <1>5 DEF IInv, TypeOK, aside
  <2>2. RequestsOK' /\ \A q \in Req : seen'[q] \subseteq seen[q]
    BY <1>1, <1>5, OthersStep DEF Alive
  <2>3. OneOwner' /\ EmailInv' /\ PrimaryInv'
    BY <1>1, <1>5 DEF IInv, OneOwner, EmailInv, PrimaryInv, Alive, Linked, aside
  <2>4. IdInv'
    BY <1>1, <1>5, <2>2 DEF IInv, TypeOK, IdInv, Known, Row, Id
  <2> QED
    BY <2>1, <2>2, <2>3, <2>4 DEF IInv
<1>6. CASE /\ ~EmailTaken(e) /\ ~SocialTaken(s)
           /\ users' = [users EXCEPT ![nextId] = row] /\ links' = links \cup {link}
  <2> HIDE DEF row, link
  <2>1. TypeOK'
    BY <1>1, <1>3, <1>4, <1>6 DEF IInv, TypeOK, aside
  <2>2. row.email = e /\ row.local = FALSE /\ row.team
    BY DEF row
  <2>3. link.id = nextId /\ link.primary /\ link.social = s /\ link.user = nextId
    BY DEF link
  <2>4. /\ users'[nextId] = row /\ nextId \in Alive'
        /\ \A u \in Id \ {nextId} : users'[u] = users[u]
        /\ Alive' = Alive \cup {nextId} /\ EmailInv'
    BY <1>1, <1>3, <1>6, <2>2, AddedUser
  <2>5. RequestsOK' /\ \A q \in Req : seen'[q] \subseteq seen[q]
    BY <1>1, <2>4, OthersStep
  <2>6. OneOwner'
    BY <1>6, <2>3, <2>4 DEF IInv, OneOwner, SocialTaken
  <2>7. PrimaryInv'
    BY <1>1, <1>2, <1>6, <2>2, <2>3, <2>4 DEF IInv, PrimaryInv, Linked, Alive, aside
  <2>8. IdInv'
    BY <1>1, <1>6, <2>3, <2>5 DEF IInv, TypeOK, IdInv, Known, Row, Id
  <2> QED
    BY <2>1, <2>4, <2>5, <2>6, <2>7, <2>8 DEF IInv
<1> QED
  BY <1>5, <1>6 DEF Create

\* A sign-up with a password.
LEMMA RegisterStep == ASSUME IInv, RegisterLocalUser PROVE IInv'
<1>1. PICK e \in Email :
        /\ ~EmailTaken(e)
        /\ users' = [users EXCEPT ![nextId] = [email |-> e, local |-> TRUE, team |-> TRUE]]
  BY DEF RegisterLocalUser
<1> DEFINE row == [email |-> e, local |-> TRUE, team |-> TRUE]
<1>2. row \in Account /\ row.email = e /\ row.local /\ row.team
  BY DEF Account
<1> HIDE DEF row
<1>3. users' = [users EXCEPT ![nextId] = row]
  BY <1>1 DEF row
<1>4. /\ nextId \in Id /\ nextId' = nextId + 1 /\ nextId' \in 1..(MaxRequests + 1)
      /\ served < MaxRequests /\ served' = served + 1
      /\ UNCHANGED <<links, step, cmd, hands, aside>>
  BY SocialAssumption DEF RegisterLocalUser, Id
<1>5. /\ users'[nextId] = row /\ nextId \in Alive'
      /\ \A u \in Id \ {nextId} : users'[u] = users[u]
      /\ Alive' = Alive \cup {nextId} /\ EmailInv'
  BY <1>1, <1>2, <1>3, <1>4, AddedUser
<1>6. TypeOK'
  BY <1>2, <1>3, <1>4, ServedStep DEF IInv, TypeOK, hands, aside
<1>7. OneOwner'
  BY <1>4, <1>5 DEF IInv, OneOwner
<1>8. PrimaryInv'
  BY <1>2, <1>4, <1>5 DEF IInv, PrimaryInv, Linked, Alive, aside
<1>9. IdInv'
  BY <1>4 DEF IInv, TypeOK, IdInv, Known, Row, Id, hands
<1>10. RequestsOK'
  BY <1>4, <1>5 DEF IInv, RequestsOK, RequestOK, hands, aside
<1> QED
  BY <1>5, <1>6, <1>7, <1>8, <1>9, <1>10 DEF IInv

\* The link that is added, with the rows that were loaded before it, and the user
\* when nobody of that id was found: an overtaken one.
LEMMA LinkSaveStep == ASSUME IInv, NEW r \in Req, LinkSave(r) PROVE IInv'
<1> DEFINE u == cmd[r].user
           New == base[r] = {}
           Inserted == (seen[r] \ UNION base[r]) \cup {Added(r)}
<1>1. /\ step[r] = "store" /\ nextId \in Id /\ Finish(r)
      /\ UNCHANGED aside /\ UNCHANGED served
      /\ nextId' = nextId + 1 /\ nextId' \in 1..(MaxRequests + 1)
  BY SocialAssumption DEF LinkSave, Id
<1>2. /\ cmd[r] \in Cmd /\ u \in Id /\ RequestOK(r) /\ seen[r] \subseteq Row
      /\ cmd[r].mail \in Email
  BY <1>1 DEF IInv, TypeOK, RequestsOK, RequestOK
<1>3. /\ Added(r) \in Row /\ Added(r).id = nextId
      /\ Added(r).social = cmd[r].social /\ Added(r).user = u
  BY <1>1, <1>2 DEF Added, Row, Cmd
<1>4. \A k, l \in Inserted : k.social = l.social => k = l
  BY <1>1, <1>2, <1>3 DEF RequestOK
<1>5. \A l \in Inserted : l \in Row /\ l.user = u
  BY <1>1, <1>2, <1>3 DEF RequestOK
<1>6. \A l \in Inserted : Known(l) \/ l = Added(r)
  BY DEF Known
<1>7. /\ step' \in [Req -> Steps] /\ cmd' \in [Req -> Cmd \cup {NoUser}]
      /\ seen' \in [Req -> SUBSET Row] /\ base' \in [Req -> SUBSET SUBSET Row]
      /\ \A q \in Req : step'[q] # "idle" => cmd'[q] \in Cmd
  BY <1>1, FinishTypes DEF IInv
<1>8. \/ UNCHANGED <<users, links>>
      \/ /\ links' = links \cup Inserted /\ \A l \in Inserted : ~SocialTaken(l.social)
         /\ \/ u \in Alive /\ users' = users
            \/ /\ base[r] = {} /\ u \notin Alive /\ ~EmailTaken(cmd[r].mail)
               /\ users' = [users EXCEPT ![u] = Reinserted(r)]
  BY DEF LinkSave
<1> HIDE DEF Inserted
<1>9. /\ users' \in [Id -> Account \cup {NoUser}] /\ EmailInv' /\ Alive \subseteq Alive'
      /\ \A v \in Alive : users'[v] = users[v]
      /\ Alive' \subseteq Alive \cup overtaken
      /\ links' # links => u \in Alive'
  <2>1. CASE users' = users /\ (links' = links \/ u \in Alive)
    <3>1. Alive' = Alive
      BY <2>1 DEF Alive
    <3> QED
      BY <2>1, <3>1 DEF IInv, EmailInv, TypeOK
  <2>2. CASE /\ base[r] = {} /\ u \notin Alive /\ ~EmailTaken(cmd[r].mail)
             /\ users' = [users EXCEPT ![u] = Reinserted(r)]
    <3>1. Reinserted(r) \in Account /\ Reinserted(r).email = cmd[r].mail
      BY <1>2 DEF Reinserted, Account
    <3>2. /\ u \in Alive' /\ \A v \in Id \ {u} : users'[v] = users[v]
          /\ Alive' = Alive \cup {u} /\ EmailInv'
      BY <1>2, <2>2, <3>1, AddedUser
    <3>3. u \in overtaken
      BY <1>1, <1>2, <2>2 DEF RequestOK
    <3>4. users' \in [Id -> Account \cup {NoUser}]
      BY <2>2, <3>1 DEF IInv, TypeOK
    <3> QED
      BY <2>2, <3>2, <3>3, <3>4 DEF Alive
  <2> QED
    BY <1>8, <2>1, <2>2
<1>10. /\ links \subseteq links'
       /\ \/ links' = links
          \/ links' = links \cup Inserted /\ \A l \in Inserted : ~SocialTaken(l.social)
  BY <1>8
<1>11. TypeOK'
  BY <1>1, <1>5, <1>7, <1>9, <1>10 DEF IInv, TypeOK, aside
<1>12. RequestsOK' /\ \A q \in Req : seen'[q] \subseteq seen[q]
  BY <1>1, <1>9, OthersStep
<1>13. OneOwner'
  BY <1>4, <1>5, <1>9, <1>10 DEF IInv, OneOwner, SocialTaken
<1>14. PrimaryInv'
  BY <1>1, <1>9, <1>10 DEF IInv, PrimaryInv, Linked, aside
<1>15. IdInv'
  <2>1. \A l \in Row : Known(l)' => Known(l) \/ l = Added(r)
    BY <1>6, <1>10, <1>12 DEF Known
  <2>2. \A l \in Row : Known(l) => l.id < nextId /\ l.id \in Nat
    BY DEF IInv, IdInv, Row, Id
  <2> QED
    BY <1>1, <1>3, <2>1, <2>2 DEF IInv, IdInv, Id
<1> QED
  BY <1>9, <1>11, <1>12, <1>13, <1>14, <1>15 DEF IInv

\* The row that is deleted is not a primary one, and no other has its id.
LEMMA UnlinkRemoveStep == ASSUME IInv, NEW r \in Req, UnlinkRemove(r) PROVE IInv'
<1>1. /\ step[r] = "remove" /\ Finish(r) /\ UNCHANGED <<users, nextId, aside, served>>
      /\ links' = {l \in links : \A gone \in seen[r] : l.id # gone.id}
  BY DEF UnlinkRemove
<1>2. \A gone \in seen[r] : ~gone.primary
  BY <1>1 DEF IInv, RequestsOK, RequestOK
<1>3. \A l \in links : l.primary => l \in links'
  BY <1>1, <1>2 DEF IInv, TypeOK, IdInv, Known
<1>4. TypeOK'
  BY <1>1, FinishTypes DEF IInv, TypeOK, aside
<1>5. RequestsOK' /\ \A q \in Req : seen'[q] \subseteq seen[q]
  BY <1>1, OthersStep DEF Alive
<1>6. OneOwner' /\ EmailInv'
  BY <1>1 DEF IInv, OneOwner, EmailInv, Alive
<1>7. PrimaryInv'
  BY <1>1, <1>3 DEF IInv, PrimaryInv, Alive, Linked, aside
<1>8. IdInv'
  <2>1. \A l \in Row : Known(l)' => Known(l)
    BY <1>1, <1>5 DEF Known
  <2> QED
    BY <1>1, <2>1 DEF IInv, IdInv
<1> QED
  BY <1>4, <1>5, <1>6, <1>7, <1>8 DEF IInv

\* A user goes, overtaken when a link of theirs was about to be saved.
LEMMA DeleteUserStep == ASSUME IInv, DeleteUser PROVE IInv'
<1>1. PICK u \in Alive :
        /\ users' = [users EXCEPT ![u] = NoUser] /\ links' = links \ Linked(u)
        /\ overtaken' = IF \E r \in Req : step[r] = "save" /\ cmd[r].user = u
                        THEN overtaken \cup {u} ELSE overtaken
  BY DEF DeleteUser
<1>2. /\ UNCHANGED <<nextId, step, cmd, hands, mail, moved>>
      /\ served < MaxRequests /\ served' = served + 1
  BY DEF DeleteUser
<1>3. Alive' = Alive \ {u} /\ \A v \in Alive' : users'[v] = users[v]
  BY <1>1 DEF IInv, TypeOK, Alive
<1>4. \A v \in Alive' : Linked(v)' = Linked(v)
  BY <1>1, <1>3 DEF Linked
<1>5. TypeOK'
  BY <1>1, <1>2, ServedStep DEF IInv, TypeOK, Alive, hands
<1>6. OneOwner'
  BY <1>1, <1>3 DEF IInv, OneOwner, Linked
<1>7. EmailInv'
  BY <1>3 DEF IInv, EmailInv
<1>8. PrimaryInv'
  BY <1>1, <1>2, <1>3, <1>4 DEF IInv, PrimaryInv
<1>9. IdInv'
  BY <1>1, <1>2 DEF IInv, IdInv, Known, hands
<1>10. RequestsOK'
  <2>1. \A r \in Req : step[r] = "save" => cmd[r].user \in Alive' \cup overtaken'
    BY <1>1, <1>3 DEF IInv, RequestsOK, RequestOK
  <2>2. overtaken \subseteq overtaken'
    BY <1>1
  <2> QED
    BY <1>2, <2>1, <2>2 DEF IInv, RequestsOK, RequestOK, hands
<1> QED
  BY <1>5, <1>6, <1>7, <1>8, <1>9, <1>10 DEF IInv

-----------------------------------------------------------------------------
(* Every step, and what follows.                                            *)

LEMMA FreshCmd ==
  ASSUME NEW f \in {"link", "login", "unlink"}, NEW s \in Social, NEW u \in Id \cup {0}
  PROVE  /\ Fresh(f, s, u) \in Cmd
         /\ Fresh(f, s, u).flow = f /\ Fresh(f, s, u).user = u
BY DEF Fresh, Cmd

LEMMA NextIInv == IInv /\ [Next]_vars => IInv'
<1> SUFFICES ASSUME IInv, [Next]_vars PROVE IInv'
  OBVIOUS
<1>1. ASSUME NEW r \in Req, EnterLogin(r) PROVE IInv'
  <2>1. PICK s \in Social : Begin(r, Fresh("login", s, 0), "consent")
    BY <1>1 DEF EnterLogin
  <2>2. Fresh("login", s, 0) \in Cmd /\ Fresh("login", s, 0).flow = "login"
    BY FreshCmd
  <2> QED
    BY <1>1, <2>1, <2>2, BeginStep DEF EnterLogin, IInv, TypeOK, hands
<1>2. ASSUME NEW r \in Req, EnterLink(r) PROVE IInv'
  <2>1. PICK s \in Social, u \in Alive : Begin(r, Fresh("link", s, u), "consent")
    BY <1>2 DEF EnterLink
  <2>2. Fresh("link", s, u) \in Cmd /\ Fresh("link", s, u).user = u /\ u \in Id
    BY FreshCmd DEF Alive
  <2> QED
    BY <1>2, <2>1, <2>2, BeginStep DEF EnterLink, IInv, TypeOK, hands
<1>3. ASSUME NEW r \in Req, Unlink(r) PROVE IInv'
  <2>1. PICK u \in Alive, p \in Provider : \E l \in Removable(u, p) :
          Begin(r, Fresh("unlink", l.social, u), "remove") /\ seen' = [seen EXCEPT ![r] = {l}]
    BY <1>3 DEF Unlink
  <2>2. PICK l \in Removable(u, p) :
          Begin(r, Fresh("unlink", l.social, u), "remove") /\ seen' = [seen EXCEPT ![r] = {l}]
    BY <2>1
  <2>3. l \in links /\ l \in Row /\ ~l.primary
    BY DEF Removable, Linked, IInv, TypeOK
  <2>4. l.social \in Social /\ u \in Id
    BY <2>3 DEF Row, Alive
  <2>5. /\ Fresh("unlink", l.social, u) \in Cmd /\ Fresh("unlink", l.social, u).user = u
        /\ Fresh("unlink", l.social, u).flow = "unlink"
    BY <2>4, FreshCmd
  <2>6. /\ seen' \in [Req -> SUBSET Row] /\ seen'[r] = {l}
        /\ \A q \in Req \ {r} : seen'[q] = seen[q]
    BY <2>2, <2>3 DEF IInv, TypeOK
  <2> QED
    BY <1>3, <2>2, <2>3, <2>4, <2>5, <2>6, BeginStep DEF Unlink
<1>4. ASSUME NEW r \in Req, Callback(r) \/ SaveCode(r) \/ TakePid(r) \/ DropPid(r) PROVE IInv'
  <2>1. \E next \in {"callback", "coded", "pid", "exchange"} :
          /\ step' = [step EXCEPT ![r] = next]
          /\ cmd' = cmd \/ cmd' = [cmd EXCEPT ![r].again = FALSE]
    BY <1>4 DEF Callback, SaveCode, TakePid, DropPid, Go
  <2>2. /\ UNCHANGED hands /\ UNCHANGED tables /\ UNCHANGED aside /\ UNCHANGED served
        /\ step[r] # "idle"
    BY <1>4 DEF Callback, SaveCode, TakePid, DropPid, Go
  <2> QED
    BY <2>1, <2>2, GoStep
<1>5. ASSUME NEW r \in Req, NEW q \in Req, Twice(q, r) PROVE IInv'
  BY <1>5, TwiceStep
<1>6. ASSUME NEW r \in Req, Lapse(r) \/ Refused(r) PROVE IInv'
  BY <1>6, FinishStep DEF Lapse, Refused
<1>7. ASSUME NEW r \in Req, Find(r) PROVE IInv'
  <2>1. CASE Finish(r)
    BY <1>7, <2>1, FinishStep DEF Find
  <2>2. CASE Go(r, "create")
    BY <1>7, <2>2, GoStep DEF Find, Go
  <2> QED
    BY <1>7, <2>1, <2>2 DEF Find
<1>8. CASE UNCHANGED vars
  <2>1. TypeOK' /\ \A q \in Req : RequestOK(q)'
    BY <1>8 DEF vars, tables, hands, aside, IInv, TypeOK, RequestsOK, RequestOK, Alive
  <2> QED
    BY <1>8, <2>1, QuietStep DEF vars, hands
<1> QED
  BY <1>1, <1>2, <1>3, <1>4, <1>5, <1>6, <1>7, <1>8, ExchangeStep, CreateStep, LinkLoadStep,
     LinkReloadStep, LinkSaveStep, UnlinkRemoveStep, RegisterStep, DeleteUserStep,
     ChangeMailStep DEF Next, Server

LEMMA Always == Spec => []IInv
BY InitIInv, NextIInv, PTL DEF Spec

\* Users, links and what each request has in its hands are always well-typed.
THEOREM TypeCorrect == Spec => []TypeOK
BY Always, PTL DEF IInv

\* A social account never belongs to two users, and every link is some user's.
THEOREM OwnersUnique == Spec => []OneOwner
BY Always, PTL DEF IInv

\* An account without a password keeps the social account it was made from, and the
\* login by that one finds no other user, unless its address has changed to that of
\* an older user or the account was brought back by a link that overlapped leaving.
THEOREM EveryoneSignsIn == Spec => []EveryoneCanSignIn
<1>1. IInv => EveryoneCanSignIn
  <2> SUFFICES ASSUME IInv, NEW u \in Alive \ overtaken
               PROVE  /\ users[u].team
                      /\ users[u].local \/ \E l \in Linked(u) : l.primary /\ SignsIn(l.social, u)
    BY DEF EveryoneCanSignIn
  <2>1. users[u].team
    BY DEF IInv, PrimaryInv
  <2>2. CASE users[u].local
    BY <2>1, <2>2
  <2>3. CASE ~users[u].local
    <3>1. PICK l \in Linked(u) : l.primary /\ (l.social \notin moved => mail[l.social] = users[u].email)
      BY <2>3 DEF IInv, PrimaryInv
    <3> DEFINE s == l.social
               C == Candidates(s, mail[s])
    <3>2. u \in C /\ C \subseteq Alive /\ Owns(u, s)
      BY DEF Candidates, Owns
    <3>3. \A v \in C : v = u \/ users[v].email = mail[s]
      BY DEF Candidates, Linked, IInv, OneOwner
    <3>4. CASE \E v \in Alive : v < u /\ users[v].email = mail[s]
      <4>1. s \in moved
        BY <3>1, <3>4 DEF IInv, EmailInv, Alive, Id
      <4> QED
        BY <2>1, <3>1, <3>4, <4>1 DEF SignsIn
    <3>5. CASE ~\E v \in Alive : v < u /\ users[v].email = mail[s]
      <4>1. \A v \in C : u <= v
        BY <3>2, <3>3, <3>5 DEF Alive, Id
      <4>2. Found(s, mail[s]) = u
        <5> HIDE DEF C
        <5>1. C \subseteq Int
          BY <3>2, SocialAssumption DEF Alive, Id
        <5>2. \A m \in C : (\A v \in C : m <= v) => m = u
          BY <3>2, <4>1, <5>1
        <5>3. Min(C) = u
          BY <3>2, <4>1, <5>2 DEF Min
        <5> QED
          BY <5>3 DEF Found, C
      <4>3. FindSocialUserOrValidate(s, mail[s]).user = {u}
        BY <3>2, <4>2 DEF FindSocialUserOrValidate
      <4> QED
        BY <2>1, <3>1, <4>3 DEF SignsIn
    <3> QED
      BY <3>4, <3>5
  <2> QED
    BY <2>2, <2>3
<1> QED
  BY <1>1, Always, PTL
=============================================================================
