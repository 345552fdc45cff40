------------------------------- MODULE EmailCodes -------------------------------
(***************************************************************************)
(* Verification codes sent by mail, and the throttler in front of them.    *)
(*                                                                         *)
(* A request for a code passes the throttler, a counter in Redis per       *)
(* client that is incremented and, by its first hit, given its expiry; the *)
(* code is then mailed and, after that, cached under the address for three *)
(* minutes.  Entering a code reads the cached one and, when they are the   *)
(* same, deletes it.  Requests overlap: two windows or two networks of one *)
(* person, a mail server that takes its time.                              *)
(*                                                                         *)
(* Five random digits are a member of a small set, so that two codes may   *)
(* be the same.  The limit on entering codes, 120 in a minute, is not      *)
(* reached within the bounds.                                              *)
(***************************************************************************)
EXTENDS Integers

CONSTANTS Client, Email, Code,
          None,          \* no code
          Limit,         \* the requests for a code let in per window
          Req,           \* bound on the requests at work at once
          MaxRequests,   \* bound on the requests of a behaviour
          MaxFaults      \* bound on crashes and losses of Redis

ASSUME CodeAssumption ==
  /\ None \notin Code \cup Client \cup Email
  /\ Limit \in Nat \ {0} /\ MaxRequests \in Nat /\ MaxFaults \in Nat

VARIABLES
  hits,       \* the throttler's counter, [Client -> Nat]; 0 is no key
  expiring,   \* whether that key has an expiry
  code,       \* [Email -> the cached code]
  inbox,      \* [Email -> the code in the newest mail]
  step,       \* [Req -> what the request does next]
  cmd,        \* [Req -> [client, code, email]]
  stuck,      \* history: clients whose counter was never given an expiry
  current,    \* history: addresses whose newest code is cached and not used up
  crossed,    \* history: addresses of a mail that was crossed by another request
  unsaved,    \* history: addresses whose newest mail's code was never cached
  doubled,    \* history: addresses for which two entries overlapped
  passed,     \* history: [Email -> entries accepted since the code was cached]
  served, faults

redis   == <<hits, expiring, code>>
history == <<stuck, current, crossed, unsaved, doubled, passed>>
bounds  == <<served, faults>>
vars    == <<redis, inbox, step, cmd, history, bounds>>

Entering == {"get", "del"}
Steps    == Entering \cup {"idle", "incr", "expire", "mail", "cache"}

\* The other requests that are at one of these steps for the address.
Others(r, e, at) == {q \in Req \ {r} : step[q] \in at /\ cmd[q].email = e}

Init ==
  /\ hits = [c \in Client |-> 0] /\ expiring = [c \in Client |-> FALSE]
  /\ code = [e \in Email |-> None] /\ inbox = [e \in Email |-> None]
  /\ step = [r \in Req |-> "idle"] /\ cmd = [r \in Req |-> None]
  /\ stuck = {} /\ current = {} /\ crossed = {} /\ unsaved = {} /\ doubled = {}
  /\ passed = [e \in Email |-> 0]
  /\ served = 0 /\ faults = 0

Begin(r, c, first) ==
  /\ step[r] = "idle" /\ served < MaxRequests
  /\ step' = [step EXCEPT ![r] = first]
  /\ cmd' = [cmd EXCEPT ![r] = c]
  /\ served' = served + 1
  /\ UNCHANGED faults

Fault == faults < MaxFaults /\ faults' = faults + 1 /\ UNCHANGED served

Go(r, next) == step' = [step EXCEPT ![r] = next] /\ UNCHANGED cmd

Finish(r) == step' = [step EXCEPT ![r] = "idle"] /\ cmd' = [cmd EXCEPT ![r] = None]

-----------------------------------------------------------------------------
(* The throttler.                                                           *)

Ask(r) ==
  /\ \E c \in Client, e \in Email : Begin(r, [client |-> c, code |-> None, email |-> e], "incr")
  /\ UNCHANGED <<redis, inbox, history>>

Blocked(h) == h > Limit

\* Mutant: any hit but the first is given the expiry.
LaterHit(h) == h > 1

FirstHit(h) == h = 1

\* INCR of the client's key: the first hit of a window must give it an expiry,
\* one beyond the limit is answered 429.  When the connection to Redis breaks
\* before the reply, the client library sends the command again (n = 2): a first
\* hit that is counted twice is answered 2, and nobody sets the expiry.
Increment(r) ==
  LET c == cmd[r].client
  IN /\ step[r] = "incr"
     /\ \E n \in {1, 2} :
          /\ hits' = [hits EXCEPT ![c] = @ + n]
          /\ IF FirstHit(hits[c] + n) THEN Go(r, "expire")
             ELSE IF Blocked(hits[c] + n) THEN Finish(r)
             ELSE Go(r, "mail")
          /\ IF n = 1 THEN UNCHANGED <<stuck, bounds>>
             ELSE /\ Fault
                  /\ stuck' = IF hits[c] = 0 THEN stuck \cup {c} ELSE stuck
     /\ UNCHANGED <<expiring, code, inbox, current, crossed, unsaved, doubled, passed>>

\* EXPIRE, which does nothing when the key is gone.
Expire(r) ==
  LET c == cmd[r].client
  IN /\ step[r] = "expire"
     /\ expiring' = [expiring EXCEPT ![c] = hits[c] > 0]
     /\ stuck' = stuck \ {c}
     /\ Go(r, "mail")
     /\ UNCHANGED <<hits, code, inbox, current, crossed, unsaved, doubled, passed, bounds>>

\* The window of a client ends.
WindowEnds(c) ==
  /\ expiring[c]
  /\ hits' = [hits EXCEPT ![c] = 0] /\ expiring' = [expiring EXCEPT ![c] = FALSE]
  /\ UNCHANGED <<code, inbox, step, cmd, history, bounds>>

-----------------------------------------------------------------------------
(* makeCodeAndSendMail.                                                     *)

\* The newest mail of the address holds the code.  One that nothing else of the
\* address overlaps puts right what others have crossed.
Mailed(r, e, k) ==
  /\ inbox' = [inbox EXCEPT ![e] = k]
  /\ current' = current \ {e}
  /\ crossed' = IF Others(r, e, {"cache"} \cup Entering) = {}
                THEN crossed \ {e} ELSE crossed \cup {e}

\* The mail with a random code goes out and the code will be cached; or the mail
\* server takes the mail and the connection to it breaks before it says so; or no
\* mail goes out.  The last two are answered 500.
SendMail(r) ==
  LET e == cmd[r].email
  IN /\ step[r] = "mail"
     /\ \/ \E k \in Code : /\ Mailed(r, e, k)
                            /\ cmd' = [cmd EXCEPT ![r].code = k]
                            /\ step' = [step EXCEPT ![r] = "cache"]
                            /\ unsaved' = unsaved \ {e}
        \/ \E k \in Code : /\ Mailed(r, e, k)
                            /\ Finish(r)
                            /\ unsaved' = unsaved \cup {e}
        \/ Finish(r) /\ UNCHANGED <<inbox, current, crossed, unsaved>>
     /\ UNCHANGED <<redis, stuck, doubled, passed, bounds>>

\* Mutant: a code that is cached stays (SET NX).
CachedOnce(old, c) == IF old = None THEN c.code ELSE old

\* Mutant: the address and the code are swapped.
CachedAddress(old, c) == c.email

\* SET replaces what there is.
Cached(old, c) == c.code

\* cachingVerificationCode
Cache(r) ==
  LET e == cmd[r].email
  IN /\ step[r] = "cache"
     /\ code' = [code EXCEPT ![e] = Cached(@, cmd[r])]
     /\ current' = current \cup {e}
     /\ passed' = [passed EXCEPT ![e] = 0]
     /\ doubled' = IF Others(r, e, Entering) = {} THEN doubled \ {e} ELSE doubled
     /\ Finish(r)
     /\ UNCHANGED <<hits, expiring, inbox, stuck, crossed, unsaved, bounds>>

\* Three minutes are over, or Redis evicts the key.
Lapse(e) ==
  /\ code[e] # None
  /\ code' = [code EXCEPT ![e] = None]
  /\ current' = current \ {e}
  /\ UNCHANGED <<hits, expiring, inbox, step, cmd, stuck, crossed, unsaved, doubled, passed,
                 bounds>>

-----------------------------------------------------------------------------
(* verifyEmailCode.                                                         *)

Enter(r) ==
  /\ \E e \in Email, k \in Code :
       /\ Begin(r, [client |-> None, code |-> k, email |-> e], "get")
       /\ crossed' = IF Others(r, e, {"cache"}) = {} THEN crossed ELSE crossed \cup {e}
       /\ doubled' = IF Others(r, e, Entering) = {} THEN doubled ELSE doubled \cup {e}
  /\ UNCHANGED <<redis, inbox, stuck, current, unsaved, passed>>

\* A code that lapsed, or another one, is answered 401.
GetCode(r) ==
  /\ step[r] = "get"
  /\ IF code[cmd[r].email] = cmd[r].code THEN Go(r, "del") ELSE Finish(r)
  /\ UNCHANGED <<redis, inbox, history, bounds>>

\* Mutant: an accepted code stays until it lapses.
Kept(k) == k

Deleted(k) == None

\* deleteVerificationCode, and the answer 204.
DeleteCode(r) ==
  LET e == cmd[r].email
  IN /\ step[r] = "del"
     /\ code' = [code EXCEPT ![e] = Deleted(@)]
     /\ current' = current \ {e}
     /\ passed' = [passed EXCEPT ![e] = @ + 1]
     /\ Finish(r)
     /\ UNCHANGED <<hits, expiring, inbox, stuck, crossed, unsaved, doubled, bounds>>

-----------------------------------------------------------------------------
(* Faults.                                                                  *)

\* Those who have incremented a counter and will not give it an expiry.
Expirers(rs) == {cmd[r].client : r \in {q \in rs : step[q] = "expire"}}

\* Those who have mailed a code and will not cache it.
Cachers(rs) == {cmd[r].email : r \in {q \in rs : step[q] = "cache"}}

\* Redis refuses a command: a 500, and what was done before stays.
RedisRefuses(r) ==
  /\ step[r] \in {"incr", "expire", "cache", "get", "del"}
  /\ stuck' = stuck \cup Expirers({r}) /\ unsaved' = unsaved \cup Cachers({r})
  /\ Finish(r)
  /\ UNCHANGED <<redis, inbox, current, crossed, doubled, passed, bounds>>

Crash ==
  /\ Fault
  /\ stuck' = stuck \cup Expirers(Req) /\ unsaved' = unsaved \cup Cachers(Req)
  /\ step' = [r \in Req |-> "idle"] /\ cmd' = [r \in Req |-> None]
  /\ UNCHANGED <<redis, inbox, current, crossed, doubled, passed>>

\* Redis restarts and is empty.
RedisEmptied ==
  /\ Fault
  /\ hits' = [c \in Client |-> 0] /\ expiring' = [c \in Client |-> FALSE]
  /\ code' = [e \in Email |-> None]
  /\ stuck' = {} /\ current' = {}
  /\ UNCHANGED <<inbox, step, cmd, crossed, unsaved, doubled, passed>>

-----------------------------------------------------------------------------
\* The program's own next move for request r.
Advance(r) ==
  Increment(r) \/ Expire(r) \/ SendMail(r) \/ Cache(r) \/ GetCode(r) \/ DeleteCode(r)

Next ==
  \/ \E r \in Req : Ask(r) \/ Enter(r) \/ Advance(r) \/ RedisRefuses(r)
  \/ \E c \in Client : WindowEnds(c)
  \/ \E e \in Email : Lapse(e)
  \/ Crash \/ RedisEmptied

\* Requests go on, and Redis drops the keys whose time is over.
Fairness ==
  /\ \A r \in Req : WF_vars(Advance(r))
  /\ \A c \in Client : WF_vars(WindowEnds(c))

Spec == Init /\ [][Next]_vars /\ Fairness

-----------------------------------------------------------------------------
Command == [client : Client \cup {None}, code : Code \cup {None}, email : Email]

TypeOK ==
  /\ hits \in [Client -> Nat] /\ expiring \in [Client -> BOOLEAN]
  /\ code \in [Email -> Code \cup {None}] /\ inbox \in [Email -> Code \cup {None}]
  /\ step \in [Req -> Steps] /\ cmd \in [Req -> Command \cup {None}]
  /\ \A r \in Req :
       /\ step[r] # "idle" => cmd[r] \in Command
       /\ step[r] \in {"incr", "expire"} => cmd[r].client \in Client
       /\ step[r] \in {"cache"} \cup Entering => cmd[r].code \in Code
  /\ stuck \subseteq Client /\ current \cup crossed \cup unsaved \cup doubled \subseteq Email
  /\ passed \in [Email -> Nat]
  /\ \A c \in Client : expiring[c] => hits[c] > 0

\* When no mail of an address waits for its code to be cached, the code of the
\* newest one is accepted until it is used or lapses, and no older mail's code is.
\* There are two exceptions, both until the next mail: a request for a code that
\* overlapped another request for the address, and a mail that reached the reader
\* although its code was never cached, for the mail goes out first (the SET was
\* refused, the process died before it, or the send reported an error).  Then an
\* older mail's code may go on being accepted while the newest is refused.
NewestAccepted ==
  \A e \in Email \ (crossed \cup unsaved) :
    /\ e \in current => code[e] = inbox[e]
    /\ (\A r \in Req : step[r] = "cache" => cmd[r].email # e) => code[e] \in {inbox[e], None}

\* A mailed code is accepted once, unless two entries overlapped.
AcceptedOnce == \A e \in Email \ doubled : passed[e] <= 1

\* Whoever has used up the limit can ask for a code again later, unless the
\* process died or Redis refused between INCR and EXPIRE, or the first INCR was
\* sent twice: then the counter stays for good.
AskedAgain == \A c \in Client : hits[c] > 0 ~> hits[c] = 0 \/ c \in stuck
=============================================================================
