--------------------------- MODULE EmailCodesProofs ---------------------------
(***************************************************************************)
(* Which code is accepted, and how often, for any number of clients,       *)
(* addresses, codes, requests and faults.                                  *)
(***************************************************************************)
EXTENDS EmailCodes, TLAPS

-----------------------------------------------------------------------------
(* Types.                                                                   *)

LEMMA InitTypeOK == Init => TypeOK
BY CodeAssumption DEF Init, TypeOK, Steps, Entering

\* Each step keeps the types.
LEMMA NextTypeOK == TypeOK /\ [Next]_vars => TypeOK'
<1> SUFFICES ASSUME TypeOK, [Next]_vars PROVE TypeOK'
  OBVIOUS
<1> USE DEF TypeOK, redis, history, bounds
<1>1. ASSUME NEW r \in Req, Ask(r) PROVE TypeOK'
  <2>1. PICK c \in Client, e \in Email : Begin(r, [client |-> c, code |-> None, email |-> e], "incr")
    BY <1>1 DEF Ask
  <2>2. [client |-> c, code |-> None, email |-> e] \in Command
    BY DEF Command
  <2> QED
    BY <1>1, <2>1, <2>2 DEF Ask, Begin, Steps, Entering
<1>2. ASSUME NEW r \in Req, Enter(r) PROVE TypeOK'
  <2>1. PICK e \in Email, k \in Code :
          /\ Begin(r, [client |-> None, code |-> k, email |-> e], "get")
          /\ crossed' = IF Others(r, e, {"cache"}) = {} THEN crossed ELSE crossed \cup {e}
          /\ doubled' = IF Others(r, e, Entering) = {} THEN doubled ELSE doubled \cup {e}
    BY <1>2 DEF Enter
  <2>2. [client |-> None, code |-> k, email |-> e] \in Command
    BY DEF Command
  <2> QED
    BY <1>2, <2>1, <2>2 DEF Enter, Begin, Steps, Entering
<1>3. ASSUME NEW r \in Req, Increment(r) PROVE TypeOK'
  <2>1. PICK n \in {1, 2} :
          /\ hits' = [hits EXCEPT ![cmd[r].client] = @ + n]
          /\ stuck' \subseteq stuck \cup {cmd[r].client}
    BY <1>3 DEF Increment
  <2>2. hits' \in [Client -> Nat] /\ \A c \in Client : hits'[c] >= hits[c]
    <3>1. n \in Nat /\ \A h \in Nat : h + n \in Nat /\ h + n >= h
      OBVIOUS
    <3>2. hits' = [c \in Client |-> IF c = cmd[r].client THEN hits[c] + n ELSE hits[c]]
      BY <2>1
    <3> QED
      BY <3>1, <3>2
  <2>3. step[r] = "incr" /\ UNCHANGED <<expiring, code, inbox, current, crossed, unsaved, doubled, passed>>
    BY <1>3 DEF Increment
  <2>4. Go(r, "expire") \/ Go(r, "mail") \/ Finish(r)
    BY <1>3 DEF Increment
  <2> QED
    BY <2>1, <2>2, <2>3, <2>4 DEF Go, Finish, Steps, Entering
<1>4. ASSUME NEW r \in Req, Expire(r) PROVE TypeOK'
  BY <1>4 DEF Expire, Go, Steps, Entering
<1>5. ASSUME NEW r \in Req, SendMail(r) PROVE TypeOK'
  <2>1. cmd[r] \in Command /\ cmd[r].email \in Email
    BY <1>5 DEF SendMail, Command
  <2>2. CASE Finish(r) /\ UNCHANGED <<inbox, current, crossed, unsaved>>
    BY <1>5, <2>2 DEF SendMail, Finish, Steps, Entering
  <2>3. ASSUME NEW k \in Code, Mailed(r, cmd[r].email, k),
               cmd' = [cmd EXCEPT ![r].code = k], step' = [step EXCEPT ![r] = "cache"],
               unsaved' = unsaved \ {cmd[r].email}
        PROVE  TypeOK'
    <3>1. cmd'[r] \in Command /\ cmd'[r].code \in Code
      BY <2>1, <2>3 DEF Command
    <3> QED
      BY <1>5, <2>1, <2>3, <3>1 DEF SendMail, Mailed, Steps, Entering
  <2>4. ASSUME NEW k \in Code, Mailed(r, cmd[r].email, k), Finish(r),
               unsaved' = unsaved \cup {cmd[r].email}
        PROVE  TypeOK'
    BY <1>5, <2>1, <2>4 DEF SendMail, Mailed, Finish, Steps, Entering
  <2> QED
    BY <1>5, <2>2, <2>3, <2>4 DEF SendMail
<1>6. ASSUME NEW r \in Req, Cache(r) PROVE TypeOK'
  BY <1>6 DEF Cache, Cached, Finish, Steps, Entering, Command
<1>7. ASSUME NEW r \in Req, GetCode(r) PROVE TypeOK'
  BY <1>7 DEF GetCode, Go, Finish, Steps, Entering
<1>8. ASSUME NEW r \in Req, DeleteCode(r) PROVE TypeOK'
  BY <1>8 DEF DeleteCode, Deleted, Finish, Steps, Entering, Command
<1>9. ASSUME NEW r \in Req, RedisRefuses(r) PROVE TypeOK'
  BY <1>9 DEF RedisRefuses, Expirers, Cachers, Finish, Steps, Entering, Command
<1>10. ASSUME NEW c \in Client, WindowEnds(c) PROVE TypeOK'
  BY <1>10 DEF WindowEnds
<1>11. ASSUME NEW e \in Email, Lapse(e) PROVE TypeOK'
  BY <1>11 DEF Lapse
<1>12. CASE Crash
  BY <1>12 DEF Crash, Fault, Expirers, Cachers, Steps, Entering, Command
<1>13. CASE RedisEmptied
  BY <1>13 DEF RedisEmptied, Fault
<1>14. CASE UNCHANGED vars
  BY <1>14 DEF vars
<1> QED
  BY <1>1, <1>2, <1>3, <1>4, <1>5, <1>6, <1>7, <1>8, <1>9, <1>10, <1>11, <1>12, <1>13, <1>14
  DEF Next, Advance

\* Counters, codes and requests keep their types, and a counter with an expiry is
\* one that counts.
THEOREM TypeCorrect == Spec => []TypeOK
BY InitTypeOK, NextTypeOK, PTL DEF Spec
-----------------------------------------------------------------------------
(* Codes.                                                                   *)

At(r, e, steps) == step[r] \in steps /\ cmd[r].email = e

\* Unless its mail was crossed, the code that is about to be cached is that of the
\* newest mail, and nobody else is at work for the address who could replace or
\* delete it.  Once it is cached it is the only one that can be found, unless it
\* never will be.
MailInv ==
  \A e \in Email \ crossed :
    /\ \A r \in Req : At(r, e, {"cache"}) =>
         inbox[e] = cmd[r].code /\ \A q \in Req \ {r} : ~At(q, e, {"cache"} \cup Entering)
    /\ e \notin unsaved =>
         /\ e \in current => code[e] = inbox[e]
         /\ (\A r \in Req : ~At(r, e, {"cache"})) => code[e] \in {inbox[e], None}

\* Unless entries overlapped, at most one is at work for the address, and once a
\* code was accepted it is gone and nobody is about to delete it again.
EntryInv ==
  \A e \in Email \ doubled :
    /\ \A q, r \in Req : At(q, e, Entering) /\ At(r, e, Entering) => q = r
    /\ \/ passed[e] = 0
       \/ passed[e] = 1 /\ code[e] = None /\ \A r \in Req : ~At(r, e, {"del"})

IInv == TypeOK /\ MailInv /\ EntryInv

LEMMA InitIInv == Init => IInv
<1> SUFFICES ASSUME Init PROVE IInv
  OBVIOUS
<1>1. TypeOK
  BY InitTypeOK
<1>2. MailInv /\ EntryInv
  BY DEF Init, MailInv, EntryInv, At, Entering
<1> QED
  BY <1>1, <1>2 DEF IInv

\* The steps that touch neither a mail nor a code: a request begins, goes on, or
\* ends without one.
LEMMA QuietStep ==
  ASSUME IInv, TypeOK',
         UNCHANGED <<code, inbox, current, crossed, doubled, passed>>,
         \A q \in Req : \/ step'[q] = step[q] /\ cmd'[q] = cmd[q]
                        \/ /\ step'[q] \notin {"cache"} \cup Entering
                           /\ step[q] = "cache" => cmd[q].email \in unsaved',
         unsaved \subseteq unsaved'
  PROVE  IInv'
<1>1. MailInv'
  BY DEF IInv, MailInv, At, Entering
<1>2. EntryInv'
  BY DEF IInv, EntryInv, At, Entering
<1> QED
  BY <1>1, <1>2 DEF IInv

\* A step keeps the types and what is known of codes.
LEMMA NextIInv == IInv /\ [Next]_vars => IInv'
<1> SUFFICES ASSUME IInv, [Next]_vars PROVE IInv'
  OBVIOUS
<1>0. TypeOK /\ TypeOK'
  BY NextTypeOK DEF IInv
<1> USE DEF redis, history, bounds
<1>1. ASSUME NEW r \in Req, Ask(r) PROVE IInv'
  <2>1. PICK c \in Client, e \in Email : Begin(r, [client |-> c, code |-> None, email |-> e], "incr")
    BY <1>1 DEF Ask
  <2>2. \A q \in Req : \/ step'[q] = step[q] /\ cmd'[q] = cmd[q]
                       \/ step'[q] \notin {"cache"} \cup Entering /\ step[q] # "cache"
    BY <1>0, <2>1 DEF Begin, TypeOK, Entering
  <2> QED
    BY <1>0, <1>1, <2>2, QuietStep DEF Ask
<1>2. ASSUME NEW r \in Req, Enter(r) PROVE IInv'
  <2>1. PICK e \in Email, k \in Code :
          /\ Begin(r, [client |-> None, code |-> k, email |-> e], "get")
          /\ crossed' = IF Others(r, e, {"cache"}) = {} THEN crossed ELSE crossed \cup {e}
          /\ doubled' = IF Others(r, e, Entering) = {} THEN doubled ELSE doubled \cup {e}
    BY <1>2 DEF Enter
  <2>2. /\ step[r] = "idle" /\ step' = [step EXCEPT ![r] = "get"]
        /\ cmd' = [cmd EXCEPT ![r] = [client |-> None, code |-> k, email |-> e]]
        /\ UNCHANGED <<code, inbox, current, unsaved, passed>>
    BY <1>2, <2>1 DEF Enter, Begin
  <2>3. MailInv'
    BY <1>0, <2>1, <2>2 DEF IInv, MailInv, At, Others, Entering, TypeOK
  <2>4. EntryInv'
    BY <1>0, <2>1, <2>2 DEF IInv, EntryInv, At, Others, Entering, TypeOK
  <2> QED
    BY <1>0, <2>3, <2>4 DEF IInv
<1>3. ASSUME NEW r \in Req, Increment(r) PROVE IInv'
  <2>1. \A q \in Req : \/ step'[q] = step[q] /\ cmd'[q] = cmd[q]
                       \/ step'[q] \notin {"cache"} \cup Entering /\ step[q] # "cache"
    BY <1>0, <1>3 DEF Increment, Go, Finish, TypeOK, Entering
  <2> QED
    BY <1>0, <1>3, <2>1, QuietStep DEF Increment
<1>4. ASSUME NEW r \in Req, Expire(r) PROVE IInv'
  <2>1. \A q \in Req : \/ step'[q] = step[q] /\ cmd'[q] = cmd[q]
                       \/ step'[q] \notin {"cache"} \cup Entering /\ step[q] # "cache"
    BY <1>0, <1>4 DEF Expire, Go, TypeOK, Entering
  <2> QED
    BY <1>0, <1>4, <2>1, QuietStep DEF Expire
<1>5. ASSUME NEW r \in Req, SendMail(r) PROVE IInv'
  <2> DEFINE e == cmd[r].email
  <2>0. cmd[r] \in Command /\ e \in Email
    BY <1>0, <1>5 DEF SendMail, TypeOK, Command
  <2>1. CASE Finish(r) /\ UNCHANGED <<inbox, current, crossed, unsaved>>
    <3>1. \A q \in Req : \/ step'[q] = step[q] /\ cmd'[q] = cmd[q]
                         \/ step'[q] \notin {"cache"} \cup Entering /\ step[q] # "cache"
      BY <1>0, <1>5, <2>1 DEF SendMail, Finish, TypeOK, Entering
    <3> QED
      BY <1>0, <1>5, <2>1, <3>1, QuietStep DEF SendMail
  <2>2. ASSUME NEW k \in Code, Mailed(r, e, k), cmd' = [cmd EXCEPT ![r].code = k],
               step' = [step EXCEPT ![r] = "cache"], unsaved' = unsaved \ {e}
        PROVE  IInv'
    <3>1. cmd'[r].email = e /\ cmd'[r].code = k /\ \A q \in Req \ {r} : cmd'[q] = cmd[q]
      BY <1>0, <2>0, <2>2 DEF TypeOK, Command
    <3>2. UNCHANGED <<code, doubled, passed>> /\ step[r] = "mail"
      BY <1>5 DEF SendMail
    <3>3. MailInv'
      BY <1>0, <2>0, <2>2, <3>1, <3>2 DEF Mailed, IInv, MailInv, At, Others, Entering, TypeOK
    <3>4. EntryInv'
      BY <1>0, <2>0, <2>2, <3>1, <3>2 DEF IInv, EntryInv, At, Entering, TypeOK
    <3> QED
      BY <1>0, <3>3, <3>4 DEF IInv
  <2>3. ASSUME NEW k \in Code, Mailed(r, e, k), Finish(r), unsaved' = unsaved \cup {e}
        PROVE  IInv'
    <3>1. /\ step' = [step EXCEPT ![r] = "idle"] /\ \A q \in Req \ {r} : cmd'[q] = cmd[q]
          /\ UNCHANGED <<code, doubled, passed>> /\ step[r] = "mail"
      BY <1>0, <1>5, <2>3 DEF SendMail, Finish, TypeOK
    <3>2. MailInv'
      BY <1>0, <2>0, <2>3, <3>1 DEF Mailed, IInv, MailInv, At, Others, Entering, TypeOK
    <3>3. EntryInv'
      BY <1>0, <2>0, <2>3, <3>1 DEF IInv, EntryInv, At, Entering, TypeOK
    <3> QED
      BY <1>0, <3>2, <3>3 DEF IInv
  <2> QED
    BY <1>5, <2>1, <2>2, <2>3 DEF SendMail
<1>6. ASSUME NEW r \in Req, Cache(r) PROVE IInv'
  <2> DEFINE e == cmd[r].email
  <2>1. cmd[r] \in Command /\ e \in Email
    BY <1>0, <1>6 DEF Cache, TypeOK, Command
  <2>2. /\ step[r] = "cache" /\ code' = [code EXCEPT ![e] = cmd[r].code]
        /\ current' = current \cup {e} /\ passed' = [passed EXCEPT ![e] = 0]
        /\ doubled' = IF Others(r, e, Entering) = {} THEN doubled \ {e} ELSE doubled
        /\ step' = [step EXCEPT ![r] = "idle"] /\ cmd' = [cmd EXCEPT ![r] = None]
        /\ UNCHANGED <<inbox, crossed, unsaved>>
    BY <1>6 DEF Cache, Cached, Finish
  <2>3. MailInv'
    BY <1>0, <2>1, <2>2 DEF IInv, MailInv, At, Entering, TypeOK
  <2>4. EntryInv'
    BY <1>0, <2>1, <2>2 DEF IInv, EntryInv, At, Others, Entering, TypeOK
  <2> QED
    BY <1>0, <2>3, <2>4 DEF IInv
<1>7. ASSUME NEW r \in Req, GetCode(r) PROVE IInv'
  <2> DEFINE e == cmd[r].email
  <2>1. CASE code[e] = cmd[r].code
    <3>1. /\ step[r] = "get" /\ step' = [step EXCEPT ![r] = "del"]
          /\ UNCHANGED <<cmd, code, inbox, current, crossed, unsaved, doubled, passed>>
      BY <1>7, <2>1 DEF GetCode, Go
    <3>2. code[e] # None
      BY <1>0, <2>1, <3>1, CodeAssumption DEF TypeOK, Entering
    <3>3. MailInv'
      BY <1>0, <3>1 DEF IInv, MailInv, At, Entering, TypeOK
    <3>4. EntryInv'
      BY <1>0, <3>1, <3>2 DEF IInv, EntryInv, At, Entering, TypeOK
    <3> QED
      BY <1>0, <3>3, <3>4 DEF IInv
  <2>2. CASE code[e] # cmd[r].code
    <3>1. Finish(r)
      BY <1>7, <2>2 DEF GetCode
    <3>2. \A q \in Req : \/ step'[q] = step[q] /\ cmd'[q] = cmd[q]
                         \/ step'[q] \notin {"cache"} \cup Entering /\ step[q] # "cache"
      BY <1>0, <1>7, <3>1 DEF GetCode, Finish, TypeOK, Entering
    <3> QED
      BY <1>0, <1>7, <3>2, QuietStep DEF GetCode
  <2> QED
    BY <2>1, <2>2
<1>8. ASSUME NEW r \in Req, DeleteCode(r) PROVE IInv'
  <2> DEFINE e == cmd[r].email
  <2>1. cmd[r] \in Command /\ e \in Email
    BY <1>0, <1>8 DEF DeleteCode, TypeOK, Command
  <2>2. /\ step[r] = "del" /\ code' = [code EXCEPT ![e] = None]
        /\ current' = current \ {e} /\ passed' = [passed EXCEPT ![e] = @ + 1]
        /\ step' = [step EXCEPT ![r] = "idle"] /\ cmd' = [cmd EXCEPT ![r] = None]
        /\ UNCHANGED <<inbox, crossed, unsaved, doubled>>
    BY <1>8 DEF DeleteCode, Deleted, Finish
  <2>3. MailInv'
    BY <1>0, <2>1, <2>2 DEF IInv, MailInv, At, Entering, TypeOK
  <2>4. EntryInv'
    BY <1>0, <2>1, <2>2 DEF IInv, EntryInv, At, Entering, TypeOK
  <2> QED
    BY <1>0, <2>3, <2>4 DEF IInv
<1>9. ASSUME NEW r \in Req, RedisRefuses(r) PROVE IInv'
  <2>1. \A q \in Req : \/ step'[q] = step[q] /\ cmd'[q] = cmd[q]
                       \/ /\ step'[q] \notin {"cache"} \cup Entering
                          /\ step[q] = "cache" => cmd[q].email \in unsaved'
    BY <1>0, <1>9 DEF RedisRefuses, Cachers, Finish, TypeOK, Entering
  <2> QED
    BY <1>0, <1>9, <2>1, QuietStep DEF RedisRefuses
<1>10. ASSUME NEW c \in Client, WindowEnds(c) PROVE IInv'
  BY <1>0, <1>10, QuietStep DEF WindowEnds
<1>11. ASSUME NEW e \in Email, Lapse(e) PROVE IInv'
  <2>1. MailInv'
    BY <1>0, <1>11 DEF Lapse, IInv, MailInv, At, Entering, TypeOK
  <2>2. EntryInv'
    BY <1>0, <1>11 DEF Lapse, IInv, EntryInv, At, Entering, TypeOK
  <2> QED
    BY <1>0, <2>1, <2>2 DEF IInv
<1>12. CASE Crash
  <2>1. \A q \in Req : /\ step'[q] \notin {"cache"} \cup Entering
                       /\ step[q] = "cache" => cmd[q].email \in unsaved'
    BY <1>12 DEF Crash, Cachers, Entering
  <2> QED
    BY <1>0, <1>12, <2>1, QuietStep DEF Crash
<1>13. CASE RedisEmptied
  <2>1. MailInv'
    BY <1>0, <1>13 DEF RedisEmptied, IInv, MailInv, At, Entering, TypeOK
  <2>2. EntryInv'
    BY <1>0, <1>13 DEF RedisEmptied, IInv, EntryInv, At, Entering, TypeOK
  <2> QED
    BY <1>0, <2>1, <2>2 DEF IInv
<1>14. CASE UNCHANGED vars
  BY <1>0, <1>14, QuietStep DEF vars
<1> QED
  BY <1>1, <1>2, <1>3, <1>4, <1>5, <1>6, <1>7, <1>8, <1>9, <1>10, <1>11, <1>12, <1>13, <1>14
  DEF Next, Advance

LEMMA Always == Spec => []IInv
BY InitIInv, NextIInv, PTL DEF Spec

\* Once no mail of an address waits for its code to be cached, the newest mail's
\* code is accepted and no older one is, however mails, entries, lapses and faults
\* follow one another: except where a request crossed the mail or its code was
\* never cached.
THEOREM NewestIsAccepted == Spec => []NewestAccepted
<1>1. IInv => NewestAccepted
  BY DEF IInv, MailInv, NewestAccepted, At
<1> QED
  BY <1>1, Always, PTL

\* One mailed code lets one entry through, as long as entries do not overlap.
THEOREM OneEntryAccepted == Spec => []AcceptedOnce
<1>1. IInv => AcceptedOnce
  BY DEF IInv, TypeOK, EntryInv, AcceptedOnce
<1> QED
  BY <1>1, Always, PTL
=============================================================================
