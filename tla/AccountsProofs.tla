------------------------ MODULE AccountsProofs ------------------------
(***************************************************************************)
(* Proofs about Accounts, for any number of workers, names and sessions.   *)
(*                                                                         *)
(* What a property says of the tables depends on what workers still hold   *)
(* in their hands when the tables change: the invariant speaks of every    *)
(* worker (JobOK) as it does of every row.  A job that read the account    *)
(* before a revocation is out of date and may carry anything; one that     *)
(* read it in the present era carries what the tables say now.             *)
(*                                                                         *)
(* The limits have an invariant of their own (LInv).  A lock does not stop *)
(* the attempts that are being verified: while it lasts, the misses and    *)
(* the attempts under way together stay below the bound.  A bucket's level *)
(* pays for what was let through until it was last filled.                 *)
(***************************************************************************)
EXTENDS Accounts, FiniteSetTheorems, TLAPS

Session == [id: Nat, user: Names, expires: Nat, read: Nat, era: Nat, password: Passwords]
Token == [id: Nat, user: Names, read: Nat, era: Nat]

TablesTyped ==
  /\ DOMAIN accounts \subseteq Names
  /\ accounts \in [DOMAIN accounts -> [enabled: BOOLEAN, password: Passwords]]
  /\ sessions \subseteq Session /\ tokens \subseteq Token
  /\ issued \in Nat /\ now \in Nat /\ era \in [Names -> Nat]
  /\ \A c \in Credentials : c.id <= issued /\ c.user \in DOMAIN accounts
  /\ \A s, x \in sessions : s.id = x.id => s = x

\* what a worker knows of the account of n it read in the era r, when it found
\* the account enabled
Fresh(n, r) == n \in DOMAIN accounts /\ r \in Nat /\ r <= era[n]
                 /\ (r = era[n] => accounts[n].enabled)

JobOK(j) ==
  /\ j.pc # "idle" => j.user \in Names
  /\ j.pc = "verify" =>
       /\ j.password \in Passwords
       /\ j.row # Absent => /\ Fresh(j.user, j.read)
                            /\ j.read = era[j.user] => j.row = accounts[j.user].password
  /\ j.pc = "open" => /\ j.password \in Passwords
                      /\ Fresh(j.user, j.read)
                      /\ j.read = era[j.user] => j.password = accounts[j.user].password
  /\ j.pc = "hash" => j.password \in Passwords
  /\ j.pc = "token" => Fresh(j.user, j.read)
  /\ j.pc \in {"password", "change"} =>
       /\ j.user \in DOMAIN accounts
       /\ j.session \in Nat /\ j.session <= issued
       /\ \A s \in sessions : s.id = j.session => s.user = j.user /\ accounts[j.user].enabled
  /\ j.pc = "change" => j.password \in Passwords
  /\ j.pc \in {"disable", "enable", "reset"} => j.about \in DOMAIN accounts

IInv ==
  /\ TablesTyped
  /\ DOMAIN workers = Workers
  /\ RevocationComplete
  /\ StaleOnlyIfRaced
  /\ \A w \in Workers : JobOK(workers[w])
-----------------------------------------------------------------------------
\* A worker that finishes a request is idle.
LEMMA IdleOK == JobOK(Idle) /\ JobOK(Idle)'
BY DEF JobOK, Idle

\* A step of one worker that leaves the tables alone.
LEMMA JobKeeps ==
  ASSUME IInv, UNCHANGED <<accounts, sessions, tokens, issued, era>>, now' \in Nat,
         NEW w \in Workers, NEW j, workers' = [workers EXCEPT ![w] = j], JobOK(j)
  PROVE  IInv'
<1>1. TablesTyped' /\ RevocationComplete' /\ StaleOnlyIfRaced'
  BY DEF IInv, TablesTyped, RevocationComplete, StaleOnlyIfRaced, Credentials, Enabled
<1>2. \A x : JobOK(x) <=> JobOK(x)'
  BY DEF JobOK, Fresh
<1>3. DOMAIN workers' = Workers
  BY DEF IInv
<1>4. \A v \in Workers : JobOK(workers'[v])
  BY DEF IInv
<1> QED
  BY <1>1, <1>2, <1>3, <1>4 DEF IInv, JobOK, Fresh

\* A step that changes nothing the invariant looks at.
LEMMA SameKeeps ==
  ASSUME IInv, UNCHANGED <<accounts, sessions, tokens, issued, era, workers>>, now' \in Nat
  PROVE  IInv'
BY DEF IInv, TablesTyped, RevocationComplete, StaleOnlyIfRaced, Credentials, Enabled,
       JobOK, Fresh

\* The new row of a registration leaves the others as they are.
LEMMA NewAccount ==
  ASSUME NEW n, NEW r, n \notin DOMAIN accounts, accounts' = With(accounts, n, r)
  PROVE  /\ DOMAIN accounts' = DOMAIN accounts \cup {n}
         /\ accounts' = [m \in DOMAIN accounts' |-> accounts'[m]]
         /\ accounts'[n] = r
         /\ \A m \in DOMAIN accounts : accounts'[m] = accounts[m]
BY DEF With
-----------------------------------------------------------------------------
(***************************************************************************)
(* The steps that leave the tables alone.                                  *)
(***************************************************************************)

\* The password is read of an enabled account, and verified.
LEMMA LoginKeeps ==
  ASSUME IInv, NEW w \in Workers,
         \/ \E n \in Visitors, p \in Passwords : LoginBegin(w, n, p)
         \/ LoginWrong(w) \/ LoginRight(w)
  PROVE  IInv'
<1>1. ASSUME NEW n \in Visitors, NEW p \in Passwords, LoginBegin(w, n, p) PROVE IInv'
  <2> DEFINE row == IF Enabled(n) THEN accounts[n].password ELSE Absent
  <2>1. PICK j : /\ j = [pc |-> "verify", user |-> n, password |-> p, read |-> era[n], row |-> row]
                 /\ Becomes(w, j) /\ UNCHANGED <<now, tableVars>>
    BY <1>1 DEF LoginBegin
  <2>2. n \in Names /\ era[n] \in Nat
    BY AccountsAssumption DEF IInv, TablesTyped
  <2>3. JobOK(j)
    BY <2>1, <2>2 DEF JobOK, Fresh, Enabled
  <2>4. now' \in Nat
    BY <2>1 DEF IInv, TablesTyped
  <2> QED
    BY <2>1, <2>3, <2>4, JobKeeps DEF Becomes, tableVars
<1>2. CASE LoginWrong(w)
  <2>1. now' \in Nat
    BY <1>2 DEF LoginWrong, IInv, TablesTyped
  <2> QED
    BY <1>2, <2>1, IdleOK, JobKeeps DEF LoginWrong, Becomes, tableVars
<1>3. CASE LoginRight(w)
  <2>1. now' \in Nat /\ UNCHANGED tableVars
    BY <1>3 DEF LoginRight, IInv, TablesTyped
  <2>2. CASE Becomes(w, Idle)
    BY <2>1, <2>2, IdleOK, JobKeeps DEF Becomes, tableVars
  <2>3. CASE Becomes(w, Opening(workers[w]))
    <3>1. PICK j : j = Opening(workers[w])
      OBVIOUS
    <3>2. /\ workers[w].pc = "verify" /\ workers[w].row = workers[w].password
          /\ JobOK(workers[w])
      BY <1>3 DEF LoginRight, At, IInv
    <3>3. JobOK(j)
      BY <3>1, <3>2, AccountsAssumption DEF Opening, JobOK
    <3> QED
      BY <2>1, <2>3, <3>1, <3>3, JobKeeps DEF Becomes, tableVars
  <2> QED
    BY <1>3, <2>2, <2>3 DEF LoginRight
<1> QED
  BY <1>1, <1>2, <1>3

\* A registration begins, or finds the name taken.
LEMMA RegisterBeginKeeps ==
  ASSUME IInv, NEW w \in Workers, NEW n \in Visitors, NEW p \in Passwords,
         RegisterBegin(w, n, p)
  PROVE  IInv'
<1>1. now' \in Nat /\ UNCHANGED tableVars
  BY DEF RegisterBegin, IInv, TablesTyped
<1>2. PICK j : j = [pc |-> "hash", user |-> n, password |-> p]
  OBVIOUS
<1>3. UNCHANGED workers \/ Becomes(w, j)
  BY <1>2 DEF RegisterBegin
<1>4. JobOK(j)
  BY <1>2, AccountsAssumption DEF JobOK
<1> QED
  BY <1>1, <1>3, <1>4, JobKeeps, SameKeeps DEF Becomes, tableVars

\* A request is accepted while its session is there and its account enabled.
LEMMA AcceptKeeps ==
  ASSUME IInv, NEW w \in Workers, NEW s \in sessions, NEW r \in Requests,
         Accept(w, s, r.do, r.about)
  PROVE  IInv'
<1>1. now' \in Nat /\ UNCHANGED tableVars
  BY DEF Accept, IInv, TablesTyped
<1>2. PICK j : j = [pc |-> r.do, user |-> s.user, session |-> s.id,
                    about |-> r.about, read |-> era[s.user]]
  OBVIOUS
<1>3. CASE UNCHANGED workers
  BY <1>1, <1>3, SameKeeps DEF tableVars
<1>4. CASE Becomes(w, j)
  <2>1. CASE UNCHANGED workers
    BY <1>3, <2>1
  <2>2. CASE ~UNCHANGED workers
    <3>1. r.do \in {"disable", "enable", "reset"} => r.about \in DOMAIN accounts
      BY <2>2 DEF Accept
    <3>2. /\ s.user \in Names /\ s.user \in DOMAIN accounts /\ accounts[s.user].enabled
          /\ era[s.user] \in Nat /\ s.id \in Nat /\ s.id <= issued
      BY DEF Accept, Enabled, IInv, TablesTyped, Session, Credentials
    <3>3. \A x \in sessions : x.id = s.id => x = s
      BY DEF IInv, TablesTyped
    <3>4. r.do \in Doings
      BY RequestsAssumption
    <3>5. JobOK(j)
      BY <1>2, <3>1, <3>2, <3>3, <3>4 DEF JobOK, Fresh, Doings
    <3> QED
      BY <1>1, <1>4, <3>5, JobKeeps DEF Becomes, tableVars
  <2> QED
    BY <2>1, <2>2
<1> QED
  BY <1>2, <1>3, <1>4 DEF Accept

\* The old password is verified before the transaction.
LEMMA VerifyKeeps ==
  ASSUME IInv, NEW w \in Workers, NEW old \in Passwords, VerifyOld(w, old)
  PROVE  IInv'
<1>1. now' \in Nat /\ UNCHANGED tableVars
  BY DEF VerifyOld, IInv, TablesTyped
<1>2. CASE Becomes(w, Idle)
  BY <1>1, <1>2, IdleOK, JobKeeps DEF Becomes, tableVars
<1>3. ASSUME NEW new \in Passwords,
             Becomes(w, [pc |-> "change", user |-> workers[w].user,
                         session |-> workers[w].session, password |-> new])
      PROVE  IInv'
  <2>1. PICK j : j = [pc |-> "change", user |-> workers[w].user,
                      session |-> workers[w].session, password |-> new]
    OBVIOUS
  <2>2. workers[w].pc = "password" /\ JobOK(workers[w])
    BY DEF VerifyOld, At, IInv
  <2>3. JobOK(j)
    BY <2>1, <2>2 DEF JobOK
  <2> QED
    BY <1>1, <1>3, <2>1, <2>3, JobKeeps DEF Becomes, tableVars
<1> QED
  BY <1>2, <1>3 DEF VerifyOld

\* A handler that fails has changed nothing; time passes.
LEMMA FailKeeps ==
  ASSUME IInv, Tick \/ \E w \in Workers : Fail(w)
  PROVE  IInv'
<1>1. CASE Tick
  BY <1>1, SameKeeps DEF Tick, tableVars, IInv, TablesTyped
<1>2. ASSUME NEW w \in Workers, Fail(w) PROVE IInv'
  <2>1. now' \in Nat
    BY <1>2 DEF Fail, Handled, IInv, TablesTyped
  <2> QED
    BY <1>2, <2>1, IdleOK, JobKeeps DEF Fail, Handled, Becomes, tableVars
<1> QED
  BY <1>1, <1>2
-----------------------------------------------------------------------------
(***************************************************************************)
(* The steps that change the tables.  What every other worker holds must   *)
(* still be right of the new tables, or have become out of date.           *)
(***************************************************************************)

\* The worker that took the step holds j now; the others hold what they held.
LEMMA TablesKeep ==
  ASSUME IInv, NEW w \in Workers, NEW j, workers' = [workers EXCEPT ![w] = j], JobOK(j)',
         \A x : JobOK(x) => JobOK(x)',
         TablesTyped', RevocationComplete', StaleOnlyIfRaced'
  PROVE  IInv'
<1>1. DOMAIN workers' = Workers
  BY DEF IInv
<1>2. ASSUME NEW v \in Workers PROVE JobOK(workers[v])'
  <2>1. PICK x : x = workers[v]
    OBVIOUS
  <2>2. JobOK(x)'
    BY <2>1 DEF IInv
  <2>3. workers'[v] = IF v = w THEN j ELSE x
    BY <2>1 DEF IInv
  <2> QED
    BY <2>2, <2>3 DEF JobOK, Fresh
<1> QED
  BY <1>1, <1>2 DEF IInv

\* A session is inserted: it carries what the login or registration read.
LEMMA OpenKeeps ==
  ASSUME IInv, NEW w \in Workers, OpenSession(w)
  PROVE  IInv'
<1>1. PICK job : job = workers[w]
  OBVIOUS
<1>2. /\ JobOK(job) /\ job.pc = "open"
      /\ UNCHANGED <<now, accounts, tokens, era>> /\ issued' = issued + 1
      /\ Becomes(w, Idle)
  BY <1>1 DEF OpenSession, At, IInv
<1>3. PICK new : new = [id |-> issued + 1, user |-> job.user, expires |-> now + Ttl,
                        read |-> job.read, era |-> era[job.user], password |-> job.password]
  OBVIOUS
<1>4. sessions' = {s \in sessions : s.expires >= now} \cup {new}
  BY <1>1, <1>3 DEF OpenSession
<1>5. /\ job.user \in Names /\ job.password \in Passwords /\ Fresh(job.user, job.read)
      /\ job.read = era[job.user] => job.password = accounts[job.user].password
      /\ job.user \in DOMAIN accounts
  BY <1>2 DEF JobOK, Fresh
<1>6. issued \in Nat /\ now \in Nat /\ era[job.user] \in Nat /\ Ttl \in Nat
  BY <1>5, AccountsAssumption DEF IInv, TablesTyped
<1>7. new \in Session
  BY <1>3, <1>5, <1>6 DEF Session, Fresh
<1>8. \A c \in Credentials : c.id \in Nat /\ c.id <= issued
  BY DEF IInv, TablesTyped, Credentials, Session, Token
<1>9. TablesTyped'
  <2>1. sessions' \subseteq Session /\ tokens' \subseteq Token /\ issued' \in Nat /\ now' \in Nat
    BY <1>2, <1>4, <1>6, <1>7 DEF IInv, TablesTyped
  <2>2. \A c \in Credentials' : c = new \/ c \in Credentials
    BY <1>2, <1>4 DEF Credentials
  <2>3. \A c \in Credentials' : c.id <= issued' /\ c.user \in DOMAIN accounts'
    <3>1. new.id <= issued' /\ new.user \in DOMAIN accounts'
      BY <1>2, <1>3, <1>5, <1>6
    <3>2. \A c \in Credentials : c.id <= issued' /\ c.user \in DOMAIN accounts'
      BY <1>2, <1>6, <1>8 DEF IInv, TablesTyped
    <3> QED
      BY <2>2, <3>1, <3>2
  <2>4. \A s, x \in sessions' : s.id = x.id => s = x
    <3>1. \A s \in sessions : s.id # new.id
      BY <1>3, <1>6, <1>8 DEF Credentials
    <3> QED
      BY <1>4, <3>1 DEF IInv, TablesTyped
  <2> QED
    BY <1>2, <2>1, <2>3, <2>4 DEF IInv, TablesTyped
<1>10. RevocationComplete'
  BY <1>2, <1>3, <1>4 DEF IInv, RevocationComplete, Credentials
<1>11. StaleOnlyIfRaced'
  <2>1. new.read = era[new.user] => Enabled(new.user) /\ new.password = accounts[new.user].password
    BY <1>3, <1>5 DEF Fresh, Enabled
  <2> QED
    BY <1>2, <1>4, <2>1 DEF IInv, StaleOnlyIfRaced, Credentials, Enabled
<1>12. ASSUME NEW x, JobOK(x) PROVE JobOK(x)'
  <2>1. x.pc \in {"password", "change"} =>
          /\ x.session \in Nat /\ x.session <= issued'
          /\ \A s \in sessions' : s.id = x.session => s \in sessions
    BY <1>2, <1>3, <1>4, <1>6, <1>12 DEF JobOK
  <2> QED
    BY <1>2, <1>12, <2>1 DEF JobOK, Fresh
<1> QED
  BY <1>2, <1>9, <1>10, <1>11, <1>12, IdleOK, TablesKeep DEF Becomes

\* A token is inserted; the account may have been disabled meanwhile.
LEMMA TokenKeeps ==
  ASSUME IInv, NEW w \in Workers, CreateToken(w)
  PROVE  IInv'
<1>1. PICK job : job = workers[w]
  OBVIOUS
<1>2. /\ JobOK(job) /\ job.pc = "token"
      /\ UNCHANGED <<now, accounts, sessions, era>> /\ issued' = issued + 1
      /\ Becomes(w, Idle)
  BY <1>1 DEF CreateToken, Handled, At, IInv
<1>3. PICK new : new = [id |-> issued + 1, user |-> job.user,
                        read |-> job.read, era |-> era[job.user]]
  OBVIOUS
<1>4. tokens' = tokens \cup {new}
  BY <1>1, <1>3 DEF CreateToken
<1>5. job.user \in Names /\ Fresh(job.user, job.read) /\ job.user \in DOMAIN accounts
  BY <1>2 DEF JobOK, Fresh
<1>6. issued \in Nat /\ era[job.user] \in Nat
  BY <1>5 DEF IInv, TablesTyped
<1>7. new \in Token
  BY <1>3, <1>5, <1>6 DEF Token, Fresh
<1>8. TablesTyped'
  <2>1. \A c \in Credentials : c.id \in Nat /\ c.id <= issued /\ c.user \in DOMAIN accounts
    BY DEF IInv, TablesTyped, Credentials, Session, Token
  <2>2. \A c \in Credentials : c.id <= issued' /\ c.user \in DOMAIN accounts'
    BY <1>2, <1>6, <2>1
  <2>3. new.id <= issued' /\ new.user \in DOMAIN accounts'
    BY <1>2, <1>3, <1>5, <1>6
  <2>4. \A c \in Credentials' : c = new \/ c \in Credentials
    BY <1>2, <1>4 DEF Credentials
  <2>5. issued' \in Nat /\ tokens' \subseteq Token
    BY <1>2, <1>4, <1>6, <1>7 DEF IInv, TablesTyped
  <2> QED
    BY <1>2, <2>2, <2>3, <2>4, <2>5 DEF IInv, TablesTyped
<1>9. RevocationComplete'
  BY <1>2, <1>3, <1>4 DEF IInv, RevocationComplete, Credentials
<1>10. StaleOnlyIfRaced'
  <2>1. new.read = era[new.user] => Enabled(new.user)
    BY <1>3, <1>5 DEF Fresh, Enabled
  <2> QED
    BY <1>2, <1>4, <2>1 DEF IInv, StaleOnlyIfRaced, Credentials, Enabled
<1>11. ASSUME NEW x, JobOK(x) PROVE JobOK(x)'
  <2>1. x.pc \in {"password", "change"} => x.session \in Nat /\ x.session <= issued'
    BY <1>2, <1>6, <1>11 DEF JobOK
  <2> QED
    BY <1>2, <1>11, <2>1 DEF JobOK, Fresh
<1> QED
  BY <1>2, <1>8, <1>9, <1>10, <1>11, IdleOK, TablesKeep DEF Becomes

\* Rows go: by a deletion, or because they have expired.
LEMMA FewerKeep ==
  ASSUME IInv, UNCHANGED <<now, accounts, issued, era>>,
         sessions' \subseteq sessions, tokens' \subseteq tokens
  PROVE  /\ TablesTyped' /\ RevocationComplete' /\ StaleOnlyIfRaced'
         /\ \A x : JobOK(x) => JobOK(x)'
<1>1. TablesTyped'
  BY DEF IInv, TablesTyped, Credentials
<1>2. RevocationComplete' /\ StaleOnlyIfRaced'
  BY DEF IInv, RevocationComplete, StaleOnlyIfRaced, Credentials, Enabled
<1>3. \A x : JobOK(x) => JobOK(x)'
  BY DEF JobOK, Fresh
<1> QED
  BY <1>1, <1>2, <1>3

\* Logging out ends one session.  A restart ends the expired ones, and every
\* request under way.
LEMMA DeleteKeeps ==
  ASSUME IInv, Restart \/ \E w \in Workers : Delete(w)
  PROVE  IInv'
<1>1. ASSUME NEW w \in Workers, Delete(w) PROVE IInv'
  <2>1. /\ UNCHANGED <<now, accounts, issued, era>>
        /\ sessions' \subseteq sessions /\ tokens' \subseteq tokens /\ Becomes(w, Idle)
    BY <1>1 DEF Delete, Handled
  <2> QED
    BY <2>1, FewerKeep, IdleOK, TablesKeep DEF Becomes
<1>2. CASE Restart
  <2>1. /\ UNCHANGED <<now, accounts, issued, era>>
        /\ sessions' \subseteq sessions /\ tokens' \subseteq tokens
    BY <1>2 DEF Restart
  <2>2. TablesTyped' /\ RevocationComplete' /\ StaleOnlyIfRaced'
    BY <2>1, FewerKeep
  <2>3. DOMAIN workers' = Workers /\ \A v \in Workers : workers'[v] = Idle
    BY <1>2 DEF Restart
  <2>4. \A v \in Workers : JobOK(workers[v])'
    BY <2>3 DEF JobOK, Idle
  <2> QED
    BY <2>2, <2>3, <2>4 DEF IInv
<1> QED
  BY <1>1, <1>2

\* A registration inserts the account, unless somebody else has.
LEMMA RegisterKeeps ==
  ASSUME IInv, NEW w \in Workers, Register(w)
  PROVE  IInv'
<1>1. PICK job : job = workers[w]
  OBVIOUS
<1>2. /\ job.user \in Names /\ job.password \in Passwords
      /\ UNCHANGED <<now, sessions, tokens, issued, era>>
  BY <1>1 DEF Register, At, IInv, JobOK
<1>3. CASE job.user \in DOMAIN accounts
  <2>1. UNCHANGED accounts /\ Becomes(w, Idle)
    BY <1>1, <1>3 DEF Register
  <2>2. now' \in Nat
    BY <1>2 DEF IInv, TablesTyped
  <2> QED
    BY <1>2, <2>1, <2>2, IdleOK, JobKeeps DEF Becomes
<1>4. CASE job.user \notin DOMAIN accounts
  <2>1. PICK r : r = [enabled |-> TRUE, password |-> job.password]
    OBVIOUS
  <2>2. accounts' = With(accounts, job.user, r)
    BY <1>1, <1>4, <2>1 DEF Register
  <2>3. PICK j : j = [pc |-> "open", user |-> job.user, password |-> job.password,
                      read |-> era[job.user]]
    OBVIOUS
  <2>4. Becomes(w, j)
    BY <1>1, <1>4, <2>3 DEF Register
  <2>5. /\ DOMAIN accounts' = DOMAIN accounts \cup {job.user}
        /\ accounts' = [m \in DOMAIN accounts' |-> accounts'[m]]
        /\ accounts'[job.user] = r
        /\ \A m \in DOMAIN accounts : accounts'[m] = accounts[m]
    BY <1>4, <2>2, NewAccount
  <2>6. TablesTyped'
    <3>1. r \in [enabled: BOOLEAN, password: Passwords]
      BY <1>2, <2>1
    <3>2. \A m \in DOMAIN accounts : accounts[m] \in [enabled: BOOLEAN, password: Passwords]
      BY DEF IInv, TablesTyped
    <3>3. \A m \in DOMAIN accounts' : accounts'[m] \in [enabled: BOOLEAN, password: Passwords]
      BY <2>5, <3>1, <3>2
    <3>4. accounts' \in [DOMAIN accounts' -> [enabled: BOOLEAN, password: Passwords]]
      BY <2>5, <3>3
    <3>5. DOMAIN accounts' \subseteq Names /\ \A c \in Credentials' : c.user \in DOMAIN accounts'
      BY <1>2, <2>5 DEF IInv, TablesTyped, Credentials
    <3> QED
      BY <1>2, <3>4, <3>5 DEF IInv, TablesTyped, Credentials
  <2>7. RevocationComplete'
    BY <1>2 DEF IInv, RevocationComplete, Credentials
  <2>8. StaleOnlyIfRaced'
    BY <1>2, <2>5 DEF IInv, TablesTyped, StaleOnlyIfRaced, Credentials, Enabled
  <2>9. \A x : JobOK(x) => JobOK(x)'
    BY <1>2, <2>5 DEF JobOK, Fresh
  <2>10. JobOK(j)'
    <3>1. era'[job.user] \in Nat
      BY <1>2 DEF IInv, TablesTyped
    <3> QED
      BY <1>2, <2>1, <2>3, <2>5, <3>1 DEF JobOK, Fresh
  <2> QED
    BY <2>4, <2>6, <2>7, <2>8, <2>9, <2>10, TablesKeep DEF Becomes
<1> QED
  BY <1>3, <1>4

\* The account a handler is about, as it leaves it.
LEMMA NewRow ==
  ASSUME IInv, NEW n \in DOMAIN accounts, NEW a \in [enabled: BOOLEAN, password: Passwords],
         accounts' = [accounts EXCEPT ![n] = a]
  PROVE  /\ DOMAIN accounts' = DOMAIN accounts
         /\ accounts' \in [DOMAIN accounts' -> [enabled: BOOLEAN, password: Passwords]]
         /\ accounts'[n] = a
         /\ \A m \in DOMAIN accounts : m # n => accounts'[m] = accounts[m]
BY DEF IInv, TablesTyped

\* An account is enabled: what is out of date stays so, the rest was enabled.
LEMMA EnableKeeps ==
  ASSUME IInv, NEW w \in Workers, Enable(w)
  PROVE  IInv'
<1>1. PICK n : n = workers[w].about
  OBVIOUS
<1>2. /\ n \in DOMAIN accounts /\ Becomes(w, Idle)
      /\ UNCHANGED <<now, sessions, tokens, issued, era>>
  BY <1>1 DEF Enable, Handled, At, IInv, JobOK
<1>3. PICK a : a = [accounts[n] EXCEPT !.enabled = TRUE]
  OBVIOUS
<1>4. accounts[n] \in [enabled: BOOLEAN, password: Passwords]
  BY <1>2 DEF IInv, TablesTyped
<1>5. /\ a \in [enabled: BOOLEAN, password: Passwords]
      /\ a.enabled = TRUE /\ a.password = accounts[n].password
  BY <1>3, <1>4
<1>6. accounts' = [accounts EXCEPT ![n] = a]
  BY <1>1, <1>3 DEF Enable
<1>7. /\ DOMAIN accounts' = DOMAIN accounts
      /\ accounts' \in [DOMAIN accounts' -> [enabled: BOOLEAN, password: Passwords]]
      /\ accounts'[n] = a
      /\ \A m \in DOMAIN accounts : m # n => accounts'[m] = accounts[m]
  BY <1>2, <1>5, <1>6, NewRow
<1>8. /\ \A m \in DOMAIN accounts : accounts'[m].password = accounts[m].password
      /\ \A m \in DOMAIN accounts : accounts[m].enabled => accounts'[m].enabled
  BY <1>5, <1>7
<1>9. TablesTyped'
  BY <1>2, <1>7 DEF IInv, TablesTyped, Credentials
<1>10. RevocationComplete'
  BY <1>2 DEF IInv, RevocationComplete, Credentials
<1>11. StaleOnlyIfRaced'
  <2>1. \A c \in Credentials : c.user \in DOMAIN accounts
    BY DEF IInv, TablesTyped
  <2> QED
    BY <1>2, <1>7, <1>8, <2>1 DEF IInv, StaleOnlyIfRaced, Credentials, Enabled
<1>12. ASSUME NEW x, JobOK(x) PROVE JobOK(x)'
  BY <1>2, <1>7, <1>8, <1>12 DEF JobOK, Fresh
<1> QED
  BY <1>2, <1>9, <1>10, <1>11, <1>12, IdleOK, TablesKeep DEF Becomes

\* The session a password change is made from moves into the new era.
Moved(s, n, a) ==
  /\ s \in Session /\ s.user = n /\ s.read = era'[n] /\ s.era = era'[n]
  /\ s.password = a.password /\ a.enabled
  /\ \E o \in sessions : o.user = n /\ o.id = s.id

\* A revocation makes everything read before it out of date.
LEMMA RevocationKeeps ==
  ASSUME IInv, NEW w \in Workers, NEW n \in DOMAIN accounts,
         NEW a \in [enabled: BOOLEAN, password: Passwords],
         accounts' = [accounts EXCEPT ![n] = a], Revoked(n), Becomes(w, Idle),
         UNCHANGED <<now, issued>>,
         \A s \in sessions' : (s \in sessions /\ s.user # n) \/ Moved(s, n, a),
         \A s, x \in sessions' : s.id = x.id => s = x,
         \A t \in tokens' : t \in tokens /\ t.user # n
  PROVE  IInv'
<1>1. /\ DOMAIN accounts' = DOMAIN accounts
      /\ accounts' \in [DOMAIN accounts' -> [enabled: BOOLEAN, password: Passwords]]
      /\ accounts'[n] = a
      /\ \A m \in DOMAIN accounts : m # n => accounts'[m] = accounts[m]
  BY NewRow
<1>2. n \in Names /\ era \in [Names -> Nat]
  BY DEF IInv, TablesTyped
<1>3. /\ era' \in [Names -> Nat] /\ era'[n] = era[n] + 1
      /\ \A m \in Names : m # n => era'[m] = era[m]
  BY <1>2 DEF Revoked
<1>4. \A c \in Credentials' :
        /\ \E o \in Credentials : o.id = c.id /\ o.user = c.user
        /\ \/ c \in Credentials /\ c.user # n
           \/ /\ c.user = n /\ c.era = era'[n] /\ a.enabled
  BY DEF Credentials, Moved
<1>5. DOMAIN accounts \subseteq Names /\ \A c \in Credentials : c.user \in DOMAIN accounts
  BY DEF IInv, TablesTyped
<1>6. TablesTyped'
  <2>1. sessions' \subseteq Session /\ tokens' \subseteq Token
    BY DEF Moved, IInv, TablesTyped
  <2>2. \A c \in Credentials : c.id <= issued
    BY DEF IInv, TablesTyped
  <2>3. \A c \in Credentials' : c.id <= issued' /\ c.user \in DOMAIN accounts'
    BY <1>1, <1>4, <1>5, <2>2
  <2>4. issued' \in Nat /\ now' \in Nat
    BY DEF IInv, TablesTyped
  <2> QED
    BY <1>1, <1>3, <1>5, <2>1, <2>3, <2>4 DEF TablesTyped
<1>7. \A c \in Credentials : c.user \in Names
  BY <1>5
<1>8. RevocationComplete'
  BY <1>3, <1>4, <1>7 DEF IInv, RevocationComplete
<1>9. StaleOnlyIfRaced'
  <2>1. ASSUME NEW c \in Credentials', c.read = era'[c.user] PROVE Enabled(c.user)'
    <3>1. CASE c \in Credentials /\ c.user # n
      <4>1. c.read = era[c.user]
        BY <1>3, <1>7, <2>1, <3>1
      <4>2. Enabled(c.user)
        BY <3>1, <4>1 DEF IInv, StaleOnlyIfRaced
      <4> QED
        BY <1>1, <3>1, <4>2 DEF Enabled
    <3>2. CASE c.user = n /\ a.enabled
      BY <1>1, <3>2 DEF Enabled
    <3> QED
      BY <1>4, <2>1, <3>1, <3>2
  <2>2. ASSUME NEW s \in sessions', s.read = era'[s.user]
        PROVE  s.password = accounts'[s.user].password
    <3>1. CASE s \in sessions /\ s.user # n
      <4>1. s \in Credentials
        BY <3>1 DEF Credentials
      <4>2. s.user \in DOMAIN accounts /\ s.read = era[s.user]
        BY <1>3, <1>7, <2>2, <3>1, <4>1 DEF IInv, TablesTyped
      <4>3. s.password = accounts[s.user].password
        BY <3>1, <4>2 DEF IInv, StaleOnlyIfRaced
      <4> QED
        BY <1>1, <3>1, <4>2, <4>3
    <3>2. CASE s.user = n /\ s.password = a.password
      BY <1>1, <3>2
    <3> QED
      BY <2>2, <3>1, <3>2 DEF Moved
  <2> QED
    BY <2>1, <2>2 DEF StaleOnlyIfRaced
<1>10. ASSUME NEW x, JobOK(x) PROVE JobOK(x)'
  <2>1. ASSUME Fresh(x.user, x.read)
        PROVE  /\ Fresh(x.user, x.read)'
               /\ x.read = era'[x.user] =>
                    x.read = era[x.user] /\ accounts'[x.user] = accounts[x.user]
    <3>1. x.user \in Names /\ era[x.user] \in Nat /\ x.read \in Nat /\ x.read <= era[x.user]
      BY <2>1 DEF Fresh, IInv, TablesTyped
    <3>2. CASE x.user = n
      <4>1. x.read <= era'[n] /\ x.read # era'[n]
        <5>1. era'[n] = era[n] + 1 /\ era[n] \in Nat /\ x.read \in Nat /\ x.read <= era[n]
          BY <1>3, <3>1, <3>2
        <5> QED
          BY <5>1
      <4> QED
        BY <1>1, <3>1, <3>2, <4>1 DEF Fresh
    <3>3. CASE x.user # n
      BY <1>1, <1>3, <2>1, <3>1, <3>3 DEF Fresh
    <3> QED
      BY <3>2, <3>3
  <2>2. ASSUME x.pc \in {"password", "change"}
        PROVE  \A s \in sessions' : s.id = x.session => s.user = x.user /\ accounts'[x.user].enabled
    <3>1. \A s \in sessions : s.id = x.session => s.user = x.user /\ accounts[x.user].enabled
      BY <1>10, <2>2 DEF JobOK
    <3>2. x.user \in DOMAIN accounts
      BY <1>10, <2>2 DEF JobOK
    <3> QED
      BY <1>1, <3>1, <3>2 DEF Moved
  <2>3. /\ x.pc # "idle" => x.user \in Names
        /\ x.pc = "verify" =>
             /\ x.password \in Passwords
             /\ x.row # Absent => Fresh(x.user, x.read)
             /\ x.row # Absent => (x.read = era[x.user] => x.row = accounts[x.user].password)
        /\ x.pc = "open" => x.password \in Passwords /\ Fresh(x.user, x.read)
        /\ x.pc = "open" => (x.read = era[x.user] => x.password = accounts[x.user].password)
        /\ x.pc = "hash" => x.password \in Passwords
        /\ x.pc = "token" => Fresh(x.user, x.read)
        /\ x.pc \in {"password", "change"} =>
             x.user \in DOMAIN accounts' /\ x.session \in Nat /\ x.session <= issued'
        /\ x.pc = "change" => x.password \in Passwords
        /\ x.pc \in {"disable", "enable", "reset"} => x.about \in DOMAIN accounts'
    BY <1>1, <1>10 DEF JobOK
  <2> QED
    BY <2>1, <2>2, <2>3 DEF JobOK
<1> QED
  BY <1>6, <1>8, <1>9, <1>10, IdleOK, TablesKeep DEF Becomes

\* An administrator disables an account, or resets its password: no session
\* and no token of it is left.
LEMMA RevokeKeeps ==
  ASSUME IInv, NEW w \in Workers, Disable(w) \/ \E p \in Passwords : Reset(w, p)
  PROVE  IInv'
<1>1. PICK n : n = workers[w].about
  OBVIOUS
<1>2. Becomes(w, Idle) /\ UNCHANGED <<now, issued>>
  BY DEF Disable, Reset, Handled
<1>3. n \in DOMAIN accounts
  BY <1>1 DEF Disable, Reset, At, IInv, JobOK
<1>4. accounts[n] \in [enabled: BOOLEAN, password: Passwords]
  BY <1>3 DEF IInv, TablesTyped
<1>5. \A s, x \in sessions : s.id = x.id => s = x
  BY DEF IInv, TablesTyped
<1>6. ASSUME NEW a \in [enabled: BOOLEAN, password: Passwords],
             accounts' = [accounts EXCEPT ![n] = a], Revoked(n),
             sessions' = {s \in sessions : s.user # n}, tokens' = {t \in tokens : t.user # n}
      PROVE  IInv'
  <2>1. \A s \in sessions' : s \in sessions /\ s.user # n
    BY <1>6
  <2>2. \A t \in tokens' : t \in tokens /\ t.user # n
    BY <1>6
  <2> HIDE <1>6
  <2> QED
    BY <1>2, <1>3, <1>5, <1>6, <2>1, <2>2, RevocationKeeps
<1>7. CASE Disable(w)
  <2>1. CASE n = workers[w].user
    <3>1. UNCHANGED <<accounts, sessions, tokens, issued, era>>
      BY <1>1, <1>7, <2>1 DEF Disable
    <3>2. now' \in Nat
      BY <1>2 DEF IInv, TablesTyped
    <3> QED
      BY <1>2, <3>1, <3>2, IdleOK, JobKeeps DEF Becomes
  <2>2. CASE n # workers[w].user
    <3>1. PICK a : a = [accounts[n] EXCEPT !.enabled = FALSE]
      OBVIOUS
    <3>2. a \in [enabled: BOOLEAN, password: Passwords]
      BY <1>4, <3>1
    <3>3. /\ accounts' = [accounts EXCEPT ![n] = a] /\ Revoked(n)
          /\ sessions' = {s \in sessions : s.user # n} /\ tokens' = {t \in tokens : t.user # n}
      BY <1>1, <1>7, <2>2, <3>1 DEF Disable
    <3> QED
      BY <1>6, <3>2, <3>3
  <2> QED
    BY <2>1, <2>2
<1>8. ASSUME NEW p \in Passwords, Reset(w, p) PROVE IInv'
  <2>1. PICK a : a = [accounts[n] EXCEPT !.password = p]
    OBVIOUS
  <2>2. a \in [enabled: BOOLEAN, password: Passwords]
    BY <1>4, <2>1
  <2>3. /\ accounts' = [accounts EXCEPT ![n] = a] /\ Revoked(n)
        /\ sessions' = {s \in sessions : s.user # n} /\ tokens' = {t \in tokens : t.user # n}
    BY <1>1, <1>8, <2>1 DEF Reset
  <2> QED
    BY <1>6, <2>2, <2>3
<1> QED
  BY <1>7, <1>8

\* A user changes the password: one session may be left, and the account it
\* belongs to is enabled.
LEMMA ChangeKeeps ==
  ASSUME IInv, NEW w \in Workers, Change(w)
  PROVE  IInv'
<1>1. PICK job : job = workers[w]
  OBVIOUS
<1>2. PICK n : n = job.user
  OBVIOUS
<1>3. JobOK(job) /\ job.pc = "change" /\ Becomes(w, Idle) /\ UNCHANGED <<now, issued>>
  BY <1>1 DEF Change, Handled, At, IInv
<1>4. /\ n \in DOMAIN accounts /\ job.password \in Passwords
      /\ \A s \in sessions : s.id = job.session => accounts[n].enabled
  BY <1>2, <1>3 DEF JobOK
<1>5. accounts[n] \in [enabled: BOOLEAN, password: Passwords] /\ n \in Names /\ era[n] \in Nat
  BY <1>4 DEF IInv, TablesTyped
<1>6. PICK a : a = [accounts[n] EXCEPT !.password = job.password]
  OBVIOUS
<1>7. /\ a \in [enabled: BOOLEAN, password: Passwords]
      /\ a.password = job.password /\ a.enabled = accounts[n].enabled
  BY <1>4, <1>5, <1>6
<1>8. accounts' = [accounts EXCEPT ![n] = a] /\ Revoked(n) /\ tokens' = {t \in tokens : t.user # n}
  BY <1>1, <1>2, <1>6 DEF Change
<1>9. era'[n] = era[n] + 1
  <2>1. era \in [Names -> Nat]
    BY DEF IInv, TablesTyped
  <2> QED
    BY <1>5, <1>8, <2>1 DEF Revoked
<1>10. sessions' = {s \in sessions : s.user # n}
          \cup {[s EXCEPT !.read = era[n] + 1, !.era = era[n] + 1, !.password = job.password] :
                  s \in {x \in sessions : x.user = n /\ x.id = job.session}}
  BY <1>1, <1>2 DEF Change
<1>11. ASSUME NEW s \in sessions'
       PROVE  \/ s \in sessions /\ s.user # n
              \/ \E o \in sessions :
                   /\ o.user = n /\ o.id = job.session
                   /\ s = [o EXCEPT !.read = era[n] + 1, !.era = era[n] + 1, !.password = job.password]
  BY <1>10
<1>12. ASSUME NEW o \in sessions, NEW s, o.user = n, o.id = job.session,
              s = [o EXCEPT !.read = era[n] + 1, !.era = era[n] + 1, !.password = job.password]
       PROVE  Moved(s, n, a)
  <2>1. o \in Session
    BY DEF IInv, TablesTyped
  <2>2. s \in Session /\ s.user = n /\ s.id = o.id
    <3>1. PICK e \in Nat : e = era[n] + 1
      BY <1>5
    <3>2. /\ s = [o EXCEPT !.read = e, !.era = e, !.password = job.password]
          /\ job.password \in Passwords /\ o.user = n
      BY <1>4, <1>12, <3>1
    <3> QED
      BY <2>1, <3>2 DEF Session
  <2>3. s.read = era[n] + 1 /\ s.era = era[n] + 1 /\ s.password = job.password
    BY <1>12, <2>1 DEF Session
  <2>4. a.enabled
    BY <1>4, <1>7, <1>12
  <2> QED
    BY <1>7, <1>9, <1>12, <2>2, <2>3, <2>4 DEF Moved
<1>13. \A s \in sessions' : (s \in sessions /\ s.user # n) \/ Moved(s, n, a)
  BY <1>11, <1>12
<1>14. ASSUME NEW s \in sessions', NEW x \in sessions', s.id = x.id PROVE s = x
  <2>1. \A y, z \in sessions : y.id = z.id => y = z
    BY DEF IInv, TablesTyped
  <2>2. CASE s \in sessions /\ s.user # n
    BY <1>13, <1>14, <2>1, <2>2 DEF Moved
  <2>3. CASE x \in sessions /\ x.user # n
    BY <1>13, <1>14, <2>1, <2>3 DEF Moved
  <2>4. CASE ~(s \in sessions /\ s.user # n) /\ ~(x \in sessions /\ x.user # n)
    <3>1. PICK o \in sessions : o.id = job.session
                /\ s = [o EXCEPT !.read = era[n] + 1, !.era = era[n] + 1, !.password = job.password]
      BY <1>11, <2>4
    <3>2. PICK u \in sessions : u.id = job.session
                /\ x = [u EXCEPT !.read = era[n] + 1, !.era = era[n] + 1, !.password = job.password]
      BY <1>11, <2>4
    <3>3. o = u
      BY <2>1, <3>1, <3>2
    <3> QED
      BY <3>1, <3>2, <3>3
  <2> QED
    BY <2>2, <2>3, <2>4
<1>15. \A t \in tokens' : t \in tokens /\ t.user # n
  BY <1>8
<1> QED
  BY <1>3, <1>4, <1>7, <1>8, <1>13, <1>14, <1>15, RevocationKeeps
-----------------------------------------------------------------------------
(***************************************************************************)
(* The invariant and what follows from it.                                 *)
(***************************************************************************)

LEMMA InitKeeps == AccountsInit => IInv
<1> SUFFICES ASSUME AccountsInit PROVE IInv
  OBVIOUS
<1>1. Root \in Names /\ Seeded \in Passwords /\ Ttl \in Nat
  BY AccountsAssumption
<1>2. DOMAIN accounts = {Root} /\ accounts[Root] = [enabled |-> TRUE, password |-> Seeded]
  BY DEF AccountsInit
<1>3. accounts \in [DOMAIN accounts -> [enabled: BOOLEAN, password: Passwords]]
  BY <1>1 DEF AccountsInit
<1>4. PICK s : s = [id |-> 1, user |-> Root, expires |-> Ttl,
                    read |-> 0, era |-> 0, password |-> Seeded]
  OBVIOUS
<1>5. s \in Session
  BY <1>1, <1>4 DEF Session
<1>6. sessions = {s} /\ tokens = {} /\ Credentials = {s}
  BY <1>4 DEF AccountsInit, Credentials
<1>7. issued = 1 /\ now = 0 /\ era = [n \in Names |-> 0] /\ workers = [w \in Workers |-> Idle]
  BY DEF AccountsInit
<1>8. era \in [Names -> Nat] /\ era[Root] = 0
  BY <1>1, <1>7
<1>9. TablesTyped
  BY <1>1, <1>2, <1>3, <1>4, <1>5, <1>6, <1>7, <1>8 DEF TablesTyped
<1>10. RevocationComplete /\ StaleOnlyIfRaced
  BY <1>2, <1>4, <1>6, <1>8 DEF RevocationComplete, StaleOnlyIfRaced, Enabled
<1>11. \A w \in Workers : JobOK(workers[w])
  BY <1>7, IdleOK
<1> QED
  BY <1>7, <1>9, <1>10, <1>11 DEF IInv

LEMMA NextKeeps == IInv /\ [AccountsNext]_accountsVars => IInv'
<1> SUFFICES ASSUME IInv, [AccountsNext]_accountsVars PROVE IInv'
  OBVIOUS
<1>1. CASE UNCHANGED accountsVars
  BY <1>1, SameKeeps DEF accountsVars, tableVars, IInv, TablesTyped
<1>2. ASSUME NEW w \in Workers, NEW n \in Visitors, NEW p \in Passwords,
             LoginBegin(w, n, p) \/ RegisterBegin(w, n, p)
      PROVE  IInv'
  BY <1>2, LoginKeeps, RegisterBeginKeeps
<1>3. ASSUME NEW w \in Workers, LoginWrong(w) \/ LoginRight(w) PROVE IInv'
  BY <1>3, LoginKeeps
<1>4. ASSUME NEW w \in Workers, OpenSession(w) \/ Register(w) PROVE IInv'
  BY <1>4, OpenKeeps, RegisterKeeps
<1>5. ASSUME NEW w \in Workers, NEW s \in sessions, NEW r \in Requests,
             Accept(w, s, r.do, r.about)
      PROVE  IInv'
  BY <1>5, AcceptKeeps
<1>6. ASSUME NEW w \in Workers, Handler(w) PROVE IInv'
  BY <1>6, TokenKeeps, DeleteKeeps, ChangeKeeps, RevokeKeeps, EnableKeeps, VerifyKeeps
     DEF Handler
<1>7. CASE Tick \/ Restart \/ \E w \in Workers : Fail(w)
  BY <1>7, FailKeeps, DeleteKeeps
<1> QED
  BY <1>1, <1>2, <1>3, <1>4, <1>5, <1>6, <1>7 DEF AccountsNext

\* The invariant holds throughout.
THEOREM AccountsInvariance == AccountsSpec => []IInv
BY InitKeeps, NextKeeps, PTL DEF AccountsSpec

\* Whatever the workers race for, no row of the two tables dates from before
\* the last revocation of its user's account (service.c, token.c, http.c).
THEOREM RevocationHolds == AccountsSpec => []RevocationComplete
<1>1. IInv => RevocationComplete
  BY DEF IInv
<1> QED
  BY <1>1, AccountsInvariance, PTL

\* A credential of a disabled account, or a session under an old password,
\* comes from a request that had read the account before the revocation.
THEOREM StaleHolds == AccountsSpec => []StaleOnlyIfRaced
<1>1. IInv => StaleOnlyIfRaced
  BY DEF IInv
<1> QED
  BY <1>1, AccountsInvariance, PTL

\* The steps that write to the tables.
LEMMA Writers ==
  ASSUME AccountsNext
  PROVE  \/ UNCHANGED tableVars \/ Restart
         \/ \E w \in Workers :
               \/ OpenSession(w) \/ Register(w) \/ CreateToken(w) \/ Delete(w)
               \/ Change(w) \/ Disable(w) \/ Enable(w) \/ \E p \in Passwords : Reset(w, p)
<1>1. ASSUME NEW w \in Workers, NEW n \in Visitors, NEW p \in Passwords,
             LoginBegin(w, n, p) \/ RegisterBegin(w, n, p)
      PROVE  UNCHANGED tableVars
  BY <1>1 DEF LoginBegin, RegisterBegin, tableVars
<1>2. ASSUME NEW w \in Workers, LoginWrong(w) \/ LoginRight(w) \/ Fail(w)
      PROVE  UNCHANGED tableVars
  BY <1>2 DEF LoginWrong, LoginRight, Fail, tableVars
<1>3. ASSUME NEW w \in Workers, NEW s \in sessions, NEW r \in Requests,
             Accept(w, s, r.do, r.about)
      PROVE  UNCHANGED tableVars
  BY <1>3 DEF Accept, tableVars
<1>4. ASSUME NEW w \in Workers, NEW p \in Passwords, VerifyOld(w, p)
      PROVE  UNCHANGED tableVars
  BY <1>4 DEF VerifyOld, tableVars
<1>5. Tick => UNCHANGED tableVars
  BY DEF Tick, tableVars
<1> QED
  BY <1>1, <1>2, <1>3, <1>4, <1>5 DEF AccountsNext, Handler

\* Every step that changes the password of an account revokes it in the same
\* transaction; a registration never touches the account of another.
THEOREM PasswordHolds == AccountsSpec => PasswordChangeRevokes
<1> DEFINE Step == \A n \in DOMAIN accounts :
                     accounts'[n].password # accounts[n].password => era'[n] > era[n]
<1>1. ASSUME IInv, AccountsNext, NEW n \in DOMAIN accounts,
             accounts'[n].password # accounts[n].password
      PROVE  era'[n] > era[n]
  <2>1. n \in Names /\ era[n] \in Nat /\ era \in [Names -> Nat]
        /\ accounts[n] \in [enabled: BOOLEAN, password: Passwords]
        /\ accounts \in [DOMAIN accounts -> [enabled: BOOLEAN, password: Passwords]]
    BY <1>1 DEF IInv, TablesTyped
  <2>2. ASSUME NEW m, Revoked(m), NEW a, accounts' = [accounts EXCEPT ![m] = a] PROVE era'[n] > era[n]
    <3>1. m = n
      BY <1>1, <2>1, <2>2
    <3> QED
      BY <2>1, <2>2, <3>1 DEF Revoked
  <2>3. accounts' # accounts
    BY <1>1
  <2>4. ASSUME NEW w \in Workers, Register(w) PROVE FALSE
    <3>1. PICK u : u = workers[w].user
      OBVIOUS
    <3>2. PICK r : u \notin DOMAIN accounts /\ accounts' = With(accounts, u, r)
      BY <2>3, <2>4, <3>1 DEF Register
    <3> QED
      BY <1>1, <3>2, NewAccount
  <2>5. ASSUME NEW w \in Workers, Enable(w) PROVE FALSE
    <3>1. PICK u : u = workers[w].about
      OBVIOUS
    <3>2. accounts' = [accounts EXCEPT ![u].enabled = TRUE]
      BY <2>5, <3>1 DEF Enable
    <3> QED
      BY <1>1, <2>1, <3>2
  <2>6. ASSUME NEW w \in Workers, Change(w) PROVE era'[n] > era[n]
    <3>1. PICK u : u = workers[w].user
      OBVIOUS
    <3>2. PICK a : a = [accounts[u] EXCEPT !.password = workers[w].password]
      OBVIOUS
    <3>3. Revoked(u) /\ accounts' = [accounts EXCEPT ![u] = a]
      BY <2>6, <3>1, <3>2 DEF Change
    <3> QED
      BY <2>2, <3>3
  <2>7. ASSUME NEW w \in Workers, Disable(w) PROVE FALSE
    <3>1. PICK u : u = workers[w].about
      OBVIOUS
    <3>2. accounts' = [accounts EXCEPT ![u].enabled = FALSE]
      BY <2>3, <2>7, <3>1 DEF Disable
    <3> QED
      BY <1>1, <2>1, <3>2
  <2>8. ASSUME NEW w \in Workers, NEW p \in Passwords, Reset(w, p) PROVE era'[n] > era[n]
    <3>1. PICK u : u = workers[w].about
      OBVIOUS
    <3>2. PICK a : a = [accounts[u] EXCEPT !.password = p]
      OBVIOUS
    <3>3. Revoked(u) /\ accounts' = [accounts EXCEPT ![u] = a]
      BY <2>8, <3>1, <3>2 DEF Reset
    <3> QED
      BY <2>2, <3>3
  <2>9. \E w \in Workers : \/ Register(w) \/ Change(w) \/ Disable(w) \/ Enable(w)
                         \/ \E p \in Passwords : Reset(w, p)
    <3>1. accounts' = accounts \/ \E w \in Workers :
            \/ Register(w) \/ Change(w) \/ Disable(w) \/ Enable(w)
            \/ \E p \in Passwords : Reset(w, p)
      BY <1>1, Writers DEF OpenSession, CreateToken, Delete, Restart, tableVars
    <3> QED
      BY <2>3, <3>1
  <2> QED
    BY <2>4, <2>5, <2>6, <2>7, <2>8, <2>9
<1>2. IInv /\ [AccountsNext]_accountsVars => [Step]_accountsVars
  BY <1>1
<1> QED
  BY <1>2, AccountsInvariance, PTL DEF AccountsSpec, PasswordChangeRevokes
-----------------------------------------------------------------------------
(***************************************************************************)
(* The limits.                                                             *)
(***************************************************************************)
BucketKeys == Names \cup {"register"}
Guard == [fails: 0..(MaxFails - 1), until: Nat]
Bucket == [level: Nat, last: Nat]

LimitsTyped ==
  /\ IsFiniteSet(DOMAIN guards) /\ IsFiniteSet(DOMAIN buckets)
  /\ DOMAIN guards \subseteq Names /\ DOMAIN buckets \subseteq BucketKeys
  /\ guards \in [DOMAIN guards -> Guard] /\ buckets \in [DOMAIN buckets -> Bucket]
  /\ Cardinality(DOMAIN guards) + Cardinality(DOMAIN buckets) <= TableSize
  /\ misses \in [Names -> Nat] /\ granted \in [BucketKeys -> Nat]

\* The attempts on a name that have passed the gate.
Verifying(n) == {w \in Workers : workers[w].pc = "verify" /\ workers[w].user = n}

MissesOf(n) ==
  IF n \notin DOMAIN guards THEN misses[n] = 0
  ELSE IF guards[n].until > now
       THEN misses[n] + Cardinality(Verifying(n)) <= MaxFails + Cardinality(Workers) - 1
       ELSE misses[n] <= guards[n].fails
MissesCounted == \A n \in Names : MissesOf(n)

GrantsOf(k) ==
  IF k \notin DOMAIN buckets THEN granted[k] = 0
  ELSE /\ buckets[k].last <= now
       /\ granted[k] * Refill + buckets[k].level <= Burst * Refill + buckets[k].last
GrantsPaid == \A k \in BucketKeys : GrantsOf(k)

LInv == LimitsTyped /\ MissesCounted /\ GrantsPaid

\* A guard is written, unless the table is full.
LEMMA PutGuard ==
  ASSUME LimitsTyped, NEW n \in Names, NEW g \in Guard,
         guards' = Put(guards, n, g), UNCHANGED <<buckets, granted>>,
         misses' \in [Names -> Nat]
  PROVE  /\ LimitsTyped'
         /\ \A m \in Names \ {n} :
              /\ m \in DOMAIN guards' <=> m \in DOMAIN guards
              /\ m \in DOMAIN guards => guards'[m] = guards[m]
         /\ IF n \in DOMAIN guards' THEN guards'[n] = g ELSE n \notin DOMAIN guards
<1>1. CASE n \in DOMAIN guards \/ ~Full
  <2>1. guards' = With(guards, n, g)
    BY <1>1 DEF Put
  <2>2. /\ DOMAIN guards' = DOMAIN guards \cup {n} /\ IsFiniteSet(DOMAIN guards')
        /\ Cardinality(DOMAIN guards) \in Nat
        /\ Cardinality(DOMAIN guards') =
              IF n \in DOMAIN guards THEN Cardinality(DOMAIN guards)
              ELSE Cardinality(DOMAIN guards) + 1
        /\ guards'[n] = g
        /\ \A x \in DOMAIN guards \ {n} : guards'[x] = guards[x]
    <3>1. DOMAIN guards' = DOMAIN guards \cup {n} /\ IsFiniteSet(DOMAIN guards)
      BY <2>1 DEF With, LimitsTyped
    <3>2. guards'[n] = g /\ \A x \in DOMAIN guards \ {n} : guards'[x] = guards[x]
      BY <2>1 DEF With
    <3> QED
      BY <3>1, <3>2, FS_AddElement, FS_CardinalityType
  <2>3. guards' \in [DOMAIN guards' -> Guard]
    BY <2>1, <2>2 DEF LimitsTyped, With
  <2>4. Cardinality(DOMAIN buckets) \in Nat
    BY FS_CardinalityType DEF LimitsTyped
  <2>5. Cardinality(DOMAIN guards') + Cardinality(DOMAIN buckets) <= TableSize
    BY <1>1, <2>2, <2>4, LimitsAssumption DEF LimitsTyped, Full
  <2>6. LimitsTyped'
    BY <2>2, <2>3, <2>5 DEF LimitsTyped
  <2> QED
    BY <2>2, <2>6
<1>2. CASE ~(n \in DOMAIN guards \/ ~Full)
  <2>1. guards' = guards
    BY <1>2 DEF Put
  <2> QED
    BY <1>2, <2>1 DEF LimitsTyped
<1> QED
  BY <1>1, <1>2

\* So is a bucket.
LEMMA PutBucket ==
  ASSUME LimitsTyped, NEW k \in BucketKeys, NEW b \in Bucket,
         buckets' = Put(buckets, k, b), UNCHANGED <<guards, misses>>,
         granted' \in [BucketKeys -> Nat]
  PROVE  /\ LimitsTyped'
         /\ \A x \in BucketKeys \ {k} :
              /\ x \in DOMAIN buckets' <=> x \in DOMAIN buckets
              /\ x \in DOMAIN buckets => buckets'[x] = buckets[x]
         /\ IF k \in DOMAIN buckets' THEN buckets'[k] = b ELSE k \notin DOMAIN buckets
<1>1. CASE k \in DOMAIN buckets \/ ~Full
  <2>1. buckets' = With(buckets, k, b)
    BY <1>1 DEF Put
  <2>2. /\ DOMAIN buckets' = DOMAIN buckets \cup {k} /\ IsFiniteSet(DOMAIN buckets')
        /\ Cardinality(DOMAIN buckets) \in Nat
        /\ Cardinality(DOMAIN buckets') =
              IF k \in DOMAIN buckets THEN Cardinality(DOMAIN buckets)
              ELSE Cardinality(DOMAIN buckets) + 1
        /\ buckets'[k] = b
        /\ \A x \in DOMAIN buckets \ {k} : buckets'[x] = buckets[x]
    <3>1. DOMAIN buckets' = DOMAIN buckets \cup {k} /\ IsFiniteSet(DOMAIN buckets)
      BY <2>1 DEF With, LimitsTyped
    <3>2. buckets'[k] = b /\ \A x \in DOMAIN buckets \ {k} : buckets'[x] = buckets[x]
      BY <2>1 DEF With
    <3> QED
      BY <3>1, <3>2, FS_AddElement, FS_CardinalityType
  <2>3. buckets' \in [DOMAIN buckets' -> Bucket]
    BY <2>1, <2>2 DEF LimitsTyped, With
  <2>4. Cardinality(DOMAIN guards) \in Nat
    BY FS_CardinalityType DEF LimitsTyped
  <2>5. Cardinality(DOMAIN guards) + Cardinality(DOMAIN buckets') <= TableSize
    BY <1>1, <2>2, <2>4, LimitsAssumption DEF LimitsTyped, Full
  <2>6. LimitsTyped'
    BY <2>2, <2>3, <2>5 DEF LimitsTyped
  <2> QED
    BY <2>2, <2>6
<1>2. CASE ~(k \in DOMAIN buckets \/ ~Full)
  <2>1. buckets' = buckets
    BY <1>2 DEF Put
  <2> QED
    BY <1>2, <2>1 DEF LimitsTyped
<1> QED
  BY <1>1, <1>2

\* The attempts under way are no more than the workers.
LEMMA VerifyingBounded ==
  ASSUME NEW n
  PROVE  /\ IsFiniteSet(Verifying(n)) /\ Cardinality(Verifying(n)) \in Nat
         /\ Cardinality(Workers) \in Nat
         /\ Cardinality(Verifying(n)) <= Cardinality(Workers)
         /\ \A w \in Workers : w \notin Verifying(n) =>
               Cardinality(Verifying(n)) <= Cardinality(Workers) - 1
         /\ \A T \in SUBSET Verifying(n) :
               Cardinality(T) \in Nat /\ Cardinality(T) <= Cardinality(Verifying(n))
<1>1. Verifying(n) \subseteq Workers
  BY DEF Verifying
<1>2. /\ IsFiniteSet(Verifying(n)) /\ Cardinality(Verifying(n)) \in Nat
      /\ Cardinality(Workers) \in Nat
      /\ Cardinality(Verifying(n)) <= Cardinality(Workers)
  BY <1>1, WorkersAssumption, FS_Subset, FS_CardinalityType
<1>3. ASSUME NEW w \in Workers, w \notin Verifying(n)
      PROVE  Cardinality(Verifying(n)) <= Cardinality(Workers) - 1
  <2>1. /\ IsFiniteSet(Workers \ {w})
        /\ Cardinality(Workers \ {w}) = Cardinality(Workers) - 1
    BY WorkersAssumption, FS_RemoveElement
  <2>2. Verifying(n) \subseteq Workers \ {w}
    BY <1>1, <1>3
  <2> QED
    BY <2>1, <2>2, FS_Subset
<1>4. \A T \in SUBSET Verifying(n) :
         Cardinality(T) \in Nat /\ Cardinality(T) <= Cardinality(Verifying(n))
  BY <1>2, FS_Subset, FS_CardinalityType
<1> QED
  BY <1>2, <1>3, <1>4

\* A name whose guard stays, and on which no new attempt begins.
LEMMA MissesStay ==
  ASSUME LimitsTyped, NEW n \in Names, MissesOf(n), UNCHANGED now, misses'[n] = misses[n],
         n \in DOMAIN guards' <=> n \in DOMAIN guards,
         n \in DOMAIN guards => guards'[n] = guards[n],
         Verifying(n)' \subseteq Verifying(n)
  PROVE  MissesOf(n)'
<1>1. misses[n] \in Nat
  BY DEF LimitsTyped
<1>2. /\ Cardinality(Verifying(n)) \in Nat /\ Cardinality(Verifying(n)') \in Nat
      /\ Cardinality(Verifying(n)') <= Cardinality(Verifying(n))
      /\ Cardinality(Workers) \in Nat /\ MaxFails \in Nat
  BY VerifyingBounded, LimitsAssumption
<1> DEFINE V == Cardinality(Verifying(n))  V2 == Cardinality(Verifying(n)')
<1>3. V2 = Cardinality(Verifying(n))'
  OBVIOUS
<1> HIDE DEF V, V2
<1>4. V \in Nat /\ V2 \in Nat /\ V2 <= V
  BY <1>2 DEF V, V2
<1> QED
  BY <1>1, <1>2, <1>3, <1>4 DEF MissesOf, V, V2

\* A worker that takes up something else than an attempt.
LEMMA NoNewAttempt ==
  ASSUME DOMAIN workers = Workers, NEW w \in Workers, NEW j, j.pc # "verify",
         UNCHANGED workers \/ Becomes(w, j), NEW n
  PROVE  /\ Verifying(n)' \subseteq Verifying(n)
         /\ Becomes(w, j) => w \notin Verifying(n)'
BY DEF Verifying, Becomes

\* The steps that the guards and the buckets have nothing to do with.
LEMMA LimitsStay ==
  ASSUME LInv, UNCHANGED <<now, guards, buckets, misses, granted>>,
         \A n : Verifying(n)' \subseteq Verifying(n)
  PROVE  LInv'
<1>1. LimitsTyped'
  BY DEF LInv, LimitsTyped
<1>2. MissesCounted'
  BY MissesStay DEF LInv, MissesCounted
<1>3. GrantsPaid'
  BY DEF LInv, GrantsPaid, GrantsOf
<1> QED
  BY <1>1, <1>2, <1>3 DEF LInv

LEMMA NoGuard ==
  ASSUME LimitsTyped, NEW n \in Names
  PROVE  /\ GuardOf(n) \in Guard
         /\ n \in DOMAIN guards => GuardOf(n) = guards[n]
         /\ n \notin DOMAIN guards => GuardOf(n) = [fails |-> 0, until |-> 0]
BY LimitsAssumption DEF GuardOf, LimitsTyped, Guard

\* A login passes the gate only while its name is not locked.
LEMMA BeginCounts ==
  ASSUME IInv, LInv, NEW w \in Workers, NEW n \in Visitors, NEW p \in Passwords,
         LoginBegin(w, n, p)
  PROVE  LInv'
<1>1. n \in Names /\ LimitsTyped /\ GuardOf(n) \in Guard /\ now \in Nat
  BY AccountsAssumption, NoGuard DEF LInv, IInv, TablesTyped
<1>2. /\ GuardOf(n).until <= now /\ guards' = Put(guards, n, GuardOf(n))
      /\ UNCHANGED <<now, buckets, misses, granted>>
  BY DEF LoginBegin, LoginAllow, LoginGate
<1>3. /\ LimitsTyped'
      /\ \A m \in Names \ {n} :
           /\ m \in DOMAIN guards' <=> m \in DOMAIN guards
           /\ m \in DOMAIN guards => guards'[m] = guards[m]
      /\ IF n \in DOMAIN guards' THEN guards'[n] = GuardOf(n) ELSE n \notin DOMAIN guards
  BY <1>1, <1>2, PutGuard DEF LimitsTyped
<1>4. ASSUME NEW m \in Names \ {n} PROVE MissesOf(m)'
  <2>1. Verifying(m)' \subseteq Verifying(m)
    BY <1>4 DEF Verifying, LoginBegin, Becomes, IInv
  <2> QED
    BY <1>1, <1>2, <1>3, <1>4, <2>1, MissesStay DEF LInv, MissesCounted
<1>5. MissesOf(n)'
  <2>1. MissesOf(n)
    BY <1>1 DEF LInv, MissesCounted
  <2>2. n \notin DOMAIN guards => GuardOf(n).fails = 0
    BY <1>1, NoGuard
  <2> QED
    <3>1. GuardOf(n).until \in Nat /\ GuardOf(n).fails \in Nat
      BY <1>1 DEF Guard
    <3>2. misses[n] <= GuardOf(n).fails
      BY <1>1, <1>2, <2>1, <2>2, <3>1, NoGuard DEF MissesOf
    <3>3. n \notin DOMAIN guards' => misses[n] = 0
      BY <1>3, <2>1 DEF MissesOf
    <3>4. n \in DOMAIN guards' => ~(guards'[n].until > now') /\ misses'[n] <= guards'[n].fails
      BY <1>1, <1>2, <1>3, <3>1, <3>2
    <3>5. n \notin DOMAIN guards' => misses'[n] = 0
      BY <1>2, <3>3
    <3> QED
      BY <3>4, <3>5 DEF MissesOf
<1>6. GrantsPaid'
  BY <1>2 DEF LInv, GrantsPaid, GrantsOf
<1> QED
  BY <1>3, <1>4, <1>5, <1>6 DEF LInv, MissesCounted

\* An attempt that failed is one more miss, and one attempt less under way.
LEMMA WrongCounts ==
  ASSUME IInv, LInv, NEW w \in Workers, LoginWrong(w)
  PROVE  LInv'
<1>1. PICK n \in Names : n = workers[w].user /\ w \in Verifying(n)
  BY DEF LoginWrong, At, IInv, JobOK, Verifying
<1> DEFINE old == GuardOf(n)
           new == IF old.fails + 1 >= MaxFails THEN [fails |-> 0, until |-> now + Lockout]
                  ELSE [old EXCEPT !.fails = @ + 1]
<1>2. LimitsTyped /\ old \in Guard /\ now \in Nat
  BY NoGuard DEF LInv, IInv, TablesTyped
<1>3. /\ new \in Guard
      /\ IF old.fails + 1 >= MaxFails THEN new.until > now
         ELSE new.until = old.until /\ new.fails = old.fails + 1
  BY <1>2, LimitsAssumption DEF Guard
<1>4. /\ guards' = Put(guards, n, new)
      /\ UNCHANGED <<now, buckets, granted>> /\ Becomes(w, Idle)
      /\ misses' = [misses EXCEPT ![n] = IF n \in DOMAIN guards' THEN @ + 1 ELSE @]
  BY <1>1 DEF LoginWrong, RecordFail
<1>5. /\ misses' \in [Names -> Nat]
      /\ misses'[n] = IF n \in DOMAIN guards' THEN misses[n] + 1 ELSE misses[n]
      /\ \A m \in Names \ {n} : misses'[m] = misses[m]
  BY <1>2, <1>4 DEF LimitsTyped
<1> HIDE DEF new, old
<1>6. /\ LimitsTyped'
      /\ \A m \in Names \ {n} :
           /\ m \in DOMAIN guards' <=> m \in DOMAIN guards
           /\ m \in DOMAIN guards => guards'[m] = guards[m]
      /\ IF n \in DOMAIN guards' THEN guards'[n] = new ELSE n \notin DOMAIN guards
  BY <1>2, <1>3, <1>4, <1>5, PutGuard
<1>7. \A m : Verifying(m)' \subseteq Verifying(m) /\ w \notin Verifying(m)'
  BY <1>4, NoNewAttempt DEF IInv, Idle
<1>8. ASSUME NEW m \in Names \ {n} PROVE MissesOf(m)'
  BY <1>2, <1>4, <1>5, <1>6, <1>7, <1>8, MissesStay DEF LInv, MissesCounted
<1>9. MissesOf(n)'
  <2>1. MissesOf(n) /\ misses[n] \in Nat /\ MaxFails \in Nat
    BY <1>2, LimitsAssumption DEF LInv, MissesCounted, LimitsTyped
  <2>2. CASE n \notin DOMAIN guards'
    BY <1>5, <1>6, <2>1, <2>2 DEF MissesOf
  <2>3. CASE n \in DOMAIN guards'
    <3>1. guards'[n] = new /\ misses'[n] = misses[n] + 1
      BY <1>5, <1>6, <2>3
    <3>2. PICK V, V2 : V = Cardinality(Verifying(n)) /\ V2 = Cardinality(Verifying(n)')
      OBVIOUS
    <3>3. PICK W : W = Cardinality(Workers)
      OBVIOUS
    <3>4. /\ IsFiniteSet(Verifying(n)) /\ V \in Nat /\ W \in Nat /\ V <= W
      BY <3>2, <3>3, VerifyingBounded
    <3>5. V2 \in Nat /\ V2 <= V - 1
      <4>1. /\ IsFiniteSet(Verifying(n) \ {w})
            /\ Cardinality(Verifying(n) \ {w}) = V - 1
        BY <1>1, <3>2, <3>4, FS_RemoveElement
      <4>2. Verifying(n)' \subseteq Verifying(n) \ {w}
        BY <1>7
      <4> QED
        BY <3>2, <4>1, <4>2, FS_Subset, FS_CardinalityType
    <3>6. IF n \in DOMAIN guards /\ old.until > now
          THEN misses[n] + V <= MaxFails + W - 1
          ELSE misses[n] <= old.fails
      BY <1>2, <2>1, <3>2, <3>3, NoGuard DEF old, MissesOf
    <3>7. old.fails \in 0..(MaxFails - 1) /\ old.until \in Nat /\ new.until \in Nat
      BY <1>2, <1>3 DEF Guard
    <3>8. IF new.until > now THEN misses[n] + 1 + V2 <= MaxFails + W - 1
          ELSE misses[n] + 1 <= new.fails
      <4>1. CASE n \in DOMAIN guards /\ old.until > now
        BY <1>2, <1>3, <2>1, <3>4, <3>5, <3>6, <3>7, <4>1
      <4>2. CASE ~(n \in DOMAIN guards /\ old.until > now)
        <5>1. ~(old.until > now)
          BY <1>2, <4>2, NoGuard DEF old
        <5> QED
          BY <1>2, <1>3, <2>1, <3>4, <3>5, <3>6, <3>7, <4>2, <5>1
      <4> QED
        BY <4>1, <4>2
    <3> QED
      BY <1>4, <2>3, <3>1, <3>2, <3>3, <3>8 DEF MissesOf
  <2> QED
    BY <2>2, <2>3
<1>10. GrantsPaid'
  BY <1>4 DEF LInv, GrantsPaid, GrantsOf
<1> QED
  BY <1>6, <1>8, <1>9, <1>10 DEF LInv, MissesCounted

\* A success clears the guard, locked or not.
LEMMA RightCounts ==
  ASSUME IInv, LInv, NEW w \in Workers, LoginRight(w)
  PROVE  LInv'
<1>1. PICK n \in Names : n = workers[w].user
  BY DEF LoginRight, At, IInv, JobOK
<1>2. PICK g \in Guard : g = [fails |-> 0, until |-> 0]
  <2>1. 0 \in 0..(MaxFails - 1)
    BY LimitsAssumption
  <2>2. [fails |-> 0, until |-> 0] \in Guard
    BY <2>1 DEF Guard
  <2> QED
    BY <2>2
<1>3. /\ guards' = Put(guards, n, g)
      /\ UNCHANGED <<now, buckets, granted>>
      /\ misses' = [misses EXCEPT ![n] = 0]
  BY <1>1, <1>2 DEF LoginRight, RecordOk
<1>4. PICK j : Becomes(w, j) /\ j.pc # "verify"
  BY DEF LoginRight, Idle, Opening
<1>5. /\ misses' \in [Names -> Nat] /\ misses'[n] = 0
      /\ \A m \in Names \ {n} : misses'[m] = misses[m]
      /\ LimitsTyped /\ now \in Nat
  BY <1>3 DEF LInv, LimitsTyped, IInv, TablesTyped
<1>6. /\ LimitsTyped'
      /\ \A m \in Names \ {n} :
           /\ m \in DOMAIN guards' <=> m \in DOMAIN guards
           /\ m \in DOMAIN guards => guards'[m] = guards[m]
      /\ IF n \in DOMAIN guards' THEN guards'[n] = g ELSE n \notin DOMAIN guards
  BY <1>2, <1>3, <1>5, PutGuard
<1>7. \A m : Verifying(m)' \subseteq Verifying(m)
  BY <1>4, NoNewAttempt DEF IInv
<1>8. ASSUME NEW m \in Names \ {n} PROVE MissesOf(m)'
  BY <1>3, <1>5, <1>6, <1>7, <1>8, MissesStay DEF LInv, MissesCounted
<1>9. MissesOf(n)'
  BY <1>2, <1>3, <1>5, <1>6 DEF MissesOf
<1>10. GrantsPaid'
  BY <1>3 DEF LInv, GrantsPaid, GrantsOf
<1> QED
  BY <1>6, <1>8, <1>9, <1>10 DEF LInv, MissesCounted

\* When the lock ends, a new round begins.
LEMMA TickCounts ==
  ASSUME IInv, LInv, Tick
  PROVE  LInv'
<1>1. /\ now \in Nat /\ now' = now + 1 /\ UNCHANGED <<guards, buckets, granted, workers>>
      /\ misses' = [n \in Names |-> IF GuardOf(n).until = now' THEN 0 ELSE misses[n]]
  BY DEF Tick, limitVars, IInv, TablesTyped
<1>2. LimitsTyped /\ LimitsTyped'
  BY <1>1 DEF LInv, LimitsTyped
<1>3. ASSUME NEW n \in Names PROVE MissesOf(n)'
  <2>1. MissesOf(n) /\ GuardOf(n) \in Guard /\ GuardOf(n).until \in Nat
    BY <1>2, NoGuard DEF LInv, MissesCounted, Guard
  <2>2. misses'[n] = IF GuardOf(n).until = now' THEN 0 ELSE misses[n]
    BY <1>1
  <2>3. CASE n \notin DOMAIN guards
    BY <1>1, <2>1, <2>2, <2>3 DEF MissesOf
  <2>4. CASE n \in DOMAIN guards
    <3>1. GuardOf(n) = guards[n] /\ guards[n].fails \in Nat
      BY <1>2, <2>1, <2>4, NoGuard DEF Guard
    <3>2. Verifying(n)' = Verifying(n)
      BY <1>1 DEF Verifying
    <3> QED
      BY <1>1, <2>1, <2>2, <2>4, <3>1, <3>2 DEF MissesOf
  <2> QED
    BY <2>3, <2>4
<1>4. GrantsPaid'
  <2> SUFFICES ASSUME NEW k \in BucketKeys PROVE GrantsOf(k)'
    BY DEF GrantsPaid
  <2>1. GrantsOf(k)
    BY DEF LInv, GrantsPaid
  <2> QED
    BY <1>1, <1>2, <2>1 DEF GrantsOf, LimitsTyped, Bucket
<1> QED
  BY <1>2, <1>3, <1>4 DEF LInv, MissesCounted

\* A bucket that lets a request through has filled up for it, or is new.
LEMMA ConsumePays ==
  ASSUME IInv, LInv, NEW k \in BucketKeys, Consume(k, Burst, Refill),
         IF BucketAllow(k, Burst, Refill) THEN Granted(k) ELSE UNCHANGED granted,
         UNCHANGED <<now, misses>>, \A n : Verifying(n)' \subseteq Verifying(n)
  PROVE  LInv'
<1> DEFINE full == Filled(k, Burst, Refill)
           b == IF full.level >= Refill THEN [full EXCEPT !.level = @ - Refill] ELSE full
<1>1. /\ now \in Nat /\ LimitsTyped /\ GrantsOf(k) /\ granted[k] \in Nat
      /\ Burst \in Nat /\ Refill \in Nat
  BY AccountsAssumption DEF IInv, TablesTyped, LInv, GrantsPaid, LimitsTyped
<1>2. PICK cap : cap = Burst * Refill /\ cap \in Nat
  BY <1>1
<1>3. /\ full \in Bucket /\ full.last = now
      /\ IF k \notin DOMAIN buckets THEN full.level = cap
         ELSE full.level <= buckets[k].level + (now - buckets[k].last)
  BY <1>1, <1>2 DEF Filled, Least, GrantsOf, LimitsTyped, Bucket
<1>4. /\ b \in Bucket /\ b.last = now
      /\ b.level = IF full.level >= Refill THEN full.level - Refill ELSE full.level
  BY <1>1, <1>3 DEF Bucket
<1>5. buckets' = Put(buckets, k, b) /\ UNCHANGED guards
  BY DEF Consume
<1>6. BucketAllow(k, Burst, Refill) => full.level >= Refill \/ k \notin DOMAIN buckets'
  BY <1>5 DEF BucketAllow, Put
<1>7. full.level >= Refill => BucketAllow(k, Burst, Refill)
  BY DEF BucketAllow
<1> HIDE DEF full, b
<1>8. /\ granted' \in [BucketKeys -> Nat]
      /\ \A x \in BucketKeys \ {k} : granted'[x] = granted[x]
      /\ granted'[k] = IF full.level >= Refill /\ k \in DOMAIN buckets'
                       THEN granted[k] + 1 ELSE granted[k]
  <2>1. CASE full.level >= Refill /\ k \in DOMAIN buckets'
    BY <1>1, <1>7, <2>1 DEF Granted, LimitsTyped
  <2>2. CASE ~(full.level >= Refill /\ k \in DOMAIN buckets')
    <3>1. granted' = granted
      BY <1>6, <2>2 DEF Granted
    <3> QED
      BY <1>1, <2>2, <3>1 DEF LimitsTyped
  <2> QED
    BY <2>1, <2>2
<1>9. /\ LimitsTyped'
      /\ \A x \in BucketKeys \ {k} :
           /\ x \in DOMAIN buckets' <=> x \in DOMAIN buckets
           /\ x \in DOMAIN buckets => buckets'[x] = buckets[x]
      /\ IF k \in DOMAIN buckets' THEN buckets'[k] = b ELSE k \notin DOMAIN buckets
  BY <1>1, <1>4, <1>5, <1>8, PutBucket
<1>10. ASSUME NEW x \in BucketKeys \ {k} PROVE GrantsOf(x)'
  <2>1. GrantsOf(x)
    BY <1>10 DEF LInv, GrantsPaid
  <2> QED
    BY <1>8, <1>9, <1>10, <2>1 DEF GrantsOf
<1>11. GrantsOf(k)'
  <2>1. CASE k \notin DOMAIN buckets'
    BY <1>1, <1>8, <1>9, <2>1 DEF GrantsOf
  <2>2. CASE k \in DOMAIN buckets'
    <3>1. buckets'[k] = b
      BY <1>9, <2>2
    <3>2. PICK paid \in Nat : paid = granted[k] * Refill
      BY <1>1
    <3>3. PICK paid2 \in Nat : paid2 = granted'[k] * Refill
      BY <1>1, <1>8
    <3>4. (granted[k] + 1) * Refill = granted[k] * Refill + Refill
      BY <1>1
    <3>5. paid2 = IF full.level >= Refill THEN paid + Refill ELSE paid
      BY <1>8, <2>2, <3>2, <3>3, <3>4
    <3>6. /\ full.level \in Nat /\ b.level \in Nat
      BY <1>3, <1>4 DEF Bucket
    <3>7. paid + full.level <= cap + now
      <4>1. CASE k \notin DOMAIN buckets
        <5>1. paid = 0
          BY <1>1, <3>2, <4>1 DEF GrantsOf
        <5> QED
          BY <1>1, <1>2, <1>3, <4>1, <5>1
      <4>2. CASE k \in DOMAIN buckets
        <5>1. buckets[k].last \in Nat /\ buckets[k].level \in Nat
          BY <1>1, <4>2 DEF LimitsTyped, Bucket
        <5>2. paid + buckets[k].level <= cap + buckets[k].last
          BY <1>1, <1>2, <3>2, <4>2 DEF GrantsOf
        <5> QED
          BY <1>1, <1>2, <1>3, <3>6, <4>2, <5>1, <5>2
      <4> QED
        BY <4>1, <4>2
    <3>8. paid2 + b.level <= cap + now
      BY <1>1, <1>2, <1>4, <3>5, <3>6, <3>7
    <3>9. granted'[k] * Refill + buckets'[k].level <= Burst * Refill + buckets'[k].last
      BY <1>2, <1>4, <3>1, <3>3, <3>8
    <3>10. buckets'[k].last <= now'
      BY <1>1, <1>4, <3>1
    <3> QED
      BY <2>2, <3>9, <3>10, Zenon DEF GrantsOf
  <2> QED
    BY <2>1, <2>2
<1>12. GrantsPaid'
  BY <1>10, <1>11 DEF GrantsPaid
<1>13. MissesCounted'
  BY <1>1, <1>5, MissesStay DEF LInv, MissesCounted
<1> QED
  BY <1>9, <1>12, <1>13 DEF LInv

\* A restart empties the table, and the counts begin anew.
LEMMA RestartCounts ==
  ASSUME LInv, Restart
  PROVE  LInv'
<1>1. /\ guards' = <<>> /\ buckets' = <<>>
      /\ misses' = [n \in Names |-> 0] /\ granted' = [k \in BucketKeys |-> 0]
  BY DEF Restart, LInv, LimitsTyped
<1>2. DOMAIN guards' = {} /\ DOMAIN buckets' = {}
  BY <1>1
<1>3. guards' \in [DOMAIN guards' -> Guard] /\ buckets' \in [DOMAIN buckets' -> Bucket]
  BY <1>1, <1>2
<1>4. LimitsTyped'
  BY <1>1, <1>2, <1>3, FS_EmptySet, LimitsAssumption DEF LimitsTyped
<1> QED
  BY <1>1, <1>2, <1>4 DEF LInv, MissesCounted, MissesOf, GrantsPaid, GrantsOf

LEMMA LimitsInit == AccountsInit => LInv
<1> SUFFICES ASSUME AccountsInit PROVE LInv
  OBVIOUS
<1>1. /\ guards = <<>> /\ buckets = <<>>
      /\ misses = [n \in Names |-> 0] /\ granted = [k \in BucketKeys |-> 0]
  BY DEF AccountsInit, LimitInit, BucketKeys
<1>2. DOMAIN guards = {} /\ DOMAIN buckets = {}
  BY <1>1
<1>3. guards \in [DOMAIN guards -> Guard] /\ buckets \in [DOMAIN buckets -> Bucket]
  BY <1>1, <1>2
<1>4. LimitsTyped
  BY <1>1, <1>2, <1>3, FS_EmptySet, LimitsAssumption DEF LimitsTyped
<1> QED
  BY <1>1, <1>2, <1>4 DEF LInv, MissesCounted, MissesOf, GrantsPaid, GrantsOf

\* Every step keeps the limits' invariant.
LEMMA LimitsNext ==
  ASSUME IInv, LInv, [AccountsNext]_accountsVars
  PROVE  LInv'
<1>1. CASE UNCHANGED accountsVars
  BY <1>1, LimitsStay DEF accountsVars, limitVars, Verifying
<1>2. ASSUME NEW w \in Workers, NEW n \in Visitors, NEW p \in Passwords, LoginBegin(w, n, p)
      PROVE  LInv'
  BY <1>2, BeginCounts
<1>3. ASSUME NEW w \in Workers, LoginWrong(w) \/ LoginRight(w) PROVE LInv'
  BY <1>3, WrongCounts, RightCounts
<1>4. ASSUME NEW w \in Workers, NEW n \in Visitors, NEW p \in Passwords, RegisterBegin(w, n, p)
      PROVE  LInv'
  <2>1. PICK j : j = [pc |-> "hash", user |-> n, password |-> p]
    OBVIOUS
  <2>2. j.pc # "verify" /\ (UNCHANGED workers \/ Becomes(w, j))
    BY <1>4, <2>1 DEF RegisterBegin
  <2>3. \A m : Verifying(m)' \subseteq Verifying(m)
    BY <2>2, NoNewAttempt DEF IInv
  <2>4. /\ Consume("register", Burst, Refill) /\ UNCHANGED <<now, misses>>
        /\ IF BucketAllow("register", Burst, Refill)
           THEN Granted("register") ELSE UNCHANGED granted
    BY <1>4 DEF RegisterBegin
  <2>5. "register" \in BucketKeys
    BY DEF BucketKeys
  <2> QED
    BY <2>3, <2>4, <2>5, ConsumePays
<1>5. ASSUME NEW w \in Workers, NEW s \in sessions, NEW r \in Requests,
             Accept(w, s, r.do, r.about)
      PROVE  LInv'
  <2>1. PICK j : j = [pc |-> r.do, user |-> s.user, session |-> s.id,
                      about |-> r.about, read |-> era[s.user]]
    OBVIOUS
  <2>2. j.pc # "verify" /\ (UNCHANGED workers \/ Becomes(w, j))
    BY <1>5, <2>1, RequestsAssumption DEF Accept, Doings
  <2>3. \A m : Verifying(m)' \subseteq Verifying(m)
    BY <2>2, NoNewAttempt DEF IInv
  <2>4. /\ Consume(s.user, Burst, Refill) /\ UNCHANGED <<now, misses>>
        /\ IF BucketAllow(s.user, Burst, Refill)
           THEN Granted(s.user) ELSE UNCHANGED granted
    BY <1>5 DEF Accept
  <2>5. s.user \in BucketKeys
    BY DEF BucketKeys, IInv, TablesTyped, Session
  <2> QED
    BY <2>3, <2>4, <2>5, ConsumePays
<1>6. ASSUME NEW w \in Workers,
             OpenSession(w) \/ Register(w) \/ Handler(w) \/ Fail(w)
      PROVE  LInv'
  <2>1. UNCHANGED <<now, guards, buckets, misses, granted>>
    BY <1>6 DEF OpenSession, Register, Handler, Fail, CreateToken, Delete, Change, Disable,
                Enable, VerifyOld, Reset, Handled, limitVars
  <2>2. \E j : j.pc # "verify" /\ Becomes(w, j)
    BY <1>6 DEF OpenSession, Register, Handler, Fail, CreateToken, Delete, Change, Disable,
                Enable, VerifyOld, Reset, Handled, Idle
  <2>3. \A m : Verifying(m)' \subseteq Verifying(m)
    BY <2>2, NoNewAttempt DEF IInv
  <2> QED
    BY <2>1, <2>3, LimitsStay
<1>7. CASE Tick \/ Restart
  BY <1>7, TickCounts, RestartCounts
<1> QED
  BY <1>1, <1>2, <1>3, <1>4, <1>5, <1>6, <1>7 DEF AccountsNext

\* Guards, buckets and their histories agree in every reachable state.
THEOREM LimitsInvariance == AccountsSpec => []LInv
BY AccountsInvariance, LimitsInit, LimitsNext, PTL DEF AccountsSpec

\* A name is locked in time: the attempts that were being verified when the
\* lock fell are all that a round can see beyond the limit, one for each
\* other worker (ratelimit.c).
THEOREM MissesAreBounded == AccountsSpec => []MissesBounded
<1>1. IInv /\ LInv => MissesBounded
  <2> SUFFICES ASSUME IInv, LInv, NEW n \in DOMAIN guards
               PROVE  misses[n] < MaxFails + Cardinality(Workers)
    BY DEF MissesBounded
  <2>1. /\ n \in Names /\ MissesOf(n) /\ misses[n] \in Nat
        /\ guards[n] \in Guard
    BY DEF LInv, LimitsTyped, MissesCounted
  <2>2. /\ Cardinality(Verifying(n)) \in Nat /\ Cardinality(Workers) \in Nat
        /\ MaxFails \in Nat
    BY VerifyingBounded, LimitsAssumption
  <2>3. guards[n].fails \in 0..(MaxFails - 1)
    BY <2>1 DEF Guard
  <2> QED
    BY <2>1, <2>2, <2>3 DEF MissesOf
<1> QED
  BY <1>1, AccountsInvariance, LimitsInvariance, PTL

\* A bucket lets no more through than its burst and one for each period that
\* has passed, however the requests are spaced.
THEOREM BurstsAreBounded == AccountsSpec => []BurstsBounded
<1>1. IInv /\ LInv => BurstsBounded
  <2> SUFFICES ASSUME IInv, LInv, NEW k \in DOMAIN buckets
               PROVE  granted[k] * Refill <= Burst * Refill + now
    BY DEF BurstsBounded
  <2>1. /\ k \in BucketKeys /\ GrantsOf(k) /\ granted[k] \in Nat
        /\ buckets[k].level \in Nat /\ buckets[k].last \in Nat /\ now \in Nat
        /\ Burst \in Nat /\ Refill \in Nat
    BY AccountsAssumption DEF IInv, TablesTyped, LInv, LimitsTyped, GrantsPaid, Bucket
  <2>2. PICK paid \in Nat : paid = granted[k] * Refill
    BY <2>1
  <2>3. PICK cap \in Nat : cap = Burst * Refill
    BY <2>1
  <2>4. paid + buckets[k].level <= cap + buckets[k].last /\ buckets[k].last <= now
    BY <2>1, <2>2, <2>3 DEF GrantsOf
  <2>5. paid <= cap + now
    BY <2>1, <2>4
  <2> QED
    BY <2>2, <2>3, <2>5
<1> QED
  BY <1>1, AccountsInvariance, LimitsInvariance, PTL
-----------------------------------------------------------------------------
(***************************************************************************)
(* The ids of the two tables.                                              *)
(***************************************************************************)
IdsDistinct ==
  \A c \in Credentials :
     /\ c.id >= 1 /\ c.read <= c.era
     /\ \A x \in Credentials : x.id = c.id => x = c

LEMMA FewerIds ==
  ASSUME IdsDistinct, Credentials' \subseteq Credentials
  PROVE  IdsDistinct'
BY DEF IdsDistinct

\* A row with the next id.
LEMMA NextId ==
  ASSUME IInv, IdsDistinct, NEW c, c.id = issued + 1, c.read <= c.era,
         Credentials' \subseteq Credentials \cup {c}
  PROVE  IdsDistinct'
<1>1. issued \in Nat /\ \A x \in Credentials : x.id \in Nat /\ x.id <= issued
  BY DEF IInv, TablesTyped, Credentials, Session, Token
<1> QED
  BY <1>1 DEF IdsDistinct

\* The session that a change of password was made from keeps its id.
LEMMA SameIds ==
  ASSUME IInv, IdsDistinct, NEW w \in Workers, Change(w)
  PROVE  IdsDistinct'
<1>1. PICK job, n : job = workers[w] /\ n = job.user
  OBVIOUS
<1>2. n \in Names /\ era[n] \in Nat
  BY <1>1 DEF Change, At, IInv, JobOK, TablesTyped
<1>3. /\ tokens' = {t \in tokens : t.user # n}
      /\ sessions' = {s \in sessions : s.user # n}
            \cup {[s EXCEPT !.read = era[n] + 1, !.era = era[n] + 1, !.password = job.password] :
                    s \in {x \in sessions : x.user = n /\ x.id = job.session}}
  BY <1>1 DEF Change
<1>4. ASSUME NEW c \in Credentials'
      PROVE  /\ c.id >= 1 /\ c.read <= c.era
             /\ \E y \in Credentials :
                   /\ y.id = c.id
                   /\ \/ c = y /\ c.user # n
                      \/ /\ y \in sessions /\ y.user = n /\ y.id = job.session
                         /\ c = [y EXCEPT !.read = era[n] + 1, !.era = era[n] + 1,
                                          !.password = job.password]
  <2>1. CASE c \in Credentials /\ c.user # n
    BY <2>1 DEF IdsDistinct
  <2>2. CASE \E y \in sessions :
                /\ y.user = n /\ y.id = job.session
                /\ c = [y EXCEPT !.read = era[n] + 1, !.era = era[n] + 1,
                                 !.password = job.password]
    <3>1. PICK y \in sessions :
             /\ y.user = n /\ y.id = job.session
             /\ c = [y EXCEPT !.read = era[n] + 1, !.era = era[n] + 1,
                              !.password = job.password]
      BY <2>2
    <3>2. y \in Session /\ y \in Credentials
      BY DEF IInv, TablesTyped, Credentials
    <3>3. c.id = y.id /\ c.read = era[n] + 1 /\ c.era = era[n] + 1
      BY <3>1, <3>2 DEF Session
    <3>4. c.id >= 1 /\ c.read <= c.era
      BY <1>2, <3>2, <3>3 DEF IdsDistinct
    <3>5. y.id = c.id
      BY <3>3
    <3> QED
      BY <3>1, <3>2, <3>4, <3>5, Zenon
  <2> QED
    BY <1>3, <1>4, <2>1, <2>2 DEF Credentials
<1>5. ASSUME NEW c \in Credentials', NEW x \in Credentials', x.id = c.id PROVE x = c
  <2>1. PICK y \in Credentials :
           /\ y.id = c.id
           /\ \/ c = y /\ c.user # n
              \/ /\ y \in sessions /\ y.user = n /\ y.id = job.session
                 /\ c = [y EXCEPT !.read = era[n] + 1, !.era = era[n] + 1,
                                  !.password = job.password]
    BY <1>4
  <2>2. PICK z \in Credentials :
           /\ z.id = x.id
           /\ \/ x = z /\ x.user # n
              \/ /\ z \in sessions /\ z.user = n /\ z.id = job.session
                 /\ x = [z EXCEPT !.read = era[n] + 1, !.era = era[n] + 1,
                                  !.password = job.password]
    BY <1>4
  <2>3. y = z
    BY <1>5, <2>1, <2>2 DEF IdsDistinct
  <2> QED
    BY <2>1, <2>2, <2>3
<1> QED
  BY <1>4, <1>5 DEF IdsDistinct

LEMMA IdsNext ==
  ASSUME IInv, IdsDistinct, [AccountsNext]_accountsVars
  PROVE  IdsDistinct'
<1>1. CASE UNCHANGED <<sessions, tokens>>
  BY <1>1, FewerIds DEF Credentials
<1>2. ASSUME NEW w \in Workers, OpenSession(w) PROVE IdsDistinct'
  <2>1. PICK job : job = workers[w] /\ JobOK(job) /\ job.pc = "open"
    BY <1>2 DEF OpenSession, At, IInv
  <2>2. PICK c : c = [id |-> issued + 1, user |-> job.user, expires |-> now + Ttl,
                      read |-> job.read, era |-> era[job.user], password |-> job.password]
    OBVIOUS
  <2>3. Credentials' \subseteq Credentials \cup {c}
    BY <1>2, <2>1, <2>2 DEF OpenSession, Credentials
  <2>4. c.id = issued + 1 /\ c.read <= c.era
    BY <2>1, <2>2 DEF JobOK, Fresh
  <2> QED
    BY <2>3, <2>4, NextId
<1>3. ASSUME NEW w \in Workers, CreateToken(w) PROVE IdsDistinct'
  <2>1. PICK job : job = workers[w] /\ JobOK(job) /\ job.pc = "token"
    BY <1>3 DEF CreateToken, At, IInv
  <2>2. PICK c : c = [id |-> issued + 1, user |-> job.user,
                      read |-> job.read, era |-> era[job.user]]
    OBVIOUS
  <2>3. Credentials' \subseteq Credentials \cup {c}
    BY <1>3, <2>1, <2>2 DEF CreateToken, Credentials
  <2>4. c.id = issued + 1 /\ c.read <= c.era
    BY <2>1, <2>2 DEF JobOK, Fresh
  <2> QED
    BY <2>3, <2>4, NextId
<1>4. ASSUME NEW w \in Workers, Change(w) PROVE IdsDistinct'
  BY <1>4, SameIds
<1>5. CASE Restart \/ \E w \in Workers :
                        Delete(w) \/ Disable(w) \/ \E p \in Passwords : Reset(w, p)
  <2>1. Credentials' \subseteq Credentials
    BY <1>5 DEF Restart, Delete, Disable, Reset, Credentials
  <2> QED
    BY <2>1, FewerIds
<1> QED
  <2>1. CASE AccountsNext
    <3>1. UNCHANGED tableVars => UNCHANGED <<sessions, tokens>>
      BY DEF tableVars
    <3>2. \A w \in Workers : Register(w) \/ Enable(w) => UNCHANGED <<sessions, tokens>>
      BY DEF Register, Enable
    <3> QED
      BY <1>1, <1>2, <1>3, <1>4, <1>5, <2>1, <3>1, <3>2, Writers
  <2>2. CASE UNCHANGED accountsVars
    BY <1>1, <2>2 DEF accountsVars, tableVars
  <2> QED
    BY <2>1, <2>2

LEMMA IdsInit == AccountsInit => IdsDistinct
BY DEF AccountsInit, Credentials, IdsDistinct

\* Sessions and tokens share their ids, every row belongs to a registered
\* user, and the table of limits never outgrows its size.
THEOREM AccountsTyped == AccountsSpec => []AccountsTypeOK
<1>1. AccountsSpec => []IdsDistinct
  BY AccountsInvariance, IdsInit, IdsNext, PTL DEF AccountsSpec
<1>2. IInv /\ LInv /\ IdsDistinct => AccountsTypeOK
  <2> SUFFICES ASSUME IInv, LInv, IdsDistinct PROVE AccountsTypeOK
    OBVIOUS
  <2>1. /\ DOMAIN accounts \subseteq Names
        /\ \A n \in DOMAIN accounts : accounts[n] \in [enabled: BOOLEAN, password: Passwords]
    BY DEF IInv, TablesTyped
  <2>2. ASSUME NEW c \in Credentials
        PROVE  /\ c.id \in 1..issued /\ c.user \in DOMAIN accounts
               /\ c.read <= c.era /\ c.era <= era[c.user]
               /\ \A x \in Credentials : x.id = c.id => x = c
    <3>1. c.id \in Nat /\ c.id <= issued /\ issued \in Nat /\ c.user \in DOMAIN accounts
      BY DEF IInv, TablesTyped, Session, Token, Credentials
    <3>2. c.era = era[c.user] /\ era[c.user] \in Nat
      BY <2>1, <3>1 DEF IInv, TablesTyped, RevocationComplete
    <3> QED
      BY <3>1, <3>2 DEF IdsDistinct
  <2>3. /\ Cardinality(DOMAIN guards) + Cardinality(DOMAIN buckets) <= TableSize
        /\ \A n \in DOMAIN guards : guards[n].fails \in 0..(MaxFails - 1)
        /\ \A k \in DOMAIN buckets : buckets[k].level >= 0
    BY DEF LInv, LimitsTyped, Guard, Bucket
  <2> QED
    BY <2>1, <2>2, <2>3 DEF AccountsTypeOK
<1> QED
  BY <1>1, <1>2, AccountsInvariance, LimitsInvariance, PTL
=============================================================================
