---------------------------- MODULE Accounts ----------------------------
(***************************************************************************)
(* Accounts, sessions and API tokens.  A worker serves a request in steps: *)
(* it reads the account, spends a long time on the password hash, and      *)
(* writes; only the writes of one step are a transaction.  Between two     *)
(* steps other workers disable the account or change its password.         *)
(*                                                                         *)
(* era counts the revocations of an account (password changes, resets,     *)
(* disablings).  A session or token remembers the era it was inserted in   *)
(* (era), and the one in which its request had read the account (read):    *)
(* history for the properties, nothing the code stores.                    *)
(***************************************************************************)
EXTENDS RateLimit

CONSTANTS
  Names, Root,               \* user names; the administrator of db_seed
  Passwords, Seeded, Absent, \* the passwords, the one of db_seed, and none
  Workers,
  Burst, Refill,             \* 30 and 1 for writes, 20 and 30 for registrations
  Ttl,                       \* 7200 in the code
  Visitors,                  \* names that somebody logs in with or registers
  Requests,                  \* what the sessions of whom ask for; both bound the model
  MaxTime, MaxIds, MaxEra    \* bounds of the model

ASSUME AccountsAssumption ==
  /\ Root \in Names /\ Visitors \subseteq Names /\ Seeded \in Passwords /\ Absent \notin Passwords
  /\ {Burst, Refill, Ttl} \subseteq Nat \ {0}
Doings == {"token", "delete", "password", "disable", "enable", "reset"}
ASSUME WorkersAssumption == IsFiniteSet(Workers)
ASSUME RequestsAssumption == \A r \in Requests : r.do \in Doings

VARIABLES
  accounts,  \* name -> [enabled, password], for the names registered
  sessions,  \* the table: [id, user, expires, read, era, password]
  tokens,    \* the table: [id, user, read, era]
  workers,   \* worker -> the request it serves
  issued,    \* ids given out
  era,       \* history: name -> revocations
  misses,    \* history: name -> wrong passwords its guard saw since the lock ended
  granted    \* history: registrations the bucket has let through

tableVars == <<accounts, sessions, tokens, issued, era>>
accountsVars == <<now, limitVars, tableVars, workers, misses, granted>>

Idle == [pc |-> "idle"]
Enabled(n) == n \in DOMAIN accounts /\ accounts[n].enabled
Credentials == sessions \cup tokens

\* After db_seed and the administrator's first login.
AccountsInit ==
  /\ now = 0 /\ LimitInit
  /\ accounts = [n \in {Root} |-> [enabled |-> TRUE, password |-> Seeded]]
  /\ sessions = {[id |-> 1, user |-> Root, expires |-> Ttl,
                  read |-> 0, era |-> 0, password |-> Seeded]}
  /\ tokens = {} /\ issued = 1
  /\ workers = [w \in Workers |-> Idle]
  /\ era = [n \in Names |-> 0]
  /\ misses = [n \in Names |-> 0] /\ granted = [k \in Names \cup {"register"} |-> 0]

\* One more of those the bucket has let through.
Granted(key) ==
  granted' = IF key \in DOMAIN buckets' THEN [granted EXCEPT ![key] = @ + 1] ELSE granted

Becomes(w, job) == workers' = [workers EXCEPT ![w] = job]
At(w, pc) == workers[w].pc = pc
-----------------------------------------------------------------------------
(***************************************************************************)
(* Login.  The gate and the SELECT come first, then the verification.      *)
(***************************************************************************)
LoginBeginBlind(w, n, p) == \* mutant
  /\ At(w, "idle") /\ LoginAllow(n) /\ LoginGate(n)
  /\ Becomes(w, [pc |-> "verify", user |-> n, password |-> p, read |-> era[n],
                 row |-> IF n \in DOMAIN accounts THEN accounts[n].password ELSE Absent])
  /\ UNCHANGED <<now, tableVars, misses, granted>>
LoginBegin(w, n, p) ==
  /\ At(w, "idle") /\ LoginAllow(n) /\ LoginGate(n)
  /\ Becomes(w, [pc |-> "verify", user |-> n, password |-> p, read |-> era[n],
                 row |-> IF Enabled(n) THEN accounts[n].password ELSE Absent])
  /\ UNCHANGED <<now, tableVars, misses, granted>>

Opening(job) ==
  [pc |-> "open", user |-> job.user, password |-> job.password, read |-> job.read]

LoginWrong(w) ==
  /\ At(w, "verify") /\ workers[w].row # workers[w].password
  /\ RecordFail(workers[w].user)
  /\ misses' = [misses EXCEPT ![workers[w].user] = IF workers[w].user \in DOMAIN guards' THEN @ + 1 ELSE @]
  /\ Becomes(w, Idle)
  /\ UNCHANGED <<now, tableVars, granted>>

\* The administrator's entrance sends a user away, after the guard was cleared.
LoginRight(w) ==
  /\ At(w, "verify") /\ workers[w].row = workers[w].password
  /\ RecordOk(workers[w].user)
  /\ misses' = [misses EXCEPT ![workers[w].user] = 0]
  /\ \/ Becomes(w, Opening(workers[w]))
     \/ workers[w].user # Root /\ Becomes(w, Idle)
  /\ UNCHANGED <<now, tableVars, granted>>

\* Rows that have expired go, whoever logs in or registers.
OpenSession(w) ==
  /\ At(w, "open") /\ issued < MaxIds
  /\ LET job == workers[w] IN
     sessions' = {s \in sessions : s.expires >= now}
       \cup {[id |-> issued + 1, user |-> job.user, expires |-> now + Ttl,
              read |-> job.read, era |-> era[job.user], password |-> job.password]}
  /\ issued' = issued + 1
  /\ Becomes(w, Idle)
  /\ UNCHANGED <<now, limitVars, accounts, tokens, era, misses, granted>>
-----------------------------------------------------------------------------
(***************************************************************************)
(* Registration.  The name is looked up, then the password is hashed; the  *)
(* unique column decides in the end.                                       *)
(***************************************************************************)
RegisterBegin(w, n, p) ==
  /\ At(w, "idle")
  /\ Consume("register", Burst, Refill)
  /\ IF BucketAllow("register", Burst, Refill)
     THEN /\ Granted("register")
          /\ IF n \notin DOMAIN accounts
             THEN Becomes(w, [pc |-> "hash", user |-> n, password |-> p])
             ELSE UNCHANGED workers
     ELSE UNCHANGED <<granted, workers>>
  /\ UNCHANGED <<now, tableVars, misses>>

RegisterOver(w) == \* mutant
  /\ At(w, "hash")
  /\ LET job == workers[w] IN
     /\ accounts' = With(accounts, job.user, [enabled |-> TRUE, password |-> job.password])
     /\ Becomes(w, [pc |-> "open", user |-> job.user, password |-> job.password,
                    read |-> era[job.user]])
  /\ UNCHANGED <<now, limitVars, sessions, tokens, issued, era, misses, granted>>
Register(w) ==
  /\ At(w, "hash")
  /\ LET job == workers[w] IN
     IF job.user \in DOMAIN accounts
     THEN Becomes(w, Idle) /\ UNCHANGED accounts
     ELSE /\ accounts' = With(accounts, job.user, [enabled |-> TRUE, password |-> job.password])
          /\ Becomes(w, [pc |-> "open", user |-> job.user, password |-> job.password,
                         read |-> era[job.user]])
  /\ UNCHANGED <<now, limitVars, sessions, tokens, issued, era, misses, granted>>
-----------------------------------------------------------------------------
(***************************************************************************)
(* A request with a session: authenticated(), the bucket of the writer,    *)
(* the role and the existence of the target, before the handler starts.    *)
(***************************************************************************)
Accept(w, s, do, about) ==
  /\ At(w, "idle")
  /\ s \in sessions /\ s.expires > now /\ Enabled(s.user)
  /\ Consume(s.user, Burst, Refill)
  /\ IF BucketAllow(s.user, Burst, Refill)
     THEN /\ Granted(s.user)
          /\ IF do \in {"disable", "enable", "reset"} => s.user = Root /\ about \in DOMAIN accounts
             THEN Becomes(w, [pc |-> do, user |-> s.user, session |-> s.id,
                              about |-> about, read |-> era[s.user]])
             ELSE UNCHANGED workers
     ELSE UNCHANGED <<granted, workers>>
  /\ UNCHANGED <<now, tableVars, misses>>

\* What a handler leaves alone when it writes.
Handled(w) == Becomes(w, Idle) /\ UNCHANGED <<now, limitVars, misses, granted>>
Revoked(n) == era' = [era EXCEPT ![n] = @ + 1]

CreateToken(w) ==
  /\ At(w, "token") /\ issued < MaxIds
  /\ tokens' = tokens \cup {[id |-> issued + 1, user |-> workers[w].user,
                             read |-> workers[w].read, era |-> era[workers[w].user]]}
  /\ issued' = issued + 1
  /\ UNCHANGED <<accounts, sessions, era>> /\ Handled(w)

\* Logging out, ending another session of one's own, revoking a token.
Delete(w) ==
  /\ At(w, "delete")
  /\ LET Keep(T) == {c \in T : c.id # workers[w].about \/ c.user # workers[w].user}
     IN sessions' = Keep(sessions) /\ tokens' = Keep(tokens)
  /\ UNCHANGED <<accounts, issued, era>> /\ Handled(w)

\* password_change verifies the old password before its transaction ...
VerifyOld(w, old) ==
  /\ At(w, "password")
  /\ LET n == workers[w].user IN
     IF Enabled(n) /\ accounts[n].password = old
     THEN \E new \in Passwords \ {old} :
            Becomes(w, [pc |-> "change", user |-> n, session |-> workers[w].session,
                        password |-> new])
     ELSE Becomes(w, Idle)
  /\ UNCHANGED <<now, limitVars, tableVars, misses, granted>>

\* ... which ends every other session, and every token.
ChangeKeepTokens(w) == \* mutant
  /\ At(w, "change")
  /\ LET job == workers[w]  n == job.user IN
     /\ era[n] < MaxEra /\ Revoked(n)
     /\ accounts' = [accounts EXCEPT ![n].password = job.password]
     /\ sessions' = {s \in sessions : s.user # n}
          \cup {[s EXCEPT !.read = era[n] + 1, !.era = era[n] + 1, !.password = job.password] :
                  s \in {x \in sessions : x.user = n /\ x.id = job.session}}
  /\ UNCHANGED <<tokens, issued>> /\ Handled(w)
Change(w) ==
  /\ At(w, "change")
  /\ LET job == workers[w]  n == job.user IN
     /\ era[n] < MaxEra /\ Revoked(n)
     /\ accounts' = [accounts EXCEPT ![n].password = job.password]
     /\ sessions' = {s \in sessions : s.user # n}
          \cup {[s EXCEPT !.read = era[n] + 1, !.era = era[n] + 1, !.password = job.password] :
                  s \in {x \in sessions : x.user = n /\ x.id = job.session}}
     /\ tokens' = {t \in tokens : t.user # n}
  /\ UNCHANGED issued /\ Handled(w)

Disable(w) ==
  /\ At(w, "disable")
  /\ LET n == workers[w].about IN
     IF n = workers[w].user THEN UNCHANGED <<accounts, sessions, tokens, era>>
     ELSE /\ era[n] < MaxEra /\ Revoked(n)
          /\ accounts' = [accounts EXCEPT ![n].enabled = FALSE]
          /\ sessions' = {s \in sessions : s.user # n}
          /\ tokens' = {t \in tokens : t.user # n}
  /\ UNCHANGED issued /\ Handled(w)

Enable(w) ==
  /\ At(w, "enable")
  /\ accounts' = [accounts EXCEPT ![workers[w].about].enabled = TRUE]
  /\ UNCHANGED <<sessions, tokens, issued, era>> /\ Handled(w)

Reset(w, p) ==
  /\ At(w, "reset")
  /\ LET n == workers[w].about IN
     /\ era[n] < MaxEra /\ Revoked(n)
     /\ accounts' = [accounts EXCEPT ![n].password = p]
     /\ sessions' = {s \in sessions : s.user # n}
     /\ tokens' = {t \in tokens : t.user # n}
  /\ UNCHANGED issued /\ Handled(w)

\* A statement fails: the handler answers 500 or 503 and has changed nothing.
Fail(w) ==
  /\ ~At(w, "idle")
  /\ UNCHANGED tableVars /\ Handled(w)
-----------------------------------------------------------------------------
\* A guard whose lock ends starts a new round of attempts.
Tick ==
  /\ now < MaxTime /\ now' = now + 1
  /\ misses' = [n \in Names |->
       IF GuardOf(n).until = now' THEN 0 ELSE misses[n]]
  /\ UNCHANGED <<limitVars, tableVars, workers, granted>>

\* The process ends and starts again; main deletes the sessions that expired.
Restart ==
  /\ guards' = <<>> /\ buckets' = <<>>
  /\ workers' = [w \in Workers |-> Idle]
  /\ sessions' = {s \in sessions : s.expires >= now}
  /\ misses' = [n \in Names |-> 0] /\ granted' = [k \in DOMAIN granted |-> 0]
  /\ UNCHANGED <<now, accounts, tokens, issued, era>>

Handler(w) ==
  \/ CreateToken(w) \/ Delete(w) \/ Change(w) \/ Disable(w) \/ Enable(w)
  \/ \E p \in Passwords : VerifyOld(w, p) \/ Reset(w, p)

AccountsNext ==
  \/ \E w \in Workers :
       \/ \E n \in Visitors, p \in Passwords : LoginBegin(w, n, p) \/ RegisterBegin(w, n, p)
       \/ LoginWrong(w) \/ LoginRight(w) \/ OpenSession(w) \/ Register(w)
       \/ \E s \in sessions, r \in Requests : s.user = r.by /\ Accept(w, s, r.do, r.about)
       \/ Handler(w) \/ Fail(w)
  \/ Tick \/ Restart

AccountsSpec == AccountsInit /\ [][AccountsNext]_accountsVars
-----------------------------------------------------------------------------
(***************************************************************************)
(* Properties.                                                             *)
(***************************************************************************)

\* Ids are unique over both tables, rows belong to registered users, and the
\* table of limits keeps its size.
AccountsTypeOK ==
  /\ DOMAIN accounts \subseteq Names
  /\ \A n \in DOMAIN accounts : accounts[n] \in [enabled: BOOLEAN, password: Passwords]
  /\ \A c \in Credentials :
       /\ c.id \in 1..issued /\ c.user \in DOMAIN accounts
       /\ c.read <= c.era /\ c.era <= era[c.user]
       /\ \A x \in Credentials : x.id = c.id => x = c
  /\ Cardinality(DOMAIN guards) + Cardinality(DOMAIN buckets) <= TableSize
  /\ \A n \in DOMAIN guards : guards[n].fails \in 0..(MaxFails - 1)
  /\ \A k \in DOMAIN buckets : buckets[k].level >= 0

\* Nothing outlives a revocation: every session and token in the tables was
\* inserted after the last password change, reset or disabling of its user,
\* or is the session that change was made from.
RevocationComplete == \A c \in Credentials : c.era = era[c.user]

\* A session of a disabled account, or one opened with a password that is no
\* longer the account's, belongs to a login that was under way at the
\* revocation.  The same holds for the tokens of disabled accounts.
StaleOnlyIfRaced ==
  /\ \A c \in Credentials : c.read = era[c.user] => Enabled(c.user)
  /\ \A s \in sessions : s.read = era[s.user] => s.password = accounts[s.user].password

\* No password changes behind the back of its sessions: who changes one also
\* revokes, in the same transaction.  Above all a registration that loses the
\* race for a name leaves the winner's password alone.
PasswordChangeRevokes ==
  [][\A n \in DOMAIN accounts :
       accounts'[n].password # accounts[n].password => era'[n] > era[n]]_accountsVars

\* Attempts that have passed the gate are verified after the lock, so a round
\* may see more failures than the limit: one more for each other worker.
MissesBounded ==
  \A n \in DOMAIN guards : misses[n] < MaxFails + Cardinality(Workers)

\* A bucket, once it is in the table, never lets more through than its burst
\* and one for each refill period that has passed.
BurstsBounded ==
  \A k \in DOMAIN buckets : granted[k] * Refill <= Burst * Refill + now
=============================================================================
