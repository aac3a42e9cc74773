--------------------------- MODULE RateLimit ---------------------------
(***************************************************************************)
(* The limits on logins and writes.  They live in one hash table of the    *)
(* process, whose entries are never removed: a guard per user name that    *)
(* somebody tried to log in with, and a token bucket per user that writes, *)
(* and one for registrations.  Whoever finds the table full is let pass.   *)
(* A restart empties it.                                                   *)
(***************************************************************************)
EXTENDS Integers, FiniteSets

CONSTANTS
  MaxFails,   \* failures that lock a name: --login-max-fails
  Lockout,    \* how long: --login-lockout
  TableSize   \* entries, 1024 in the code

ASSUME LimitsAssumption ==
  MaxFails \in Nat \ {0} /\ Lockout \in Nat \ {0} /\ TableSize \in Nat

VARIABLES
  now,
  guards,     \* name -> [fails, until]
  buckets     \* key -> [level, last]

limitVars == <<guards, buckets>>

LimitInit == guards = <<>> /\ buckets = <<>>

Full == Cardinality(DOMAIN guards) + Cardinality(DOMAIN buckets) >= TableSize
With(table, key, entry) ==
  [x \in DOMAIN table \cup {key} |-> IF x = key THEN entry ELSE table[x]]
Put(table, key, entry) ==
  IF key \in DOMAIN table \/ ~Full THEN With(table, key, entry) ELSE table
-----------------------------------------------------------------------------
\* entry_get makes the entry that is missing.
GuardOf(name) ==
  IF name \in DOMAIN guards THEN guards[name] ELSE [fails |-> 0, until |-> 0]

LoginAllow(name) == GuardOf(name).until <= now
LoginGate(name) == guards' = Put(guards, name, GuardOf(name)) /\ UNCHANGED buckets

RecordFailOver(name) == \* mutant
  LET g == GuardOf(name)
  IN /\ guards' = Put(guards, name,
            IF g.fails > MaxFails THEN [fails |-> 0, until |-> now + Lockout]
            ELSE [g EXCEPT !.fails = @ + 1])
     /\ UNCHANGED buckets
RecordFail(name) ==
  LET g == GuardOf(name)
  IN /\ guards' = Put(guards, name,
            IF g.fails + 1 >= MaxFails THEN [fails |-> 0, until |-> now + Lockout]
            ELSE [g EXCEPT !.fails = @ + 1])
     /\ UNCHANGED buckets

RecordOk(name) ==
  guards' = Put(guards, name, [fails |-> 0, until |-> 0]) /\ UNCHANGED buckets
-----------------------------------------------------------------------------
\* The level counts seconds: a token is worth refill of them.
Least(x, y) == IF x < y THEN x ELSE y

FilledUncapped(key, burst, refill) == \* mutant
  IF key \notin DOMAIN buckets THEN [level |-> burst * refill, last |-> now]
  ELSE [level |-> buckets[key].level + (now - buckets[key].last),
        last |-> buckets[key].last]
Filled(key, burst, refill) ==
  IF key \notin DOMAIN buckets THEN [level |-> burst * refill, last |-> now]
  ELSE [level |-> Least(burst * refill, buckets[key].level + (now - buckets[key].last)),
        last |-> now]

\* Without an entry everything is allowed.
BucketAllow(key, burst, refill) ==
  Filled(key, burst, refill).level >= refill \/ (key \notin DOMAIN buckets /\ Full)

Consume(key, burst, refill) ==
  LET b == Filled(key, burst, refill)
  IN /\ buckets' = Put(buckets, key,
            IF b.level >= refill THEN [b EXCEPT !.level = @ - refill] ELSE b)
     /\ UNCHANGED guards
=============================================================================
