------------------------------- MODULE Verifier -------------------------------
(***************************************************************************)
(* door/auth.py's Verifier: the signing keys of the console, which a       *)
(* process that answers its requests fetches when a token names a key it   *)
(* does not have, at most once in a while, and keeps for as long as a      *)
(* token may live.  The door's workers share the cache; its lock is free   *)
(* while one of them fetches.  What else may be wrong with a token changes *)
(* nothing and is one refusal here.                                        *)
(***************************************************************************)
EXTENDS Naturals, FiniteSets, Functions

CONSTANTS
  Kids,      \* keys the console signs with
  Threads,   \* the door's workers
  Throttle,  \* _REFRESH_THROTTLE_SECONDS
  MaxAge,    \* _KEY_MAX_AGE_SECONDS
  Slowest,   \* how long a fetch may last: urlopen gives up after five seconds
  MaxTime    \* bound of the model

ASSUME VerifierAssumption ==
  /\ Throttle \in Nat /\ MaxAge \in Nat /\ Slowest \in Nat /\ MaxTime \in Nat
  /\ 0 < Slowest /\ Slowest < Throttle /\ Throttle <= MaxAge /\ Throttle <= MaxTime

VARIABLES
  now,        \* the clock
  published,  \* external: the keys in the console's document
  served,     \* ghost: when each key was last in it
  keys,       \* _keys: when each key that is kept was asked for
  refreshed,  \* _last_refresh_attempt
  brought,    \* ghost: what that attempt brought, nothing until it has
  thread      \* what each worker is at

verifier == << now, published, served, keys, refreshed, brought, thread >>

Idle == [at |-> "idle"]
At(t, point) == thread[t].at = point
To(t, job)   == thread' = [thread EXCEPT ![t] = job]
Moved(t, point) == To(t, [thread[t] EXCEPT !.at = point])

(* A Verifier as it is made, one for each process.                         *)
NewVerifier == keys' = << >> /\ refreshed' = 0 /\ brought' = {}

VerifierInit ==
  /\ now = Throttle /\ published \in SUBSET Kids
  /\ served = [k \in Kids |-> IF k \in published THEN now ELSE 0]
  /\ keys = << >> /\ refreshed = 0 /\ brought = {}
  /\ thread = [t \in Threads |-> Idle]

-----------------------------------------------------------------------------
(* verify() reads the token's header, and _key_for the clock.              *)
Arrive(t) ==
  /\ At(t, "idle")
  /\ \E k \in Kids : To(t, [at |-> "lookup", kid |-> k, asked |-> now])
  /\ UNCHANGED << now, published, served, keys, refreshed, brought >>

Pruned(asked) == Restrict(keys, {k \in DOMAIN keys : asked - keys[k] <= MaxAge})

\* Mutant of Lookup: keys are dropped on the way to a fetch only.
LookupFirst(t) ==
  /\ At(t, "lookup")
  /\ LET j == thread[t] IN
       \/ j.kid \in DOMAIN keys /\ Moved(t, "decode") /\ UNCHANGED << keys, refreshed, brought >>
       \/ /\ j.kid \notin DOMAIN keys /\ j.asked - refreshed < Throttle
          /\ To(t, Idle) /\ UNCHANGED << keys, refreshed, brought >>
       \/ /\ j.kid \notin DOMAIN keys /\ j.asked - refreshed >= Throttle
          /\ keys' = Pruned(j.asked) /\ refreshed' = j.asked /\ brought' = {} /\ Moved(t, "fetch")
  /\ UNCHANGED << now, published, served >>

(* The first half of _key_for, under the lock: what is too old goes; a key *)
(* that is there is used; one that is not is refused, or fetched if the    *)
(* last attempt is long enough ago.                                        *)
Lookup(t) ==
  /\ At(t, "lookup")
  /\ LET j == thread[t] IN
       /\ keys' = Pruned(j.asked)
       /\ \/ j.kid \in DOMAIN keys' /\ Moved(t, "decode") /\ UNCHANGED << refreshed, brought >>
          \/ /\ j.kid \notin DOMAIN keys' /\ j.asked - refreshed < Throttle
             /\ To(t, Idle) /\ UNCHANGED << refreshed, brought >>
          \/ /\ j.kid \notin DOMAIN keys' /\ j.asked - refreshed >= Throttle
             /\ refreshed' = j.asked /\ brought' = {} /\ Moved(t, "fetch")
  /\ UNCHANGED << now, published, served >>

(* _fetch_jwks, without the lock; a console that cannot be reached is a    *)
(* refusal.                                                                *)
Fetch(t) ==
  /\ At(t, "fetch")
  /\ \/ To(t, [at |-> "store", kid |-> thread[t].kid, asked |-> thread[t].asked,
                document |-> published])
     \/ To(t, Idle)
  /\ UNCHANGED << now, published, served, keys, refreshed, brought >>

\* Mutant of Stored: only the key that was asked for.
StoredOne(j) == [k \in DOMAIN keys \cup (j.document \cap {j.kid}) |->
                   IF k \in j.document \cap {j.kid} THEN j.asked ELSE keys[k]]

Stored(j) == [k \in DOMAIN keys \cup j.document |-> IF k \in j.document THEN j.asked ELSE keys[k]]

(* The second half of _key_for.  Keys that the document lacks stay.        *)
Store(t) ==
  /\ At(t, "store")
  /\ LET j == thread[t] IN
       /\ keys' = Stored(j)
       /\ brought' = IF refreshed = j.asked THEN j.document ELSE brought
       /\ IF j.kid \in DOMAIN keys' THEN Moved(t, "decode") ELSE To(t, Idle)
  /\ UNCHANGED << now, published, served, refreshed >>

(* The signature, the times and the claims are right, or the request is    *)
(* refused.                                                                *)
Decode(t) ==
  /\ At(t, "decode")
  /\ To(t, [at |-> "accepted"]) \/ To(t, Idle)
  /\ UNCHANGED << now, published, served, keys, refreshed, brought >>

-----------------------------------------------------------------------------
(* The console puts a key into its document, or takes it out for good.     *)
Publish(k) ==
  /\ served[k] = 0
  /\ published' = published \cup {k} /\ served' = [served EXCEPT ![k] = now]
  /\ UNCHANGED << now, keys, refreshed, brought, thread >>

Withdraw(k) ==
  /\ k \in published
  /\ published' = published \ {k}
  /\ UNCHANGED << now, served, keys, refreshed, brought, thread >>

Busy == {"lookup", "fetch", "store"}

Tick ==
  /\ now < MaxTime
  /\ \A t \in Threads : thread[t].at \in Busy => now < thread[t].asked + Slowest
  /\ now' = now + 1
  /\ served' = [k \in Kids |-> IF k \in published THEN now' ELSE served[k]]
  /\ UNCHANGED << published, keys, refreshed, brought, thread >>
=============================================================================
