--------------------------- MODULE EnrolmentProofs ---------------------------
(***************************************************************************)
(* Theorems about Enrolment and its Verifier that hold for any keys of the *)
(* console, workers, harnesses and key pairs, and for any throttle, age    *)
(* and fetch time that are ordered as the code orders them.                *)
(***************************************************************************)
EXTENDS Enrolment, TLAPS

-----------------------------------------------------------------------------
(* The verifier.                                                           *)

(* A key that is in the document was last there now, and no time is to     *)
(* come.                                                                   *)
ClockInv ==
  /\ now \in Nat /\ Throttle <= now /\ refreshed \in Nat /\ refreshed <= now
  /\ published \subseteq Kids /\ served \in [Kids -> Nat]
  /\ \A k \in Kids : served[k] <= now /\ (k \in published => served[k] = now)

(* No kept key is younger than the last attempt, nor than its last sight;  *)
(* what that attempt brought is kept, and as old as the attempt.           *)
KeysInv ==
  /\ DOMAIN keys \subseteq Kids
  /\ \A k \in DOMAIN keys : keys[k] \in Nat /\ keys[k] <= refreshed /\ keys[k] <= served[k]
  /\ \A k \in brought : k \in DOMAIN keys /\ keys[k] = refreshed

Jobs ==
  [at : {"idle", "accepted", "removing", "unlinking"}]
    \cup [at : {"lookup", "fetch", "decode"}, kid : Kids, asked : Nat]
    \cup [at : {"store", "decode"}, kid : Kids, asked : Nat, document : SUBSET Kids]

(* Whoever fetches is the last attempt, because a fetch is over before the *)
(* throttle allows another.                                                *)
JobOK(j) ==
  /\ j.at \in Busy => j.asked <= now /\ now <= j.asked + Slowest
  /\ j.at \in {"fetch", "store"} =>
       /\ j.asked = refreshed
       /\ j.kid \in DOMAIN keys => j.asked <= keys[j.kid] + MaxAge
  /\ j.at = "store" => \A k \in j.document : j.asked <= served[k]
  /\ j.at = "decode" => j.asked <= served[j.kid] + MaxAge

ThreadsInv == thread \in [Threads -> Jobs] /\ \A t \in Threads : JobOK(thread[t])

VerifierInv == ClockInv /\ KeysInv /\ ThreadsInv

-----------------------------------------------------------------------------
(* The box.                                                                *)

Posted == {"unlinking", "creating", "writing", "truncating", "filling"}

Enrols == [at : {"posting"} \cup Posted, harness : Harnesses, key : {made},
           replace : BOOLEAN, alone : BOOLEAN]

BoxOK ==
  /\ made \in Nat \ {0} /\ registered \in [Harnesses -> Nat]
  /\ \A h \in Harnesses : registered[h] <= made
  /\ sound # None => sound \in Harnesses

(* The key pair of the enrolment under way is the last one made; when the  *)
(* relay has it, nothing that stood before is counted on any more, and     *)
(* once it is in its file only a deregistration takes it away.             *)
EnrolInv ==
  /\ enrol.at \in {"idle", "posting"} \cup Posted
  /\ enrol.at # "idle" => enrol \in Enrols
  /\ enrol.at = "posting" => \A h \in Harnesses : registered[h] < enrol.key
  /\ enrol.at \in Posted => sound = None /\ registered[enrol.harness] = enrol.key
  /\ enrol.at \in {"truncating", "filling"} /\ enrol.alone => keyFile = enrol.key

(* A gateway that started since the enrolment that stands read its files.  *)
GatewayInv ==
  /\ gateway.at \in {"down", "loading", "up"}
  /\ gateway.at = "loading" => gateway \in [at : {"loading"}, id : Harnesses, since : Nat]
  /\ gateway.at # "down" =>
       /\ gateway.since \in Nat /\ gateway.since <= made
       /\ enrol.at # "idle" => gateway.since < made
       /\ sound # None /\ gateway.since = registered[sound] =>
            gateway.id = sound /\ (gateway.at = "up" => gateway.key = registered[sound])

StandsInv ==
  sound # None => identity = sound /\ keyFile = registered[sound] /\ registered[sound] # NoKey

BoxInv == BoxOK /\ EnrolInv /\ GatewayInv /\ StandsInv

IInv == VerifierInv /\ BoxInv

-----------------------------------------------------------------------------
(* The steps of the verifier.                                              *)

LEMMA JobFields ==
  ASSUME NEW j \in Jobs
  PROVE  /\ j.at \in {"idle", "accepted", "removing", "unlinking", "lookup", "fetch", "decode",
                      "store"}
         /\ j.at \in Busy \cup {"decode"} => j.kid \in Kids /\ j.asked \in Nat
         /\ j.at = "store" => j.document \subseteq Kids
         /\ j.at = "lookup" => [j EXCEPT !.at = "decode"] \in Jobs /\ [j EXCEPT !.at = "fetch"] \in Jobs
         /\ j.at = "store" => [j EXCEPT !.at = "decode"] \in Jobs
         /\ j.at \in {"accepted", "removing"} =>
              \A p \in {"removing", "unlinking"} : [j EXCEPT !.at = p] \in Jobs
BY DEF Jobs, Busy

LEMMA JobMoved ==
  ASSUME NEW j \in Jobs, NEW p
  PROVE  /\ [j EXCEPT !.at = p].at = p
         /\ j.at \in Busy =>
              [j EXCEPT !.at = p].kid = j.kid /\ [j EXCEPT !.at = p].asked = j.asked
BY DEF Jobs, Busy

(* A worker that only goes on with its own request.                        *)
LEMMA JobMoves ==
  ASSUME VerifierInv, NEW t \in Threads, NEW j \in Jobs, JobOK(j), To(t, j),
         UNCHANGED << now, published, served, keys, refreshed, brought >>
  PROVE  VerifierInv'
<1>1. ClockInv' /\ KeysInv'
  BY DEF VerifierInv, ClockInv, KeysInv
<1>2. thread' = [thread EXCEPT ![t] = j] /\ thread \in [Threads -> Jobs]
  BY DEF To, VerifierInv, ThreadsInv
<1>3. ASSUME NEW q \in Threads PROVE JobOK(thread[q])'
  <2>1. CASE q = t
    <3>1. thread'[q] = j
      BY <1>2, <2>1
    <3> QED BY <3>1 DEF JobOK
  <2>2. CASE q # t
    <3>1. thread'[q] = thread[q] /\ JobOK(thread[q])
      BY <1>2, <2>2 DEF VerifierInv, ThreadsInv
    <3> QED BY <3>1 DEF JobOK
  <2> QED BY <2>1, <2>2
<1>4. thread' \in [Threads -> Jobs]
  BY <1>2
<1> QED BY <1>1, <1>3, <1>4 DEF VerifierInv, ThreadsInv

LEMMA ArriveKeeps ==
  ASSUME VerifierInv, NEW t \in Threads, Arrive(t) PROVE VerifierInv'
<1>1. PICK k \in Kids : To(t, [at |-> "lookup", kid |-> k, asked |-> now])
  BY DEF Arrive
<1> DEFINE j == [at |-> "lookup", kid |-> k, asked |-> now]
<1>2. now \in Nat
  BY DEF VerifierInv, ClockInv
<1>3. j \in Jobs
  BY <1>2 DEF Jobs
<1>4. JobOK(j)
  BY <1>2, VerifierAssumption DEF JobOK, VerifierAssumption
<1> QED BY <1>1, <1>3, <1>4, JobMoves DEF Arrive

(* What is pruned, of what is kept.                                        *)
LEMMA PrunedKeys ==
  ASSUME NEW asked
  PROVE  /\ DOMAIN Pruned(asked) = {k \in DOMAIN keys : asked - keys[k] <= MaxAge}
         /\ \A k \in DOMAIN Pruned(asked) : Pruned(asked)[k] = keys[k]
BY DEF Pruned, Restrict

LEMMA LookupKeeps ==
  ASSUME VerifierInv, NEW t \in Threads, Lookup(t) PROVE VerifierInv'
<1> DEFINE j == thread[t]
<1>1. /\ ClockInv /\ KeysInv /\ thread \in [Threads -> Jobs]
      /\ \A q \in Threads : thread[q] \in Jobs /\ JobOK(thread[q])
  BY DEF VerifierInv, ThreadsInv
<1>2. /\ j \in Jobs /\ j.at = "lookup" /\ j.kid \in Kids /\ j.asked \in Nat
      /\ j.asked <= now /\ now <= j.asked + Slowest
      /\ [j EXCEPT !.at = "decode"] \in Jobs /\ [j EXCEPT !.at = "fetch"] \in Jobs
  BY <1>1, JobFields DEF Lookup, At, Busy, JobOK
<1>3. /\ now \in Nat /\ refreshed \in Nat /\ MaxAge \in Nat /\ Throttle \in Nat /\ Slowest \in Nat
      /\ Slowest < Throttle /\ Throttle <= MaxAge /\ refreshed <= now
      /\ served \in [Kids -> Nat]
  BY <1>1, VerifierAssumption DEF ClockInv, VerifierAssumption
<1>4. /\ DOMAIN keys' = {k \in DOMAIN keys : j.asked - keys[k] <= MaxAge}
      /\ \A k \in DOMAIN keys' : keys'[k] = keys[k]
      /\ UNCHANGED << now, published, served >>
  BY PrunedKeys DEF Lookup
<1>5. \A k \in DOMAIN keys : k \in Kids /\ keys[k] \in Nat /\ keys[k] <= refreshed /\ keys[k] <= served[k]
  BY <1>1 DEF KeysInv
<1>6. PICK i : /\ i \in Jobs \cup {Idle} /\ thread' = [thread EXCEPT ![t] = i]
               /\ \/ /\ j.kid \in DOMAIN keys' /\ i = [j EXCEPT !.at = "decode"]
                     /\ refreshed' = refreshed /\ brought' = brought
                  \/ /\ j.kid \notin DOMAIN keys' /\ j.asked - refreshed < Throttle /\ i = Idle
                     /\ refreshed' = refreshed /\ brought' = brought
                  \/ /\ j.kid \notin DOMAIN keys' /\ j.asked - refreshed >= Throttle
                     /\ refreshed' = j.asked /\ brought' = {} /\ i = [j EXCEPT !.at = "fetch"]
  BY <1>2 DEF Lookup, Moved, To
<1>7. Idle \in Jobs
  BY DEF Idle, Jobs
<1>8. i \in Jobs /\ thread' \in [Threads -> Jobs]
  BY <1>1, <1>6, <1>7
<1>9. refreshed' \in Nat /\ refreshed <= refreshed' /\ refreshed' <= now
  BY <1>2, <1>3, <1>6
<1>10. ClockInv'
  BY <1>1, <1>4, <1>9 DEF ClockInv
<1>11. KeysInv'
  <2>1. \A k \in DOMAIN keys' : /\ k \in Kids /\ keys'[k] \in Nat
                                /\ keys'[k] <= refreshed' /\ keys'[k] <= served'[k]
    BY <1>3, <1>4, <1>5, <1>9
  <2>2. ASSUME NEW k \in brought' PROVE k \in DOMAIN keys' /\ keys'[k] = refreshed'
    <3>1. /\ k \in brought /\ refreshed' = refreshed
          /\ j.kid \in DOMAIN keys' \/ j.asked - refreshed < Throttle
      BY <1>6, <2>2
    <3>2. k \in DOMAIN keys /\ keys[k] = refreshed
      BY <1>1, <3>1 DEF KeysInv
    <3>3. j.asked - refreshed <= MaxAge
      <4>1. CASE j.kid \in DOMAIN keys'
        <5>1. j.kid \in DOMAIN keys /\ j.asked - keys[j.kid] <= MaxAge
          BY <1>4, <4>1
        <5>2. keys[j.kid] \in Nat /\ keys[j.kid] <= refreshed
          BY <1>5, <5>1
        <5> QED BY <1>2, <1>3, <5>1, <5>2
      <4>2. CASE j.asked - refreshed < Throttle
        BY <1>2, <1>3, <4>2
      <4> QED BY <3>1, <4>1, <4>2
    <3> QED BY <1>4, <3>1, <3>2, <3>3
  <2> QED BY <2>1, <2>2 DEF KeysInv
<1>12. ASSUME NEW q \in Threads PROVE JobOK(thread[q])'
  <2>1. CASE q = t
    <3>1. thread'[q] = i
      BY <1>1, <1>6, <2>1
    <3>2. CASE i = Idle
      BY <3>1, <3>2 DEF JobOK, Idle, Busy
    <3>3. CASE j.kid \in DOMAIN keys' /\ i = [j EXCEPT !.at = "decode"]
      <4>1. i.at = "decode" /\ i.kid = j.kid /\ i.asked = j.asked
        BY <1>2, <3>3, JobMoved DEF Busy
      <4>2. j.kid \in DOMAIN keys /\ j.asked - keys[j.kid] <= MaxAge
        BY <1>4, <3>3
      <4>3. keys[j.kid] \in Nat /\ keys[j.kid] <= served[j.kid] /\ served[j.kid] \in Nat
        BY <1>2, <1>3, <1>5, <4>2
      <4>4. j.asked <= served[j.kid] + MaxAge
        BY <1>2, <1>3, <4>2, <4>3
      <4> QED BY <1>4, <3>1, <4>1, <4>4 DEF JobOK, Busy
    <3>4. CASE j.kid \notin DOMAIN keys' /\ i = [j EXCEPT !.at = "fetch"] /\ refreshed' = j.asked
      <4>1. i.at = "fetch" /\ i.kid = j.kid /\ i.asked = j.asked
        BY <1>2, <3>4, JobMoved DEF Busy
      <4> QED BY <1>2, <1>4, <3>1, <3>4, <4>1 DEF JobOK, Busy
    <3> QED BY <1>6, <3>2, <3>3, <3>4
  <2>2. CASE q # t
    <3>1. thread'[q] = thread[q] /\ thread[q] \in Jobs /\ JobOK(thread[q])
      BY <1>1, <1>6, <2>2
    <3>2. thread[q].at \in {"fetch", "store"} =>
            /\ thread[q].asked = refreshed' /\ thread[q].asked \in Nat
            /\ thread[q].kid \in DOMAIN keys => thread[q].asked <= keys[thread[q].kid] + MaxAge
      <4>1. SUFFICES ASSUME thread[q].at \in {"fetch", "store"}
                     PROVE  /\ thread[q].asked = refreshed' /\ thread[q].asked \in Nat
                            /\ thread[q].kid \in DOMAIN keys => thread[q].asked <= keys[thread[q].kid] + MaxAge
        OBVIOUS
      <4>2. /\ thread[q].asked = refreshed /\ now <= refreshed + Slowest /\ thread[q].asked \in Nat
            /\ thread[q].kid \in DOMAIN keys => thread[q].asked <= keys[thread[q].kid] + MaxAge
        BY <3>1, <4>1, JobFields DEF JobOK, Busy
      <4>3. ~(j.asked - refreshed >= Throttle)
        BY <1>2, <1>3, <4>2
      <4> QED BY <1>6, <4>2, <4>3
    <3> QED BY <1>4, <3>1, <3>2 DEF JobOK
  <2> QED BY <2>1, <2>2
<1> QED BY <1>8, <1>10, <1>11, <1>12 DEF VerifierInv, ThreadsInv

LEMMA IdleIsJob == Idle \in Jobs /\ JobOK(Idle)
BY DEF Idle, Jobs, JobOK, Busy

LEMMA FetchKeeps ==
  ASSUME VerifierInv, NEW t \in Threads, Fetch(t) PROVE VerifierInv'
<1> DEFINE i == [at |-> "store", kid |-> thread[t].kid, asked |-> thread[t].asked,
                 document |-> published]
<1>1. UNCHANGED << now, published, served, keys, refreshed, brought >>
  BY DEF Fetch
<1>2. CASE To(t, Idle)
  BY <1>1, <1>2, IdleIsJob, JobMoves
<1>3. CASE To(t, i)
  <2>1. thread[t] \in Jobs /\ JobOK(thread[t]) /\ thread[t].at = "fetch"
    BY DEF Fetch, At, VerifierInv, ThreadsInv
  <2>2. /\ thread[t].kid \in Kids /\ thread[t].asked \in Nat
        /\ thread[t].asked <= now /\ now <= thread[t].asked + Slowest
        /\ thread[t].asked = refreshed
        /\ thread[t].kid \in DOMAIN keys => thread[t].asked <= keys[thread[t].kid] + MaxAge
    BY <2>1, JobFields DEF JobOK, Busy
  <2>3. published \subseteq Kids /\ \A k \in published : served[k] = now
    BY DEF VerifierInv, ClockInv
  <2>4. i \in Jobs
    BY <2>2, <2>3 DEF Jobs
  <2>5. JobOK(i)
    BY <2>2, <2>3 DEF JobOK, Busy
  <2> QED BY <1>1, <1>3, <2>4, <2>5, JobMoves
<1> QED BY <1>2, <1>3 DEF Fetch

LEMMA StoreKeeps ==
  ASSUME VerifierInv, NEW t \in Threads, Store(t) PROVE VerifierInv'
<1> DEFINE j == thread[t]
<1>1. /\ ClockInv /\ KeysInv /\ thread \in [Threads -> Jobs]
      /\ \A q \in Threads : thread[q] \in Jobs /\ JobOK(thread[q])
  BY DEF VerifierInv, ThreadsInv
<1>2. /\ j \in Jobs /\ j.at = "store" /\ j.kid \in Kids /\ j.asked \in Nat
      /\ j.document \subseteq Kids /\ j.asked = refreshed
      /\ j.kid \in DOMAIN keys => j.asked <= keys[j.kid] + MaxAge
      /\ \A k \in j.document : j.asked <= served[k]
      /\ [j EXCEPT !.at = "decode"] \in Jobs
  BY <1>1, JobFields DEF Store, At, Busy, JobOK
<1>3. /\ now \in Nat /\ refreshed \in Nat /\ MaxAge \in Nat /\ served \in [Kids -> Nat]
  BY <1>1, VerifierAssumption DEF ClockInv, VerifierAssumption
<1>4. /\ DOMAIN keys' = DOMAIN keys \cup j.document
      /\ \A k \in DOMAIN keys' : keys'[k] = IF k \in j.document THEN refreshed ELSE keys[k]
      /\ brought' = j.document
      /\ UNCHANGED << now, published, served, refreshed >>
  BY <1>2 DEF Store, Stored
<1>5. PICK i : /\ thread' = [thread EXCEPT ![t] = i]
               /\ \/ j.kid \in DOMAIN keys' /\ i = [j EXCEPT !.at = "decode"]
                  \/ i = Idle
  BY DEF Store, Moved, To
<1>6. ClockInv'
  BY <1>1, <1>4 DEF ClockInv
<1>7. KeysInv'
  <2>1. \A k \in DOMAIN keys' : /\ k \in Kids /\ keys'[k] \in Nat
                                /\ keys'[k] <= refreshed /\ keys'[k] <= served[k]
    BY <1>1, <1>2, <1>3, <1>4 DEF KeysInv
  <2>2. \A k \in brought' : k \in DOMAIN keys' /\ keys'[k] = refreshed
    BY <1>4
  <2> QED BY <1>4, <2>1, <2>2 DEF KeysInv
<1>8. thread' \in [Threads -> Jobs]
  BY <1>1, <1>2, <1>5, IdleIsJob
<1>9. ASSUME NEW q \in Threads PROVE JobOK(thread[q])'
  <2>1. CASE q = t
    <3>1. thread'[q] = i
      BY <1>1, <1>5, <2>1
    <3>2. CASE i = Idle
      BY <3>1, <3>2 DEF JobOK, Idle, Busy
    <3>3. CASE j.kid \in DOMAIN keys' /\ i = [j EXCEPT !.at = "decode"]
      <4>1. i.at = "decode" /\ i.kid = j.kid /\ i.asked = j.asked
        BY <1>2, <3>3, JobMoved DEF Busy
      <4>2. j.asked <= served[j.kid] + MaxAge
        <5>1. CASE j.kid \in j.document
          <6>1. j.asked <= served[j.kid] /\ served[j.kid] \in Nat
            BY <1>2, <1>3, <5>1
          <6> QED BY <1>2, <1>3, <6>1
        <5>2. CASE j.kid \notin j.document
          <6>1. j.kid \in DOMAIN keys
            BY <1>4, <3>3, <5>2
          <6>2. /\ keys[j.kid] \in Nat /\ keys[j.kid] <= served[j.kid] /\ served[j.kid] \in Nat
                /\ j.asked <= keys[j.kid] + MaxAge
            BY <1>1, <1>2, <1>3, <6>1 DEF KeysInv
          <6> QED BY <1>2, <1>3, <6>2
        <5> QED BY <5>1, <5>2
      <4> QED BY <1>4, <3>1, <4>1, <4>2 DEF JobOK, Busy
    <3> QED BY <1>5, <3>2, <3>3
  <2>2. CASE q # t
    <3>1. thread'[q] = thread[q] /\ thread[q] \in Jobs /\ JobOK(thread[q])
      BY <1>1, <1>5, <2>2
    <3>2. thread[q].at \in {"fetch", "store"} /\ thread[q].kid \in DOMAIN keys' =>
            thread[q].asked <= keys'[thread[q].kid] + MaxAge
      <4>1. SUFFICES ASSUME thread[q].at \in {"fetch", "store"}, thread[q].kid \in DOMAIN keys'
                     PROVE  thread[q].asked <= keys'[thread[q].kid] + MaxAge
        OBVIOUS
      <4>2. /\ thread[q].asked = refreshed
            /\ thread[q].kid \in DOMAIN keys => thread[q].asked <= keys[thread[q].kid] + MaxAge
        BY <3>1, <4>1 DEF JobOK
      <4>3. CASE thread[q].kid \in j.document
        <5>1. keys'[thread[q].kid] = refreshed
          BY <1>4, <4>1, <4>3
        <5> QED BY <1>3, <4>2, <5>1
      <4>4. CASE thread[q].kid \notin j.document
        <5>1. thread[q].kid \in DOMAIN keys /\ keys'[thread[q].kid] = keys[thread[q].kid]
          BY <1>4, <4>1, <4>4
        <5> QED BY <4>2, <5>1
      <4> QED BY <4>3, <4>4
    <3> QED BY <1>4, <3>1, <3>2 DEF JobOK
  <2> QED BY <2>1, <2>2
<1> QED BY <1>6, <1>7, <1>8, <1>9 DEF VerifierInv, ThreadsInv

(* The last steps of a request: it is let in or not, and answered or does  *)
(* what it came for.                                                       *)
LEMMA LastStepKeeps ==
  ASSUME VerifierInv, NEW t \in Threads,
         UNCHANGED << now, published, served, keys, refreshed, brought >>,
         \/ thread[t].at \in {"accepted", "removing"}
              /\ \E p \in {"removing", "unlinking"} : Moved(t, p)
         \/ To(t, [at |-> "accepted"]) \/ To(t, Idle)
  PROVE  VerifierInv'
<1>1. CASE To(t, Idle)
  BY <1>1, IdleIsJob, JobMoves
<1>2. CASE To(t, [at |-> "accepted"])
  <2>1. [at |-> "accepted"] \in Jobs /\ JobOK([at |-> "accepted"])
    BY DEF Jobs, JobOK, Busy
  <2> QED BY <1>2, <2>1, JobMoves
<1>3. CASE /\ thread[t].at \in {"accepted", "removing"}
           /\ \E p \in {"removing", "unlinking"} : Moved(t, p)
  <2>1. PICK p \in {"removing", "unlinking"} : To(t, [thread[t] EXCEPT !.at = p])
    BY <1>3 DEF Moved
  <2>2. thread[t] \in Jobs
    BY DEF VerifierInv, ThreadsInv
  <2>3. [thread[t] EXCEPT !.at = p] \in Jobs /\ [thread[t] EXCEPT !.at = p].at = p
    <3>1. [thread[t] EXCEPT !.at = p] \in Jobs
      BY <1>3, <2>2, JobFields
    <3>2. [thread[t] EXCEPT !.at = p].at = p
      BY <2>2, JobMoved
    <3> QED BY <3>1, <3>2
  <2>4. JobOK([thread[t] EXCEPT !.at = p])
    BY <2>3 DEF JobOK, Busy
  <2> QED BY <2>1, <2>3, <2>4, JobMoves
<1> QED BY <1>1, <1>2, <1>3

(* The console and the clock: a key that is published is seen now, and no  *)
(* sight is lost.                                                          *)
LEMMA ServedGrows ==
  ASSUME VerifierInv, UNCHANGED << keys, refreshed, brought, thread >>,
         served' \in [Kids -> Nat], \A k \in Kids : served[k] <= served'[k],
         ClockInv', \A t \in Threads : thread[t].at \in Busy => now' <= thread[t].asked + Slowest,
         now <= now'
  PROVE  VerifierInv'
<1>1. /\ KeysInv /\ thread \in [Threads -> Jobs]
      /\ \A q \in Threads : thread[q] \in Jobs /\ JobOK(thread[q])
      /\ now \in Nat /\ now' \in Nat /\ served \in [Kids -> Nat] /\ MaxAge \in Nat
  BY VerifierAssumption DEF VerifierInv, ThreadsInv, ClockInv, VerifierAssumption
<1>2. KeysInv'
  <2>1. \A k \in DOMAIN keys : k \in Kids /\ keys[k] \in Nat /\ keys[k] <= served[k]
    BY <1>1 DEF KeysInv
  <2>2. \A k \in DOMAIN keys : keys[k] <= served'[k]
    BY <1>1, <2>1
  <2> QED BY <1>1, <2>2 DEF KeysInv
<1>3. ASSUME NEW q \in Threads PROVE JobOK(thread[q])'
  <2> DEFINE j == thread[q]
  <2>1. j \in Jobs /\ JobOK(j) /\ thread' = thread
    BY <1>1
  <2>2. /\ j.at \in Busy \cup {"decode"} => j.kid \in Kids /\ j.asked \in Nat
        /\ j.at = "store" => j.document \subseteq Kids
    BY <2>1, JobFields
  <2> HIDE DEF j
  <2>3. j.at \in Busy => j.asked <= now' /\ now' <= j.asked + Slowest
    BY <1>1, <2>1, <2>2 DEF JobOK, j
  <2>4. j.at = "store" => \A k \in j.document : j.asked <= served'[k]
    <3>1. SUFFICES ASSUME j.at = "store", NEW k \in j.document PROVE j.asked <= served'[k]
      OBVIOUS
    <3>2. k \in Kids /\ j.asked \in Nat /\ j.asked <= served[k]
      BY <2>1, <2>2, <3>1 DEF JobOK, Busy
    <3> QED BY <1>1, <3>2
  <2>5. j.at = "decode" => j.asked <= served'[j.kid] + MaxAge
    <3>1. SUFFICES ASSUME j.at = "decode" PROVE j.asked <= served'[j.kid] + MaxAge
      OBVIOUS
    <3>2. j.kid \in Kids /\ j.asked \in Nat /\ j.asked <= served[j.kid] + MaxAge
      BY <2>1, <2>2, <3>1 DEF JobOK
    <3> QED BY <1>1, <3>2
  <2>6. thread'[q] = j
    BY DEF j
  <2> QED BY <2>1, <2>3, <2>4, <2>5, <2>6 DEF JobOK
<1> QED BY <1>1, <1>2, <1>3 DEF VerifierInv, ThreadsInv

LEMMA ConsoleKeeps ==
  ASSUME VerifierInv, Tick \/ \E k \in Kids : Publish(k) \/ Withdraw(k)
  PROVE  VerifierInv'
<1>1. /\ now \in Nat /\ Throttle <= now /\ refreshed \in Nat /\ refreshed <= now /\ Throttle \in Nat
      /\ published \subseteq Kids /\ served \in [Kids -> Nat]
      /\ \A k \in Kids : served[k] <= now /\ (k \in published => served[k] = now)
      /\ \A t \in Threads : thread[t].at \in Busy => now <= thread[t].asked + Slowest
      /\ Slowest \in Nat
  BY VerifierAssumption DEF VerifierInv, ClockInv, ThreadsInv, JobOK, VerifierAssumption
<1>2. CASE Tick
  <2>1. /\ now' = now + 1 /\ published' = published
        /\ served' = [k \in Kids |-> IF k \in published THEN now' ELSE served[k]]
        /\ \A t \in Threads : thread[t].at \in Busy => now < thread[t].asked + Slowest
        /\ UNCHANGED << keys, refreshed, brought, thread >>
    BY <1>2 DEF Tick
  <2>2. /\ served' \in [Kids -> Nat] /\ \A k \in Kids : served[k] <= served'[k]
        /\ \A k \in Kids : served'[k] <= now' /\ (k \in published => served'[k] = now')
    BY <1>1, <2>1
  <2>3. ClockInv'
    BY <1>1, <2>1, <2>2 DEF ClockInv
  <2>4. \A t \in Threads : thread[t].at \in Busy => now' <= thread[t].asked + Slowest
    <3>1. SUFFICES ASSUME NEW t \in Threads, thread[t].at \in Busy
                   PROVE  now' <= thread[t].asked + Slowest
      OBVIOUS
    <3>2. thread[t] \in Jobs
      BY DEF VerifierInv, ThreadsInv
    <3>3. thread[t].asked \in Nat
      BY <3>1, <3>2, JobFields
    <3> QED BY <1>1, <2>1, <3>1, <3>3
  <2> QED BY <1>1, <2>1, <2>2, <2>3, <2>4, ServedGrows
<1>3. ASSUME NEW k \in Kids, Publish(k) PROVE VerifierInv'
  <2>1. /\ served[k] = 0 /\ published' = published \cup {k}
        /\ served' = [served EXCEPT ![k] = now]
        /\ UNCHANGED << now, keys, refreshed, brought, thread >>
    BY <1>3 DEF Publish
  <2>2. /\ served' \in [Kids -> Nat] /\ \A q \in Kids : served[q] <= served'[q]
        /\ \A q \in Kids : served'[q] <= now /\ (q \in published' => served'[q] = now)
    BY <1>1, <2>1
  <2>3. ClockInv'
    BY <1>1, <2>1, <2>2 DEF ClockInv
  <2> QED BY <1>1, <2>1, <2>2, <2>3, ServedGrows
<1>4. ASSUME NEW k \in Kids, Withdraw(k) PROVE VerifierInv'
  <2>1. /\ published' = published \ {k} /\ UNCHANGED << now, served, keys, refreshed, brought, thread >>
    BY <1>4 DEF Withdraw
  <2>2. ClockInv'
    BY <1>1, <2>1 DEF ClockInv
  <2>3. \A q \in Kids : served[q] <= served'[q]
    BY <1>1, <2>1
  <2> QED BY <1>1, <2>1, <2>2, <2>3, ServedGrows
<1> QED BY <1>2, <1>3, <1>4

(* A process that dies takes its keys and its workers with it.             *)
LEMMA DieKeeps ==
  ASSUME VerifierInv, NewVerifier, thread' = [t \in Threads |-> Idle],
         UNCHANGED << now, published, served >>
  PROVE  VerifierInv'
<1>1. ClockInv' /\ KeysInv'
  BY DEF VerifierInv, ClockInv, KeysInv, NewVerifier
<1>2. thread' \in [Threads -> Jobs] /\ \A t \in Threads : thread'[t] = Idle
  BY IdleIsJob
<1>3. ASSUME NEW t \in Threads PROVE JobOK(thread[t])'
  BY <1>2 DEF JobOK, Idle, Busy
<1> QED BY <1>1, <1>2, <1>3 DEF VerifierInv, ThreadsInv

LEMMA VerifierStays ==
  ASSUME VerifierInv, UNCHANGED verifier PROVE VerifierInv'
BY DEF VerifierInv, verifier, ClockInv, KeysInv, ThreadsInv, JobOK

-----------------------------------------------------------------------------
(* The steps of the box.                                                   *)

LEMMA EnrolFields ==
  ASSUME EnrolInv, enrol.at # "idle"
  PROVE  /\ enrol.at \in {"posting"} \cup Posted /\ enrol.harness \in Harnesses /\ enrol.key = made
         /\ \A p \in {"posting"} \cup Posted :
              LET e == [enrol EXCEPT !.at = p] IN
                e \in Enrols /\ e.at = p /\ e.harness = enrol.harness /\ e.key = made /\ e.alone = enrol.alone
         /\ LET e == [enrol EXCEPT !.alone = FALSE] IN
              e \in Enrols /\ e.at = enrol.at /\ e.harness = enrol.harness /\ e.key = made /\ e.alone = FALSE
<1>1. enrol \in Enrols
  BY DEF EnrolInv, Enrols
<1> QED BY <1>1 DEF Enrols

(* An enrolment that is over, however it ended, leaves nothing to keep.    *)
LEMMA NoEnrolOK == ASSUME enrol' = NoEnrol PROVE EnrolInv'
<1>1. enrol'.at = "idle"
  BY DEF NoEnrol
<1> QED BY <1>1 DEF EnrolInv, Posted

LEMMA StartEnrolKeeps == ASSUME BoxInv, StartEnrol PROVE BoxInv'
<1>1. PICK h \in Harnesses, r \in BOOLEAN :
        enrol' = [at |-> "posting", harness |-> h, key |-> made + 1, replace |-> r, alone |-> TRUE]
  BY DEF StartEnrol
<1>2. /\ enrol.at = "idle" /\ made' = made + 1
      /\ UNCHANGED << identity, keyFile, registered, gateway, sound >>
  BY DEF StartEnrol, process
<1>3. made \in Nat \ {0} /\ registered \in [Harnesses -> Nat] /\ \A g \in Harnesses : registered[g] <= made
  BY DEF BoxInv, BoxOK
<1>4. \A g \in Harnesses : registered[g] < made + 1
  BY <1>3
<1>5. BoxOK'
  BY <1>2, <1>3, <1>4 DEF BoxInv, BoxOK
<1>6. EnrolInv'
  BY <1>1, <1>2, <1>4 DEF EnrolInv, Enrols, Posted
<1>7. GatewayInv'
  <2>1. gateway.at # "down" => gateway.since \in Nat /\ gateway.since <= made
    BY DEF BoxInv, GatewayInv
  <2>2. gateway.at # "down" => gateway.since < made + 1
    BY <1>3, <2>1
  <2> QED BY <1>2, <1>3, <2>2 DEF BoxInv, GatewayInv
<1>8. StandsInv'
  BY <1>2 DEF BoxInv, StandsInv
<1> QED BY <1>5, <1>6, <1>7, <1>8 DEF BoxInv

LEMMA PostKeeps == ASSUME BoxInv, Post PROVE BoxInv'
<1>1. /\ enrol.at = "posting" /\ UNCHANGED << identity, keyFile, made, gateway >>
  BY DEF Post, process
<1>2. /\ enrol.harness \in Harnesses /\ enrol.key = made /\ made \in Nat \ {0}
      /\ registered \in [Harnesses -> Nat] /\ \A h \in Harnesses : registered[h] <= made
  BY <1>1, EnrolFields DEF BoxInv, BoxOK
<1>3. CASE registered' = [registered EXCEPT ![enrol.harness] = enrol.key] /\ sound' = None
  <2>1. BoxOK'
    BY <1>1, <1>2, <1>3 DEF BoxOK
  <2>2. GatewayInv'
    <3>1. gateway.at # "down" => gateway.since < made
      BY <1>1 DEF BoxInv, GatewayInv
    <3> QED BY <1>1, <1>3, <3>1 DEF BoxInv, GatewayInv
  <2>3. StandsInv'
    BY <1>3 DEF StandsInv
  <2>4. EnrolInv'
    <3>1. CASE enrol' = NoEnrol
      BY <3>1, NoEnrolOK
    <3>2. CASE enrol' = [enrol EXCEPT !.at = IF enrol.replace THEN "unlinking" ELSE "creating"]
      <4>1. PICK p \in {"unlinking", "creating"} : enrol' = [enrol EXCEPT !.at = p]
        BY <3>2
      <4>2. enrol' \in Enrols /\ enrol'.at = p /\ enrol'.harness = enrol.harness
        BY <1>1, <4>1, EnrolFields DEF BoxInv, Posted
      <4>3. registered'[enrol'.harness] = enrol'.key
        BY <1>1, <1>2, <1>3, <4>1, <4>2, EnrolFields DEF BoxInv, Posted
      <4> QED BY <1>1, <1>3, <4>2, <4>3 DEF EnrolInv, Enrols, Posted
    <3> QED BY <1>1, <1>3, <3>1, <3>2 DEF Post, Reported
  <2> QED BY <2>1, <2>2, <2>3, <2>4 DEF BoxInv
<1>4. CASE Reported /\ UNCHANGED << registered, sound >>
  <2>1. enrol' = NoEnrol /\ enrol'.at = "idle"
    BY <1>4 DEF Reported, NoEnrol
  <2>2. EnrolInv'
    BY <2>1, NoEnrolOK
  <2>3. BoxOK' /\ StandsInv'
    BY <1>1, <1>4 DEF BoxInv, BoxOK, StandsInv
  <2>4. GatewayInv'
    BY <1>1, <1>4, <2>1 DEF BoxInv, GatewayInv
  <2> QED BY <2>2, <2>3, <2>4 DEF BoxInv
<1> QED BY <1>3, <1>4 DEF Post

(* While an enrolment whose key the relay has goes on, nothing is counted  *)
(* on, and only its own place, the files and the process may change.       *)
LEMMA PostedGoesOn ==
  ASSUME BoxInv, enrol.at \in Posted, NEW p \in Posted, enrol' = [enrol EXCEPT !.at = p],
         UNCHANGED << registered, made, gateway, sound >>,
         p \in {"truncating", "filling"} /\ enrol.alone => keyFile' = enrol.key
  PROVE  BoxInv'
<1>1. enrol.at # "idle" /\ sound = None /\ registered[enrol.harness] = enrol.key
  BY DEF BoxInv, EnrolInv, Posted
<1>2. /\ enrol.key = made /\ enrol' \in Enrols /\ enrol'.at = p /\ enrol'.harness = enrol.harness
      /\ enrol'.key = made /\ enrol'.alone = enrol.alone
  BY <1>1, EnrolFields DEF BoxInv
<1>3. BoxOK' /\ StandsInv'
  BY <1>1 DEF BoxInv, BoxOK, StandsInv
<1>4. EnrolInv'
  BY <1>1, <1>2 DEF EnrolInv, Enrols, Posted
<1>5. GatewayInv'
  BY <1>1 DEF BoxInv, GatewayInv
<1> QED BY <1>3, <1>4, <1>5 DEF BoxInv

LEMMA WritesKeep ==
  ASSUME BoxInv, UnlinkKey \/ CreateKey \/ WriteKey \/ TruncateIdentity PROVE BoxInv'
<1>1. CASE UnlinkKey
  <2>1. /\ enrol.at = "unlinking" /\ enrol' = [enrol EXCEPT !.at = "creating"]
        /\ UNCHANGED << registered, made, gateway, sound >>
    BY <1>1 DEF UnlinkKey, Enrolling, process
  <2> QED BY <2>1, PostedGoesOn DEF Posted
<1>2. CASE CreateKey
  <2>1. enrol.at = "creating" /\ UNCHANGED << identity, registered, made, gateway, sound >>
    BY <1>2 DEF CreateKey, process
  <2>2. CASE enrol' = [enrol EXCEPT !.at = "writing"]
    BY <2>1, <2>2, PostedGoesOn DEF Posted
  <2>3. CASE enrol' = NoEnrol /\ UNCHANGED keyFile
    <3>1. enrol'.at = "idle"
      BY <2>3 DEF NoEnrol
    <3>2. EnrolInv'
      BY <2>3, NoEnrolOK
    <3>3. BoxOK' /\ StandsInv' /\ GatewayInv'
      BY <2>1, <2>3, <3>1 DEF BoxInv, BoxOK, StandsInv, GatewayInv
    <3> QED BY <3>2, <3>3 DEF BoxInv
  <2> QED BY <1>2, <2>2, <2>3 DEF CreateKey, Reported
<1>3. CASE WriteKey
  <2>1. /\ enrol.at = "writing" /\ enrol' = [enrol EXCEPT !.at = "truncating"] /\ keyFile' = enrol.key
        /\ UNCHANGED << registered, made, gateway, sound >>
    BY <1>3 DEF WriteKey, Enrolling, process
  <2> QED BY <2>1, PostedGoesOn DEF Posted
<1>4. CASE TruncateIdentity
  <2>1. /\ enrol.at = "truncating" /\ enrol' = [enrol EXCEPT !.at = "filling"]
        /\ UNCHANGED << registered, made, gateway, sound, keyFile >>
    BY <1>4 DEF TruncateIdentity, Enrolling, process
  <2>2. enrol.alone => keyFile' = enrol.key
    BY <2>1 DEF BoxInv, EnrolInv
  <2> QED BY <2>1, <2>2, PostedGoesOn DEF Posted
<1> QED BY <1>1, <1>2, <1>3, <1>4

LEMMA FillIdentityKeeps == ASSUME BoxInv, FillIdentity PROVE BoxInv'
<1>1. /\ enrol.at = "filling" /\ identity' = enrol.harness /\ enrol' = NoEnrol
      /\ sound' = None \/ (enrol.alone /\ sound' = enrol.harness)
      /\ UNCHANGED << keyFile, registered, made, gateway >>
  BY DEF FillIdentity, Reported, process
<1>2. /\ enrol.harness \in Harnesses /\ enrol.key = made /\ made \in Nat \ {0}
      /\ registered[enrol.harness] = made /\ (enrol.alone => keyFile = made)
  BY <1>1, EnrolFields DEF BoxInv, BoxOK, EnrolInv, Posted
<1>3. BoxOK'
  BY <1>1, <1>2 DEF BoxInv, BoxOK
<1>4. EnrolInv'
  BY <1>1, NoEnrolOK
<1>5. GatewayInv'
  <2>1. enrol'.at = "idle"
    BY <1>1 DEF NoEnrol
  <2>2. gateway.at # "down" => gateway.since \in Nat /\ gateway.since < made
    BY <1>1 DEF BoxInv, GatewayInv
  <2>3. gateway.at # "down" => ~(sound' # None /\ gateway.since = registered[sound'])
    BY <1>1, <1>2, <2>2
  <2> QED BY <1>1, <2>1, <2>3 DEF BoxInv, GatewayInv
<1>6. StandsInv'
  BY <1>1, <1>2 DEF StandsInv, NoKey
<1> QED BY <1>3, <1>4, <1>5, <1>6 DEF BoxInv

LEMMA CutOffKeeps == ASSUME BoxInv, CutOff PROVE BoxInv'
<1>1. enrol' = NoEnrol /\ UNCHANGED << identity, keyFile, registered, made, gateway, sound >>
  BY DEF CutOff, Reported, process
<1>2. enrol'.at = "idle"
  BY <1>1 DEF NoEnrol
<1>3. EnrolInv'
  BY <1>1, NoEnrolOK
<1>4. BoxOK' /\ StandsInv' /\ GatewayInv'
  BY <1>1, <1>2 DEF BoxInv, BoxOK, StandsInv, GatewayInv
<1> QED BY <1>3, <1>4 DEF BoxInv

(* What only the gateway does.                                             *)
LEMMA ProcessKeeps ==
  ASSUME BoxInv, UNCHANGED << identity, keyFile, registered, enrol, made, sound >>, GatewayInv'
  PROVE  BoxInv'
<1>1. BoxOK' /\ StandsInv' /\ EnrolInv'
  BY DEF BoxInv, BoxOK, StandsInv, EnrolInv, Enrols
<1> QED BY <1>1 DEF BoxInv

LEMMA BootKeeps == ASSUME BoxInv, Boot PROVE BoxInv'
<1> DEFINE since == IF sound = None THEN NoKey ELSE registered[sound]
<1>1. /\ identity \in Harnesses /\ gateway' = [at |-> "loading", id |-> identity, since |-> since]
      /\ UNCHANGED << identity, keyFile, registered, enrol, made, sound >>
  BY DEF Boot, person
<1>2. /\ made \in Nat \ {0} /\ registered \in [Harnesses -> Nat]
      /\ \A h \in Harnesses : registered[h] <= made
      /\ sound # None => sound \in Harnesses /\ identity = sound /\ registered[sound] # NoKey
  BY DEF BoxInv, BoxOK, StandsInv
<1>3. since \in Nat /\ since <= made
  BY <1>2 DEF NoKey
<1>4. enrol.at # "idle" => since < made
  <2>1. CASE enrol.at = "posting"
    <3>1. enrol.key = made /\ \A h \in Harnesses : registered[h] < made
      BY <2>1, EnrolFields DEF BoxInv, EnrolInv
    <3> QED BY <1>2, <3>1 DEF NoKey
  <2>2. CASE enrol.at \in Posted
    <3>1. sound = None
      BY <2>2 DEF BoxInv, EnrolInv
    <3> QED BY <1>2, <3>1 DEF NoKey
  <2> QED BY <2>1, <2>2 DEF BoxInv, EnrolInv
<1> HIDE DEF since
<1>5. GatewayInv'
  BY <1>1, <1>2, <1>3, <1>4 DEF GatewayInv
<1> QED BY <1>1, <1>5, ProcessKeeps

LEMMA LoadKeyKeeps == ASSUME BoxInv, LoadKey PROVE BoxInv'
<1>1. /\ gateway.at = "loading" /\ UNCHANGED << identity, keyFile, registered, enrol, made, sound >>
  BY DEF LoadKey, person
<1>2. CASE gateway' = Down
  BY <1>1, <1>2, ProcessKeeps DEF GatewayInv, Down
<1>3. CASE gateway' = [at |-> "up", id |-> gateway.id, since |-> gateway.since, key |-> keyFile]
  <2>1. /\ gateway.since \in Nat /\ gateway.since <= made
        /\ enrol.at # "idle" => gateway.since < made
        /\ sound # None /\ gateway.since = registered[sound] =>
             gateway.id = sound /\ keyFile = registered[sound]
    BY <1>1 DEF BoxInv, GatewayInv, StandsInv
  <2>2. GatewayInv'
    BY <1>1, <1>3, <2>1 DEF GatewayInv
  <2> QED BY <1>1, <2>2, ProcessKeeps
<1> QED BY <1>2, <1>3 DEF LoadKey

(* The tether, a request that goes its way, the clock and the console.     *)
LEMMA BoxStays ==
  ASSUME BoxInv, UNCHANGED << identity, keyFile, registered, enrol, made, gateway, sound >>
  PROVE  BoxInv'
BY DEF BoxInv, BoxOK, StandsInv, EnrolInv, Enrols, GatewayInv

LEMMA DieKeepsBox == ASSUME BoxInv, Die PROVE BoxInv'
BY ProcessKeeps DEF Die, person, GatewayInv, Down

(* A deregistration.                                                       *)
LEMMA RemovesKeep ==
  ASSUME BoxInv, sound' = None, Disturbed, UNCHANGED << registered, made, gateway >>
  PROVE  BoxInv'
<1>1. BoxOK' /\ StandsInv'
  BY DEF BoxInv, BoxOK, StandsInv
<1>2. EnrolInv' /\ (enrol'.at = "idle" <=> enrol.at = "idle")
  <2>1. CASE enrol.at = "idle"
    <3>1. enrol' = enrol
      BY <2>1 DEF Disturbed
    <3> QED BY <2>1, <3>1 DEF EnrolInv, Posted
  <2>2. CASE enrol.at # "idle"
    <3>1. /\ enrol' \in Enrols /\ enrol'.at = enrol.at /\ enrol'.harness = enrol.harness
          /\ enrol'.key = enrol.key /\ enrol'.alone = FALSE
      BY <2>2, EnrolFields DEF Disturbed, BoxInv
    <3>2. EnrolInv'
      BY <2>2, <3>1 DEF BoxInv, EnrolInv, Enrols
    <3> QED BY <2>2, <3>1, <3>2
  <2> QED BY <2>1, <2>2
<1>3. GatewayInv'
  BY <1>2 DEF BoxInv, GatewayInv
<1> QED BY <1>1, <1>2, <1>3 DEF BoxInv

-----------------------------------------------------------------------------
(* The invariant.                                                          *)

LEMMA InitIInv == Init => IInv
<1> SUFFICES ASSUME Init PROVE IInv
  OBVIOUS
<1>1. Throttle \in Nat /\ VerifierInit
  BY VerifierAssumption DEF VerifierAssumption, Init
<1>2. ClockInv
  BY <1>1 DEF VerifierInit, ClockInv
<1>3. DOMAIN keys = {} /\ brought = {}
  BY <1>1 DEF VerifierInit
<1>4. KeysInv
  BY <1>3 DEF KeysInv
<1>5. ThreadsInv
  <2>1. thread = [t \in Threads |-> Idle] /\ \A t \in Threads : thread[t] = Idle
    BY <1>1 DEF VerifierInit
  <2> QED BY <2>1, IdleIsJob DEF ThreadsInv
<1>6. made = 1 /\ enrol.at = "idle" /\ gateway.at = "down"
  BY DEF Init, NoEnrol, Down
<1>7. EnrolInv /\ GatewayInv
  BY <1>6 DEF EnrolInv, GatewayInv, Posted
<1>8. BoxOK /\ StandsInv
  <2>1. CASE sound = None /\ registered = [h \in Harnesses |-> NoKey]
    BY <1>6, <2>1 DEF BoxOK, StandsInv, NoKey
  <2>2. ASSUME NEW h \in Harnesses, Before(h) PROVE BoxOK /\ StandsInv
    <3>1. /\ registered = [g \in Harnesses |-> IF g = h THEN 1 ELSE 0]
          /\ sound = None \/ (sound = h /\ identity = h /\ keyFile = 1)
      BY <2>2 DEF Before, NoKey
    <3> QED BY <1>6, <3>1 DEF BoxOK, StandsInv, NoKey
  <2> QED BY <2>1, <2>2 DEF Init
<1> QED BY <1>2, <1>4, <1>5, <1>7, <1>8 DEF IInv, VerifierInv, BoxInv

(* The enrolment and the gateway's own steps.                              *)
LEMMA BoxStepKeeps ==
  ASSUME IInv,
         \/ StartEnrol \/ Post \/ UnlinkKey \/ CreateKey \/ WriteKey \/ TruncateIdentity
         \/ FillIdentity \/ CutOff \/ Boot \/ LoadKey \/ Connect \/ Drop \/ Die
  PROVE  IInv'
<1>1. VerifierInv /\ BoxInv
  BY DEF IInv
<1>2. VerifierInv'
  <2>1. CASE Die
    BY <1>1, <2>1, DieKeeps DEF Die
  <2>2. CASE UNCHANGED verifier
    BY <1>1, <2>2, VerifierStays
  <2> QED BY <2>1, <2>2 DEF StartEnrol, Post, UnlinkKey, CreateKey, WriteKey, TruncateIdentity,
                            FillIdentity, CutOff, Boot, LoadKey, Connect, Drop
<1>3. CASE StartEnrol
  BY <1>1, <1>2, <1>3, StartEnrolKeeps DEF IInv
<1>4. CASE Post
  BY <1>1, <1>2, <1>4, PostKeeps DEF IInv
<1>5. CASE UnlinkKey \/ CreateKey \/ WriteKey \/ TruncateIdentity
  BY <1>1, <1>2, <1>5, WritesKeep DEF IInv
<1>6. CASE FillIdentity
  BY <1>1, <1>2, <1>6, FillIdentityKeeps DEF IInv
<1>7. CASE CutOff
  BY <1>1, <1>2, <1>7, CutOffKeeps DEF IInv
<1>8. CASE Boot
  BY <1>1, <1>2, <1>8, BootKeeps DEF IInv
<1>9. CASE LoadKey
  BY <1>1, <1>2, <1>9, LoadKeyKeeps DEF IInv
<1>10. CASE Connect \/ Drop
  <2>1. UNCHANGED << identity, keyFile, registered, enrol, made, gateway, sound >>
    BY <1>10 DEF Connect, Drop, person
  <2> QED BY <1>1, <1>2, <2>1, BoxStays DEF IInv
<1>11. CASE Die
  BY <1>1, <1>2, <1>11, DieKeepsBox DEF IInv
<1> QED BY <1>3, <1>4, <1>5, <1>6, <1>7, <1>8, <1>9, <1>10, <1>11

(* The workers' steps.                                                     *)
LEMMA WorkerStepKeeps ==
  ASSUME IInv, NEW t \in Threads,
         \/ Verify(t) /\ UNCHANGED Box
         \/ StopTether(t) \/ RemoveIdentity(t) \/ RemoveKey(t)
  PROVE  IInv'
<1>1. VerifierInv /\ BoxInv
  BY DEF IInv
<1>2. CASE Verify(t) /\ UNCHANGED Box
  <2>1. BoxInv'
    BY <1>1, <1>2, BoxStays DEF Box, person, process
  <2>2. CASE Arrive(t) \/ Lookup(t) \/ Fetch(t) \/ Store(t)
    BY <1>1, <2>1, <2>2, ArriveKeeps, LookupKeeps, FetchKeeps, StoreKeeps DEF IInv
  <2>3. CASE Decode(t) \/ Answer(t)
    <3>1. /\ UNCHANGED << now, published, served, keys, refreshed, brought >>
          /\ To(t, [at |-> "accepted"]) \/ To(t, Idle)
      BY <2>3 DEF Decode, Answer
    <3> QED BY <1>1, <2>1, <3>1, LastStepKeeps DEF IInv
  <2> QED BY <1>2, <2>2, <2>3 DEF Verify
<1>3. CASE StopTether(t)
  <2>1. /\ thread[t].at = "accepted" /\ Moved(t, "removing")
        /\ UNCHANGED << now, published, served, keys, refreshed, brought >>
        /\ UNCHANGED << identity, keyFile, registered, enrol, made, gateway, sound >>
    BY <1>3 DEF StopTether, At, person
  <2>2. VerifierInv'
    BY <1>1, <2>1, LastStepKeeps
  <2> QED BY <1>1, <2>1, <2>2, BoxStays DEF IInv
<1>4. CASE RemoveIdentity(t)
  <2>1. /\ thread[t].at = "removing" /\ Moved(t, "unlinking")
        /\ UNCHANGED << now, published, served, keys, refreshed, brought >>
        /\ sound' = None /\ Disturbed /\ UNCHANGED << registered, made, gateway >>
    BY <1>4 DEF RemoveIdentity, At, process
  <2>2. VerifierInv'
    BY <1>1, <2>1, LastStepKeeps
  <2> QED BY <1>1, <2>1, <2>2, RemovesKeep DEF IInv
<1>5. CASE RemoveKey(t)
  <2>1. /\ To(t, Idle) /\ UNCHANGED << now, published, served, keys, refreshed, brought >>
        /\ sound' = None /\ Disturbed /\ UNCHANGED << registered, made, gateway >>
    BY <1>5 DEF RemoveKey, process
  <2>2. VerifierInv'
    BY <1>1, <2>1, LastStepKeeps
  <2> QED BY <1>1, <2>1, <2>2, RemovesKeep DEF IInv
<1> QED BY <1>2, <1>3, <1>4, <1>5

LEMMA InvariantStep == IInv /\ [Next]_vars => IInv'
<1> SUFFICES ASSUME IInv, [Next]_vars PROVE IInv'
  OBVIOUS
<1>1. CASE \/ StartEnrol \/ Post \/ UnlinkKey \/ CreateKey \/ WriteKey \/ TruncateIdentity
           \/ FillIdentity \/ CutOff \/ Boot \/ LoadKey \/ Connect \/ Drop \/ Die
  BY <1>1, BoxStepKeeps
<1>2. CASE \E t \in Threads : \/ Verify(t) /\ UNCHANGED Box
                              \/ StopTether(t) \/ RemoveIdentity(t) \/ RemoveKey(t)
  BY <1>2, WorkerStepKeeps
<1>3. CASE (Tick \/ \E k \in Kids : Publish(k) \/ Withdraw(k)) /\ UNCHANGED Box
  BY <1>3, ConsoleKeeps, BoxStays DEF IInv, Box, person, process
<1>4. CASE UNCHANGED vars
  BY <1>4, VerifierStays, BoxStays DEF IInv, vars, person, process
<1> QED BY <1>1, <1>2, <1>3, <1>4 DEF Next

LEMMA InvariantHolds == Spec => []IInv
BY InitIInv, InvariantStep, PTL DEF Spec

-----------------------------------------------------------------------------
(* While the throttle refuses to ask the console again, the keys that its  *)
(* last answer brought are still kept.                                     *)
THEOREM RefreshStaysKept == Spec => []RefreshKept
<1>1. IInv => RefreshKept
  <2> SUFFICES ASSUME IInv, NEW t \in Threads, At(t, "lookup"), thread[t].kid \in brought,
                      thread[t].asked - refreshed < Throttle
               PROVE  thread[t].kid \in DOMAIN Pruned(thread[t].asked)
    BY DEF RefreshKept
  <2>1. thread[t].kid \in DOMAIN keys /\ keys[thread[t].kid] = refreshed
    BY DEF IInv, VerifierInv, KeysInv
  <2>2. thread[t] \in Jobs /\ thread[t].asked \in Nat /\ refreshed \in Nat
    BY JobFields DEF IInv, VerifierInv, ThreadsInv, ClockInv, At, Busy
  <2>3. thread[t].asked - refreshed <= MaxAge
    BY <2>2, VerifierAssumption DEF VerifierAssumption
  <2> QED BY <2>1, <2>3, PrunedKeys
<1> QED BY <1>1, InvariantHolds, PTL

(* An enrolment that returned stands: the files agree with the relay, and  *)
(* a gateway that has started since reads what it can connect with,        *)
(* whatever was cut off before.                                            *)
THEOREM EnrolmentsConnect == Spec => []EnrolledConnects
<1>1. IInv => EnrolledConnects
  BY DEF IInv, BoxInv, StandsInv, GatewayInv, EnrolledConnects
<1> QED BY <1>1, InvariantHolds, PTL

(* A key that the console withdrew lets nobody in once it is MaxAge ago.   *)
THEOREM WithdrawnKeysEnd == Spec => WithdrawnEnds
<1>1. IInv => \A t \in Threads : Accepts(t) => thread[t].asked <= served[thread[t].kid] + MaxAge
  BY DEF IInv, VerifierInv, ThreadsInv, JobOK, Accepts, At
<1>2. IInv /\ [Next]_vars =>
        [\A t \in Threads : Accepts(t) => thread[t].asked <= served[thread[t].kid] + MaxAge]_vars
  BY <1>1
<1> QED BY <1>2, InvariantHolds, PTL DEF Spec, WithdrawnEnds

=============================================================================
