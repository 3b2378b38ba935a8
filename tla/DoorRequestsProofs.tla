------------------------- MODULE DoorRequestsProofs -------------------------
(***************************************************************************)
(* Theorems about DoorRequests that hold for any requests, keys and bodies *)
(* and any number of restarts.                                             *)
(***************************************************************************)
EXTENDS DoorRequests, TLAPS

-----------------------------------------------------------------------------
(* The strengthening.                                                      *)

(* A request gets a job once, a value is returned only after the effect,   *)
(* and no job survives its process.                                        *)
JobsInv ==
  \A r \in Requests :
    /\ at[r] \in {"unsent", "checked"} => job[r] = "none"
    /\ job[r] = "acted" \/ result[r] = "ok" => r \in acted
    /\ ~up => job[r] \notin Alive

(* A running operation has a job that will report to it or, with the       *)
(* process down, was cut by its death; one that has ended has its verdict  *)
(* from a job that is over, unless a start of a process cut it short.      *)
VerdictInv ==
  \A r \in Calls :
    /\ operations[r] = "running" => IF up THEN r \in promoted /\ job[r] \in Alive ELSE r \in cut
    /\ operations[r] = "succeeded" => job[r] = "over" /\ result[r] = "ok"
    /\ operations[r] = "failed" => r \in cut \/ (job[r] = "over" /\ result[r] # "ok")

Final == {"ok", "problem", "ticket"}

(* A record belongs to a request that has been answered; and every request *)
(* answered under its key has the answer of the record, which a rollback   *)
(* can still take only if it is the request's own.                         *)
AnswersInv ==
  /\ \A k \in DOMAIN records : at[records[k]] = "answered"
  /\ \A r \in Requests \ swallowed :
       at[r] = "answered" /\ keyOf[r] # NoKey /\ reply[r].tag \in Final =>
         /\ keyOf[r] \in DOMAIN records
         /\ reply[r] = reply[records[keyOf[r]]]
         /\ records[keyOf[r]] \in pending => records[keyOf[r]] = r

IInv == TypeOK /\ JobsInv /\ VerdictInv /\ AnswersInv

LEMMA InvariantInit == Init => IInv
<1> SUFFICES ASSUME Init PROVE IInv
  OBVIOUS
<1>1. records = << >> /\ DOMAIN records = {} /\ pending = {}
  BY DEF Init
<1>2. RecordsOK
  BY <1>1 DEF RecordsOK
<1>3. /\ at \in [Requests -> Places] /\ reply \in [Requests -> [tag : Tags, of : Requests]]
      /\ job \in [Requests -> Jobs] /\ result \in [Requests -> Results]
      /\ operations \in [Requests -> States]
  BY DEF Init, Places, Tags, Jobs, Results, States, Says
<1>4. TypeOK
  BY <1>2, <1>3, RequestsAssumption DEF Init, TypeOK, RequestsAssumption
<1>5. JobsInv /\ VerdictInv
  BY DEF Init, JobsInv, VerdictInv, Calls
<1>6. AnswersInv
  BY <1>1 DEF Init, AnswersInv
<1> QED BY <1>4, <1>5, <1>6 DEF IInv

(* A request's own step: what it leaves alone keeps its part.              *)
LEMMA ArriveHolds ==
  ASSUME IInv, NEW r \in Requests, Arrive(r) PROVE IInv'
<1>1. /\ TypeOK /\ RecordsOK /\ JobsInv /\ VerdictInv /\ AnswersInv
      /\ at[r] = "unsent" /\ up
      /\ UNCHANGED << keyOf, bodyOf, up, job, result, promoted, operations, records,
                      pending, acted, cut, swallowed, restarts >>
  BY DEF IInv, TypeOK, Arrive, Pool, Table, Replays, Rest, Sent
<1>2. \/ at' = [at EXCEPT ![r] = "checked"] /\ reply' = reply
      \/ /\ at' = [at EXCEPT ![r] = "answered"]
         /\ keyOf[r] \in DOMAIN records /\ records[keyOf[r]] \notin pending
         /\ reply' = [reply EXCEPT ![r] =
                        IF bodyOf[records[keyOf[r]]] = bodyOf[r]
                          THEN reply[records[keyOf[r]]] ELSE Says("mismatch", r)]
  BY DEF Arrive, Goto, Answer
<1>3. RecordsOK'
  BY <1>1 DEF RecordsOK, LockFree
<1>4. \A k \in DOMAIN records : records[k] \in Requests /\ records[k] # r
  BY <1>1 DEF RecordsOK, AnswersInv
<1>5. at' \in [Requests -> Places] /\ reply' \in [Requests -> [tag : Tags, of : Requests]]
  <2>1. CASE reply' = reply
    BY <1>1, <1>2, <2>1 DEF TypeOK, Places
  <2>2. CASE reply' # reply
    <3>1. reply[records[keyOf[r]]] \in [tag : Tags, of : Requests]
      BY <1>1, <1>2, <1>4, <2>2 DEF TypeOK
    <3>2. Says("mismatch", r) \in [tag : Tags, of : Requests]
      BY DEF Says, Tags
    <3> QED BY <1>1, <1>2, <2>2, <3>1, <3>2 DEF TypeOK, Places
  <2> QED BY <2>1, <2>2
<1>6. TypeOK'
  BY <1>1, <1>3, <1>5 DEF TypeOK
<1>7. JobsInv'
  BY <1>1, <1>2 DEF JobsInv, TypeOK
<1>8. VerdictInv'
  BY <1>1 DEF VerdictInv, Calls
<1>9. AnswersInv'
  <2>1. \A k \in DOMAIN records : at'[records[k]] = "answered"
    BY <1>1, <1>2, <1>4 DEF AnswersInv, TypeOK
  <2>2. ASSUME NEW q \in Requests \ swallowed,
               at'[q] = "answered", keyOf[q] # NoKey, reply'[q].tag \in Final
        PROVE  /\ keyOf[q] \in DOMAIN records
               /\ reply'[q] = reply'[records[keyOf[q]]]
               /\ records[keyOf[q]] \in pending => records[keyOf[q]] = q
    <3>1. CASE q = r
      <4>1. at' = [at EXCEPT ![r] = "answered"]
        BY <1>1, <1>2, <2>2, <3>1 DEF TypeOK
      <4>2. /\ keyOf[r] \in DOMAIN records /\ records[keyOf[r]] \notin pending
            /\ records[keyOf[r]] # r /\ records[keyOf[r]] \in Requests
            /\ reply' = [reply EXCEPT ![r] =
                        IF bodyOf[records[keyOf[r]]] = bodyOf[r]
                          THEN reply[records[keyOf[r]]] ELSE Says("mismatch", r)]
        BY <1>1, <1>2, <1>4, <2>2, <3>1 DEF TypeOK
      <4>3. reply'[r] = reply[records[keyOf[r]]]
        BY <1>1, <2>2, <3>1, <4>2 DEF TypeOK, Says, Final
      <4> QED BY <1>1, <3>1, <4>2, <4>3 DEF TypeOK
    <3>2. CASE q # r
      <4>1. at[q] = "answered" /\ reply'[q] = reply[q]
        BY <1>1, <1>2, <2>2, <3>2 DEF TypeOK
      <4>2. /\ keyOf[q] \in DOMAIN records
            /\ reply[q] = reply[records[keyOf[q]]]
            /\ records[keyOf[q]] \in pending => records[keyOf[q]] = q
        BY <1>1, <2>2, <4>1 DEF AnswersInv
      <4>3. reply'[records[keyOf[q]]] = reply[records[keyOf[q]]]
        BY <1>1, <1>2, <1>4, <4>2 DEF TypeOK
      <4> QED BY <4>1, <4>2, <4>3
    <3> QED BY <3>1, <3>2
  <2> QED BY <1>1, <2>1, <2>2 DEF AnswersInv
<1> QED BY <1>6, <1>7, <1>8, <1>9 DEF IInv

(* The steps of a thread but the first and the last: no one has been       *)
(* answered for good, or only with what no record repeats.                 *)
LEMMA AnswersKeep ==
  ASSUME AnswersInv, RecordsOK, NEW r \in Requests, at[r] # "answered",
         at \in [Requests -> Places], reply \in [Requests -> [tag : Tags, of : Requests]],
         UNCHANGED << keyOf, records, pending, swallowed >>,
         \E place : at' = [at EXCEPT ![r] = place],
         \A q \in Requests : q # r => reply'[q] = reply[q],
         at'[r] = "answered" => reply'[r].tag \notin Final
  PROVE  AnswersInv'
<1>1. \A q \in Requests : q # r => at'[q] = at[q]
  OBVIOUS
<1>2. \A k \in DOMAIN records : records[k] \in Requests /\ records[k] # r
  BY DEF RecordsOK, AnswersInv
<1>3. \A k \in DOMAIN records : at'[records[k]] = "answered"
  BY <1>1, <1>2 DEF AnswersInv
<1>4. ASSUME NEW q \in Requests \ swallowed,
             at'[q] = "answered", keyOf[q] # NoKey, reply'[q].tag \in Final
      PROVE  /\ keyOf[q] \in DOMAIN records
             /\ reply'[q] = reply'[records[keyOf[q]]]
             /\ records[keyOf[q]] \in pending => records[keyOf[q]] = q
  <2>1. q # r /\ at[q] = "answered" /\ reply'[q] = reply[q]
    BY <1>1, <1>4
  <2>2. /\ keyOf[q] \in DOMAIN records
        /\ reply[q] = reply[records[keyOf[q]]]
        /\ records[keyOf[q]] \in pending => records[keyOf[q]] = q
    BY <1>4, <2>1 DEF AnswersInv
  <2> QED BY <1>2, <2>1, <2>2
<1> QED BY <1>3, <1>4 DEF AnswersInv

(* What Take and the refusal do: only the thread and its answer move.      *)
LEMMA SpeakHolds ==
  ASSUME IInv, NEW r \in Requests, at[r] \in {"checked", "waiting", "late"}, up,
         NEW place \in {"returned", "answered", "late"}, NEW answer \in [tag : Tags, of : Requests],
         at' = [at EXCEPT ![r] = place], reply' = [reply EXCEPT ![r] = answer],
         place = "answered" => answer.tag \notin Final,
         UNCHANGED << keyOf, bodyOf, up, job, result, promoted, operations, records,
                      pending, acted, cut, swallowed, restarts >>
  PROVE  IInv'
<1>1. TypeOK /\ RecordsOK /\ JobsInv /\ VerdictInv /\ AnswersInv
  BY DEF IInv, TypeOK
<1>2. RecordsOK'
  BY <1>1 DEF RecordsOK, LockFree
<1>3. TypeOK'
  BY <1>1, <1>2 DEF TypeOK, Places
<1>4. JobsInv' /\ VerdictInv'
  BY <1>1 DEF JobsInv, VerdictInv, TypeOK, Calls
<1>5. AnswersInv'
  <2>1. at \in [Requests -> Places] /\ reply \in [Requests -> [tag : Tags, of : Requests]]
    BY <1>1 DEF TypeOK
  <2>2. at'[r] = "answered" => reply'[r].tag \notin Final
    BY <2>1
  <2>3. \A q \in Requests : q # r => reply'[q] = reply[q]
    BY <2>1
  <2> QED BY <1>1, <2>1, <2>2, <2>3, AnswersKeep
<1> QED BY <1>3, <1>4, <1>5 DEF IInv

LEMMA TakeHolds ==
  ASSUME IInv, NEW r \in Requests, at[r] \in {"waiting", "late"}, up, Take(r),
         UNCHANGED << Replays, Rest >>
  PROVE  IInv'
<1>1. UNCHANGED << keyOf, bodyOf, up, job, result, promoted, operations, records,
                   pending, acted, cut, swallowed, restarts >>
  BY DEF Take, Pool, Table, Replays, Rest, Sent
<1>2. CASE result[r] = "raised"
  <2>1. /\ Says("error", r) \in [tag : Tags, of : Requests] /\ Says("error", r).tag \notin Final
        /\ at' = [at EXCEPT ![r] = "answered"] /\ reply' = [reply EXCEPT ![r] = Says("error", r)]
    BY <1>2 DEF Take, Answer, Says, Tags, Final
  <2> QED BY <1>1, <2>1, SpeakHolds
<1>3. CASE result[r] # "raised"
  <2>1. result[r] \in Results
    BY DEF IInv, TypeOK
  <2>2. /\ Says(result[r], r) \in [tag : Tags, of : Requests]
        /\ at' = [at EXCEPT ![r] = "returned"] /\ reply' = [reply EXCEPT ![r] = Says(result[r], r)]
    BY <1>3, <2>1 DEF Take, Goto, Says, Tags, Results
  <2> QED BY <1>1, <2>2, SpeakHolds
<1> QED BY <1>2, <1>3

LEMMA PromoteHolds ==
  ASSUME IInv, NEW r \in Requests, at[r] = "late", up, job[r] \in Working, Promote(r),
         UNCHANGED << Replays, Rest >>
  PROVE  IInv'
<1>1. TypeOK /\ RecordsOK /\ JobsInv /\ VerdictInv /\ AnswersInv
  BY DEF IInv, TypeOK
<1>2. /\ operations' = [operations EXCEPT ![r] = "running"] /\ promoted' = promoted \cup {r}
      /\ at' = [at EXCEPT ![r] = "returned"] /\ reply' = [reply EXCEPT ![r] = Says("ticket", r)]
      /\ UNCHANGED << keyOf, bodyOf, up, job, result, records, pending, acted, cut,
                      swallowed, restarts >>
  BY DEF Promote, Goto, Pool, Replays, Rest, Sent
<1>3. RecordsOK'
  BY <1>1, <1>2 DEF RecordsOK, LockFree
<1>4. TypeOK'
  <2>1. Says("ticket", r) \in [tag : Tags, of : Requests]
    BY DEF Says, Tags
  <2> QED BY <1>1, <1>2, <1>3, <2>1 DEF TypeOK, Places, States
<1>5. JobsInv'
  BY <1>1, <1>2 DEF JobsInv, TypeOK
<1>6. VerdictInv'
  BY <1>1, <1>2 DEF VerdictInv, TypeOK, Calls, Alive
<1>7. AnswersInv'
  <2>1. at \in [Requests -> Places] /\ reply \in [Requests -> [tag : Tags, of : Requests]]
    BY <1>1 DEF TypeOK
  <2>2. at'[r] # "answered" /\ \A q \in Requests : q # r => reply'[q] = reply[q]
    BY <1>2, <2>1
  <2> QED BY <1>1, <1>2, <2>1, <2>2, AnswersKeep
<1> QED BY <1>4, <1>5, <1>6, <1>7 DEF IInv

LEMMA ThreadHolds ==
  ASSUME IInv, NEW r \in Requests,
         Refuse(r) \/ Submit(r) \/ InTime(r) \/ TimeOut(r) \/ Decide(r)
  PROVE  IInv'
<1>1. TypeOK /\ RecordsOK /\ JobsInv /\ VerdictInv /\ AnswersInv
  BY DEF IInv, TypeOK
<1>2. at \in [Requests -> Places] /\ reply \in [Requests -> [tag : Tags, of : Requests]]
      /\ job \in [Requests -> Jobs]
  BY <1>1 DEF TypeOK
<1>3. CASE Refuse(r)
  <2>1. /\ Says("refused", r) \in [tag : Tags, of : Requests] /\ Says("refused", r).tag \notin Final
        /\ at' = [at EXCEPT ![r] = "answered"] /\ reply' = [reply EXCEPT ![r] = Says("refused", r)]
        /\ at[r] = "checked" /\ up
    BY <1>3 DEF Refuse, Answer, Says, Tags, Final
  <2>2. UNCHANGED << keyOf, bodyOf, up, job, result, promoted, operations, records,
                     pending, acted, cut, swallowed, restarts >>
    BY <1>3 DEF Refuse, Pool, Table, Replays, Rest, Sent
  <2> QED BY <2>1, <2>2, SpeakHolds
<1>4. CASE TimeOut(r)
  <2>1. /\ at[r] = "waiting" /\ up /\ at' = [at EXCEPT ![r] = "late"] /\ reply' = reply
        /\ UNCHANGED << keyOf, bodyOf, up, job, result, promoted, operations, records,
                        pending, acted, cut, swallowed, restarts >>
    BY <1>4 DEF TimeOut, Goto, Pool, Table, Replays, Rest, Sent
  <2>2. reply' = [reply EXCEPT ![r] = reply[r]] /\ reply[r] \in [tag : Tags, of : Requests]
    BY <1>2, <2>1
  <2> QED BY <2>1, <2>2, SpeakHolds
<1>5. CASE Submit(r)
  <2>1. /\ at[r] = "checked" /\ up /\ job[r] = "none"
        /\ at' = [at EXCEPT ![r] = "waiting"] /\ job' = [job EXCEPT ![r] = "running"]
        /\ UNCHANGED << keyOf, bodyOf, up, reply, result, promoted, operations, records,
                        pending, acted, cut, swallowed, restarts >>
    BY <1>1, <1>5 DEF Submit, Goto, Table, Replays, Rest, Sent, JobsInv
  <2>2. RecordsOK'
    BY <1>1, <1>2, <2>1 DEF RecordsOK, LockFree
  <2>3. TypeOK'
    BY <1>1, <2>1, <2>2 DEF TypeOK, Places, Jobs
  <2>4. JobsInv'
    BY <1>1, <1>2, <2>1 DEF JobsInv
  <2>5. VerdictInv'
    BY <1>1, <1>2, <2>1 DEF VerdictInv, Calls, Alive, Working
  <2>6. AnswersInv'
    BY <1>1, <1>2, <2>1, AnswersKeep
  <2> QED BY <2>3, <2>4, <2>5, <2>6 DEF IInv
<1>6. CASE InTime(r)
  BY <1>6, TakeHolds DEF InTime
<1>7. CASE Decide(r)
  BY <1>7, TakeHolds, PromoteHolds DEF Decide
<1> QED BY <1>3, <1>4, <1>5, <1>6, <1>7

(* The record is stored: the first under its key, and the answer's own.    *)
LEMMA StoreHolds ==
  ASSUME IInv, NEW r \in Requests, Store(r) PROVE IInv'
<1>1. /\ TypeOK /\ RecordsOK /\ JobsInv /\ VerdictInv /\ AnswersInv
      /\ at[r] = "returned" /\ up
      /\ at \in [Requests -> Places] /\ reply \in [Requests -> [tag : Tags, of : Requests]]
      /\ UNCHANGED << keyOf, bodyOf, up, job, result, promoted, operations,
                      acted, cut, swallowed, restarts >>
  BY DEF IInv, TypeOK, Store, Pool, Table, Rest, Sent
<1>2. at' = [at EXCEPT ![r] = "answered"]
  BY DEF Store, Goto, Answer
<1>3. /\ reply' \in [Requests -> [tag : Tags, of : Requests]]
      /\ \A q \in Requests : q # r => reply'[q] = reply[q]
  <2>1. reply' = reply \/ reply' = [reply EXCEPT ![r] = Says("error", r)]
    BY DEF Store, Answer
  <2>2. Says("error", r) \in [tag : Tags, of : Requests]
    BY DEF Says, Tags
  <2> QED BY <1>1, <2>1, <2>2
<1>4. JobsInv' /\ VerdictInv'
  BY <1>1, <1>2 DEF JobsInv, VerdictInv, Calls
<1>5. \A k \in DOMAIN records : records[k] \in Requests /\ records[k] # r
  BY <1>1 DEF RecordsOK, AnswersInv
<1>6. CASE records' = records /\ pending' = pending
  <2>1. RecordsOK'
    BY <1>1, <1>6 DEF RecordsOK, LockFree
  <2>2. TypeOK'
    BY <1>1, <1>2, <1>3, <2>1 DEF TypeOK, Places
  <2>3. AnswersInv'
    <3>1. CASE keyOf[r] = NoKey
      <4>1. \A k \in DOMAIN records : at'[records[k]] = "answered"
        BY <1>1, <1>2, <1>5 DEF AnswersInv
      <4>2. ASSUME NEW q \in Requests \ swallowed,
                   at'[q] = "answered", keyOf[q] # NoKey, reply'[q].tag \in Final
            PROVE  /\ keyOf[q] \in DOMAIN records
                   /\ reply'[q] = reply'[records[keyOf[q]]]
                   /\ records[keyOf[q]] \in pending => records[keyOf[q]] = q
        <5>1. q # r /\ at[q] = "answered" /\ reply'[q] = reply[q]
          BY <1>1, <1>2, <1>3, <3>1, <4>2
        <5>2. /\ keyOf[q] \in DOMAIN records
              /\ reply[q] = reply[records[keyOf[q]]]
              /\ records[keyOf[q]] \in pending => records[keyOf[q]] = q
          BY <1>1, <4>2, <5>1 DEF AnswersInv
        <5> QED BY <1>3, <1>5, <5>1, <5>2
      <4> QED BY <1>1, <1>6, <4>1, <4>2 DEF AnswersInv
    <3>2. CASE keyOf[r] # NoKey
      <4>1. keyOf[r] \in DOMAIN records => reply' = [reply EXCEPT ![r] = Says("error", r)]
        BY <3>2 DEF Store, Answer
      <4>2. keyOf[r] \in DOMAIN records
        <5>1. keyOf[r] \notin DOMAIN records => DOMAIN records' = DOMAIN records \cup {keyOf[r]}
          BY <3>2 DEF Store, Keep
        <5> QED BY <1>6, <5>1
      <4>3. reply'[r].tag \notin Final
        BY <1>1, <4>1, <4>2 DEF Says, Final
      <4> QED BY <1>1, <1>2, <1>3, <1>6, <4>3, AnswersKeep
    <3> QED BY <3>1, <3>2
  <2> QED BY <1>4, <2>2, <2>3 DEF IInv
<1>7. CASE ~(records' = records /\ pending' = pending)
  <2>1. keyOf[r] # NoKey /\ keyOf[r] \notin DOMAIN records /\ reply' = reply /\ Keep(r)
    BY <1>7 DEF Store
  <2>2. /\ DOMAIN records' = DOMAIN records \cup {keyOf[r]} /\ records'[keyOf[r]] = r
        /\ \A k \in DOMAIN records : records'[k] = records[k]
    BY <2>1 DEF Keep
  <2>3. pending' \subseteq pending \cup {r} /\ pending \subseteq pending'
        /\ (LockFree => pending' = pending)
    BY <2>1 DEF Keep
  <2>4. RecordsOK'
    <3>1. \A k \in DOMAIN records' : records'[k] \in Requests /\ keyOf'[records'[k]] = k /\ k # NoKey
      BY <1>1, <2>1, <2>2 DEF RecordsOK
    <3>2. pending' \subseteq {records'[k] : k \in DOMAIN records'}
      BY <1>1, <2>2, <2>3 DEF RecordsOK
    <3>3. pending' # {} => ~LockFree'
      BY <1>1, <2>3 DEF RecordsOK, LockFree
    <3> QED BY <3>1, <3>2, <3>3 DEF RecordsOK
  <2>5. TypeOK'
    BY <1>1, <1>2, <1>3, <2>4 DEF TypeOK, Places
  <2>6. AnswersInv'
    <3>1. \A k \in DOMAIN records' : at'[records'[k]] = "answered"
      BY <1>1, <1>2, <1>5, <2>2 DEF AnswersInv
    <3>2. ASSUME NEW q \in Requests \ swallowed,
                 at'[q] = "answered", keyOf[q] # NoKey, reply[q].tag \in Final
          PROVE  /\ keyOf[q] \in DOMAIN records'
                 /\ reply[q] = reply[records'[keyOf[q]]]
                 /\ records'[keyOf[q]] \in pending' => records'[keyOf[q]] = q
      <4>1. CASE q = r
        BY <2>2, <4>1
      <4>2. CASE q # r
        <5>1. at[q] = "answered"
          BY <1>1, <1>2, <3>2, <4>2
        <5>2. /\ keyOf[q] \in DOMAIN records
              /\ reply[q] = reply[records[keyOf[q]]]
              /\ records[keyOf[q]] \in pending => records[keyOf[q]] = q
          BY <1>1, <3>2, <5>1 DEF AnswersInv
        <5> QED BY <1>5, <2>2, <2>3, <5>2
      <4> QED BY <4>1, <4>2
    <3> QED BY <1>1, <2>1, <3>1, <3>2 DEF AnswersInv
  <2> QED BY <1>4, <2>5, <2>6 DEF IInv
<1> QED BY <1>6, <1>7

-----------------------------------------------------------------------------
(* The job of a request.                                                   *)

(* No thread moves, and every record stays or goes with its transaction.   *)
LEMMA RecordsStay ==
  ASSUME AnswersInv, RecordsOK, pending' \in {pending, {}},
         UNCHANGED << at, reply, keyOf, records, swallowed >>
  PROVE  AnswersInv'
BY DEF AnswersInv

LEMMA RecordsSwallowed ==
  ASSUME AnswersInv, RecordsOK, Swallow, reply' = reply, keyOf' = keyOf,
         \A r \in Requests : at'[r] = "answered" <=> at[r] = "answered"
  PROVE  AnswersInv' /\ RecordsOK' /\ pending' = {}
<1>1. /\ DOMAIN records' = {k \in DOMAIN records : records[k] \notin pending}
      /\ \A k \in DOMAIN records' : records'[k] = records[k]
      /\ swallowed' = swallowed \cup pending /\ pending' = {}
  BY DEF Swallow
<1>2. RecordsOK'
  BY <1>1 DEF RecordsOK
<1>3. \A k \in DOMAIN records' : at'[records'[k]] = "answered"
  BY <1>1 DEF AnswersInv, RecordsOK
<1>4. ASSUME NEW q \in Requests \ swallowed',
             at'[q] = "answered", keyOf[q] # NoKey, reply[q].tag \in Final
      PROVE  keyOf[q] \in DOMAIN records' /\ reply[q] = reply[records'[keyOf[q]]]
  <2>1. q \in Requests \ swallowed /\ q \notin pending /\ at[q] = "answered"
    BY <1>1, <1>4
  <2>2. /\ keyOf[q] \in DOMAIN records /\ reply[q] = reply[records[keyOf[q]]]
        /\ records[keyOf[q]] \in pending => records[keyOf[q]] = q
    BY <1>4, <2>1 DEF AnswersInv
  <2> QED BY <1>1, <2>1, <2>2
<1> QED BY <1>1, <1>2, <1>3, <1>4 DEF AnswersInv

LEMMA WorkerHolds ==
  ASSUME IInv, NEW r \in Requests, Worker(r) PROVE IInv'
<1>1. /\ TypeOK /\ RecordsOK /\ JobsInv /\ VerdictInv /\ AnswersInv
      /\ at \in [Requests -> Places] /\ job \in [Requests -> Jobs]
      /\ result \in [Requests -> Results] /\ operations \in [Requests -> States]
  BY DEF IInv, TypeOK
<1>2. CASE Open(r)
  <2>1. /\ up /\ job[r] = "running" /\ job' = [job EXCEPT ![r] = "writing"] /\ LockFree
        /\ UNCHANGED << keyOf, bodyOf, up, at, reply, result, promoted, operations, records,
                        pending, acted, cut, swallowed, restarts >>
    BY <1>2 DEF Open, Table, Replays, Rest, Sent
  <2>2. RecordsOK'
    BY <1>1, <2>1 DEF RecordsOK, LockFree
  <2>3. TypeOK'
    BY <1>1, <2>1, <2>2 DEF TypeOK, Jobs
  <2>4. JobsInv' /\ VerdictInv'
    BY <1>1, <2>1 DEF JobsInv, VerdictInv, Calls, Alive, Working
  <2>5. AnswersInv'
    BY <1>1, <2>1, RecordsStay
  <2> QED BY <2>3, <2>4, <2>5 DEF IInv
<1>3. CASE Commit(r)
  <2>1. /\ up /\ job[r] = "writing" /\ job' = [job EXCEPT ![r] = "acted"]
        /\ acted' = acted \cup {r} /\ pending' = {}
        /\ operations' = IF bodyOf[r] \in Upgrades THEN [operations EXCEPT ![r] = "running"]
                         ELSE operations
        /\ UNCHANGED << keyOf, bodyOf, up, at, reply, result, promoted, records,
                        cut, swallowed, restarts >>
    BY <1>3 DEF Commit, Sent
  <2>2. RecordsOK'
    BY <1>1, <2>1 DEF RecordsOK
  <2>3. operations' \in [Requests -> States] /\ \A q \in Calls : operations'[q] = operations[q]
    BY <1>1, <2>1 DEF States, Calls
  <2>4. TypeOK'
    BY <1>1, <2>1, <2>2, <2>3 DEF TypeOK, Jobs
  <2>5. JobsInv'
    BY <1>1, <2>1 DEF JobsInv
  <2>6. VerdictInv'
    BY <1>1, <2>1, <2>3 DEF VerdictInv, Calls, Alive, Working
  <2>7. AnswersInv'
    BY <1>1, <2>1, RecordsStay
  <2> QED BY <2>4, <2>5, <2>6, <2>7 DEF IInv
<1>4. CASE Rollback(r)
  <2>1. /\ up /\ job[r] = "writing" /\ job' = [job EXCEPT ![r] = "done"] /\ Swallow
        /\ UNCHANGED << keyOf, bodyOf, up, at, reply, promoted, operations, acted, cut, restarts >>
    BY <1>4 DEF Rollback, Table, Rest, Sent
  <2>2. PICK value \in {"raised", "problem"} : result' = [result EXCEPT ![r] = value]
    BY <1>4 DEF Rollback
  <2>3. AnswersInv' /\ RecordsOK' /\ pending' = {}
    BY <1>1, <2>1, RecordsSwallowed
  <2>4. swallowed' \subseteq Requests
    BY <1>1, <2>1 DEF Swallow, RecordsOK, TypeOK
  <2>5. TypeOK'
    BY <1>1, <2>1, <2>2, <2>3, <2>4 DEF TypeOK, Jobs, Results
  <2>6. JobsInv' /\ VerdictInv'
    BY <1>1, <2>1, <2>2 DEF JobsInv, VerdictInv, Calls, Alive, Working
  <2> QED BY <2>3, <2>5, <2>6 DEF IInv
<1>5. CASE Decline(r)
  <2>1. /\ up /\ job[r] = "writing" /\ job' = [job EXCEPT ![r] = "done"]
        /\ result' = [result EXCEPT ![r] = "problem"] /\ pending' = {}
        /\ UNCHANGED << keyOf, bodyOf, up, at, reply, promoted, operations, records,
                        acted, cut, swallowed, restarts >>
    BY <1>5 DEF Decline, Table, Rest, Sent
  <2>2. RecordsOK'
    BY <1>1, <2>1 DEF RecordsOK
  <2>3. TypeOK'
    BY <1>1, <2>1, <2>2 DEF TypeOK, Jobs, Results
  <2>4. JobsInv' /\ VerdictInv'
    BY <1>1, <2>1 DEF JobsInv, VerdictInv, Calls, Alive, Working
  <2>5. AnswersInv'
    BY <1>1, <2>1, RecordsStay
  <2> QED BY <2>3, <2>4, <2>5 DEF IInv
<1>6. CASE Finish(r)
  <2>1. /\ up /\ job[r] \in {"running", "acted"} /\ job' = [job EXCEPT ![r] = "done"]
        /\ UNCHANGED << keyOf, bodyOf, up, at, reply, promoted, operations, records,
                        pending, acted, cut, swallowed, restarts >>
    BY <1>6 DEF Finish, Table, Replays, Rest, Sent
  <2>2. PICK value \in {"raised", IF job[r] = "acted" THEN "ok" ELSE "problem"} :
          result' = [result EXCEPT ![r] = value]
    BY <1>6 DEF Finish
  <2>3. value \in Results /\ (value = "ok" => job[r] = "acted")
    BY <2>2 DEF Results
  <2>4. RecordsOK'
    BY <1>1, <2>1 DEF RecordsOK, LockFree
  <2>5. TypeOK'
    BY <1>1, <2>1, <2>2, <2>3, <2>4 DEF TypeOK, Jobs
  <2>6. JobsInv'
    BY <1>1, <2>1, <2>2, <2>3 DEF JobsInv
  <2>7. VerdictInv'
    BY <1>1, <2>1, <2>2 DEF VerdictInv, Calls, Alive, Working
  <2>8. AnswersInv'
    BY <1>1, <2>1, RecordsStay
  <2> QED BY <2>5, <2>6, <2>7, <2>8 DEF IInv
<1>7. CASE Notice(r)
  <2>1. /\ up /\ job[r] = "done"
        /\ job' = [job EXCEPT ![r] = IF r \in promoted THEN "reporting" ELSE "over"]
        /\ UNCHANGED << keyOf, bodyOf, up, at, reply, result, promoted, operations, records,
                        pending, acted, cut, swallowed, restarts >>
    BY <1>7 DEF Notice, Table, Replays, Rest, Sent
  <2>2. RecordsOK'
    BY <1>1, <2>1 DEF RecordsOK, LockFree
  <2>3. TypeOK'
    BY <1>1, <2>1, <2>2 DEF TypeOK, Jobs
  <2>4. JobsInv'
    BY <1>1, <2>1 DEF JobsInv
  <2>5. VerdictInv'
    BY <1>1, <2>1 DEF VerdictInv, Calls, Alive, Working
  <2>6. AnswersInv'
    BY <1>1, <2>1, RecordsStay
  <2> QED BY <2>3, <2>4, <2>5, <2>6 DEF IInv
<1>8. CASE Report(r)
  <2>1. /\ up /\ job[r] = "reporting" /\ job' = [job EXCEPT ![r] = "over"]
        /\ operations' = [operations EXCEPT ![r] =
                            IF result[r] = "ok" THEN "succeeded" ELSE "failed"]
        /\ UNCHANGED << keyOf, bodyOf, up, at, reply, result, promoted, records,
                        pending, acted, cut, swallowed, restarts >>
    BY <1>8 DEF Report, Replays, Rest, Sent
  <2>2. RecordsOK'
    BY <1>1, <2>1 DEF RecordsOK, LockFree
  <2>3. TypeOK'
    BY <1>1, <2>1, <2>2 DEF TypeOK, Jobs, States
  <2>4. JobsInv'
    BY <1>1, <2>1 DEF JobsInv
  <2>5. VerdictInv'
    BY <1>1, <2>1 DEF VerdictInv, Calls
  <2>6. AnswersInv'
    BY <1>1, <2>1, RecordsStay
  <2> QED BY <2>3, <2>4, <2>5, <2>6 DEF IInv
<1> QED BY <1>2, <1>3, <1>4, <1>5, <1>6, <1>7, <1>8 DEF Worker

-----------------------------------------------------------------------------
(* The process dies and is started again, or another one starts.           *)

LEMMA CrashHolds == ASSUME IInv, Crash PROVE IInv'
<1>1. /\ TypeOK /\ RecordsOK /\ JobsInv /\ VerdictInv /\ AnswersInv
      /\ at \in [Requests -> Places] /\ job \in [Requests -> Jobs]
  BY DEF IInv, TypeOK
<1>2. /\ up /\ up' = FALSE /\ restarts' = restarts + 1 /\ restarts < MaxRestarts
      /\ cut' = cut \cup {r \in Requests : job[r] \in Alive}
      /\ at' = [r \in Requests |->
              IF at[r] \in {"checked", "waiting", "late", "returned"} THEN "lost" ELSE at[r]]
      /\ job' = [r \in Requests |-> IF job[r] \in Alive THEN "over" ELSE job[r]]
      /\ promoted' = {} /\ Swallow
      /\ UNCHANGED << keyOf, bodyOf, reply, result, operations, acted >>
  BY DEF Crash, Sent
<1>3. AnswersInv' /\ RecordsOK' /\ pending' = {}
  <2>1. \A r \in Requests : at'[r] = "answered" <=> at[r] = "answered"
    BY <1>1, <1>2
  <2> QED BY <1>1, <1>2, <2>1, RecordsSwallowed
<1>4. at' \in [Requests -> Places] /\ job' \in [Requests -> Jobs]
  BY <1>1, <1>2 DEF Places, Jobs
<1>5. swallowed' \subseteq Requests
  BY <1>1, <1>2 DEF Swallow, RecordsOK, TypeOK
<1>6. restarts' \in 0..MaxRestarts
  BY <1>1, <1>2, RequestsAssumption DEF TypeOK, RequestsAssumption
<1>7. TypeOK'
  BY <1>1, <1>2, <1>3, <1>4, <1>5, <1>6 DEF TypeOK
<1>8. JobsInv'
  <2>1. SUFFICES ASSUME NEW r \in Requests
                 PROVE  /\ at'[r] \in {"unsent", "checked"} => job'[r] = "none"
                        /\ job'[r] = "acted" \/ result'[r] = "ok" => r \in acted'
                        /\ job'[r] \notin Alive
    BY DEF JobsInv
  <2>2. /\ at'[r] \in {"unsent", "checked"} => at[r] = "unsent"
        /\ job'[r] = IF job[r] \in Alive THEN "over" ELSE job[r]
    BY <1>2
  <2> QED BY <1>1, <1>2, <2>2 DEF JobsInv, Alive, Working
<1>9. VerdictInv'
  <2>1. SUFFICES ASSUME NEW r \in Calls
                 PROVE  /\ operations[r] = "running" => r \in cut'
                        /\ operations[r] = "succeeded" => job'[r] = "over" /\ result[r] = "ok"
                        /\ operations[r] = "failed" =>
                             r \in cut' \/ (job'[r] = "over" /\ result[r] # "ok")
    BY <1>2 DEF VerdictInv, Calls
  <2>2. r \in Requests /\ job'[r] = IF job[r] \in Alive THEN "over" ELSE job[r]
    BY <1>2 DEF Calls
  <2> QED BY <1>1, <1>2, <2>2 DEF VerdictInv
<1> QED BY <1>3, <1>7, <1>8, <1>9 DEF IInv

LEMMA ResolveHolds ==
  ASSUME operations \in [Requests -> States], Resolve
  PROVE  /\ operations' \in [Requests -> States]
         /\ \A r \in Calls :
              IF operations[r] = "running" THEN operations'[r] = "failed"
              ELSE operations'[r] = operations[r]
<1>1. PICK upgraded \in BOOLEAN :
        operations' = [r \in Requests |->
                     IF operations[r] # "running" THEN operations[r]
                     ELSE IF bodyOf[r] \in Upgrades /\ upgraded THEN "succeeded" ELSE "failed"]
  BY DEF Resolve
<1> QED BY <1>1 DEF States, Calls

LEMMA StartsHold == ASSUME IInv, Boot \/ OtherStart PROVE IInv'
<1>1. /\ TypeOK /\ RecordsOK /\ JobsInv /\ VerdictInv /\ AnswersInv
      /\ operations \in [Requests -> States]
  BY DEF IInv, TypeOK
<1>2. /\ Resolve /\ up' = TRUE /\ (up \/ cut' = cut)
      /\ cut' \in {cut, cut \cup {r \in Requests : operations[r] = "running"}}
      /\ up => cut' = cut \cup {r \in Requests : operations[r] = "running"}
      /\ restarts' \in 0..MaxRestarts
      /\ UNCHANGED << keyOf, bodyOf, at, reply, job, result, promoted, records, pending,
                      swallowed, acted >>
  <2>1. CASE Boot
    <3>1. restarts' = restarts /\ cut' = cut /\ ~up
      BY <2>1 DEF Boot
    <3> QED BY <1>1, <2>1, <3>1 DEF Boot, TypeOK, Pool, Replays, Sent
  <2>2. CASE OtherStart
    <3>1. restarts' = restarts + 1 /\ restarts < MaxRestarts /\ up /\ up' = up
      BY <2>2 DEF OtherStart
    <3>2. restarts' \in 0..MaxRestarts /\ up' = TRUE
      BY <1>1, <3>1, RequestsAssumption DEF TypeOK, RequestsAssumption
    <3> QED BY <2>2, <3>1, <3>2 DEF OtherStart, Pool, Replays, Sent
  <2> QED BY <2>1, <2>2
<1>3. /\ operations' \in [Requests -> States]
      /\ \A r \in Calls :
           IF operations[r] = "running" THEN operations'[r] = "failed"
           ELSE operations'[r] = operations[r]
  BY <1>1, <1>2, ResolveHolds
<1>4. RecordsOK'
  BY <1>1, <1>2 DEF RecordsOK, LockFree
<1>5. TypeOK'
  BY <1>1, <1>2, <1>3, <1>4 DEF TypeOK
<1>6. JobsInv'
  BY <1>1, <1>2 DEF JobsInv
<1>7. VerdictInv'
  <2>1. SUFFICES ASSUME NEW r \in Calls
                 PROVE  /\ operations'[r] # "running"
                        /\ operations'[r] = "succeeded" => job[r] = "over" /\ result[r] = "ok"
                        /\ operations'[r] = "failed" =>
                             r \in cut' \/ (job[r] = "over" /\ result[r] # "ok")
    BY <1>2 DEF VerdictInv, Calls
  <2>2. CASE operations[r] = "running"
    <3>1. r \in cut'
      BY <1>1, <1>2, <2>2 DEF VerdictInv, Calls
    <3> QED BY <1>3, <2>2, <3>1
  <2>3. CASE operations[r] # "running"
    BY <1>1, <1>2, <1>3, <2>3 DEF VerdictInv
  <2> QED BY <2>2, <2>3
<1>8. AnswersInv'
  BY <1>1, <1>2, RecordsStay
<1> QED BY <1>5, <1>6, <1>7, <1>8 DEF IInv

-----------------------------------------------------------------------------
(* The invariant, and what follows from it.                                *)

LEMMA InvariantStep == IInv /\ [Next]_vars => IInv'
<1> SUFFICES ASSUME IInv, [Next]_vars PROVE IInv'
  OBVIOUS
<1>1. ASSUME NEW r \in Requests,
             \/ Arrive(r) \/ Refuse(r) \/ Submit(r) \/ InTime(r) \/ TimeOut(r) \/ Decide(r)
             \/ Store(r) \/ Worker(r)
      PROVE  IInv'
  BY <1>1, ArriveHolds, ThreadHolds, StoreHolds, WorkerHolds
<1>2. CASE Crash \/ Boot \/ OtherStart
  BY <1>2, CrashHolds, StartsHold
<1>3. CASE UNCHANGED vars
  <2>1. TypeOK' /\ JobsInv' /\ VerdictInv'
    BY <1>3 DEF vars, IInv, TypeOK, RecordsOK, LockFree, JobsInv, VerdictInv, Calls
  <2>2. AnswersInv'
    BY <1>3 DEF vars, IInv, AnswersInv
  <2> QED BY <2>1, <2>2 DEF IInv
<1> QED BY <1>1, <1>2, <1>3 DEF Next

LEMMA InvariantHolds == Spec => []IInv
BY InvariantInit, InvariantStep, PTL DEF Spec

(* Every variable keeps its type, the records their keys and owners.       *)
THEOREM TypeCorrect == Spec => []TypeOK
<1>1. IInv => TypeOK
  BY DEF IInv
<1> QED BY <1>1, InvariantHolds, PTL

(* What an operation says of the work is true, however the timeout, the    *)
(* end of the job, deaths and starts of processes fall, for any number of  *)
(* requests.                                                               *)
THEOREM VerdictsAreTrue == Spec => []VerdictTrue
<1>1. IInv => VerdictTrue
  BY DEF IInv, JobsInv, VerdictInv, VerdictTrue, Calls
<1> QED BY <1>1, InvariantHolds, PTL

(* All requests with one key and one body get one answer, unless the       *)
(* record of one went with the transaction of a verb: for any number of    *)
(* requests under way at once.                                             *)
THEOREM AnswersAgree == Spec => []OneAnswer
<1>1. IInv => OneAnswer
  <2> SUFFICES ASSUME IInv, NEW q \in Requests \ swallowed, NEW r \in Requests \ swallowed,
                      keyOf[q] = keyOf[r], keyOf[q] # NoKey,
                      at[q] = "answered", at[r] = "answered",
                      {reply[q].tag, reply[r].tag} \subseteq Final
               PROVE  reply[q] = reply[r]
    BY DEF OneAnswer, Final
  <2>1. reply[q] = reply[records[keyOf[q]]] /\ reply[r] = reply[records[keyOf[r]]]
    BY DEF IInv, AnswersInv
  <2> QED BY <2>1
<1> QED BY <1>1, InvariantHolds, PTL

=============================================================================
