---------------------------- MODULE DoorRequests ----------------------------
(***************************************************************************)
(* Writing requests at the door: the replay record of an Idempotency-Key   *)
(* (door/idempotency.py), the two seconds a call gets before it becomes an *)
(* operation (door/operations.py, run_bounded), and what a restart does    *)
(* with operations, in the order router._handle takes them (H19).          *)
(* Each request has a thread of the server and, once submitted, a job on   *)
(* the pool, which stays "running" until a worker takes it and its verb    *)
(* opens a transaction.  All write through one connection; an operation    *)
(* carries the request that started it.                                    *)
(***************************************************************************)
EXTENDS Integers, FiniteSets

CONSTANTS
  Requests,    \* requests a client sends, a retry being one of its own
  Keys,        \* Idempotency-Keys, an account's own
  NoKey,       \* a request without one
  Bodies,      \* what a request asks: method, path and body, as the fingerprint has them
  Upgrades,    \* those that ask harness.upgrade
  MaxRestarts  \* bound of the model: deaths of the process, and starts of another one

ASSUME RequestsAssumption ==
  IsFiniteSet(Requests) /\ Upgrades \subseteq Bodies /\ NoKey \notin Keys /\ MaxRestarts \in Nat

VARIABLES
  keyOf, bodyOf, \* what each request carries
  up,         \* whether the process serving the requests runs
  at,         \* where the thread of each request stands
  reply,      \* what its client was answered, and whose work that answer reports
  job,        \* its job on the pool
  result,     \* what the job's future holds
  promoted,   \* requests whose promoted_op is set
  operations, \* the operations table: state by request
  records,    \* door_idempotency: key to the request that stored it
  pending,    \* requests whose record is in the transaction a verb has open
  acted,      \* ghost: requests whose effect is committed
  cut,        \* ghost: work a death of the process cut, operations another one failed
  swallowed,  \* ghost: requests whose record went with that transaction
  restarts

vars == << keyOf, bodyOf, up, at, reply, job, result, promoted, operations,
           records, pending, acted, cut, swallowed, restarts >>

Tags    == {"none", "ok", "problem", "ticket", "refused", "mismatch", "error"}
Places  == {"unsent", "checked", "waiting", "late", "returned", "answered", "lost"}
Jobs    == {"none", "running", "writing", "acted", "done", "reporting", "over"}
Results == {"none", "ok", "problem", "raised"}
States  == {"none", "running", "succeeded", "failed"}

Says(tag, r) == [tag |-> tag, of |-> r]
Working == {"running", "writing", "acted"}
Alive   == Working \cup {"done", "reporting"}

Init ==
  /\ keyOf \in [Requests -> Keys \cup {NoKey}] /\ bodyOf \in [Requests -> Bodies]
  /\ up = TRUE
  /\ at = [r \in Requests |-> "unsent"] /\ reply = [r \in Requests |-> Says("none", r)]
  /\ job = [r \in Requests |-> "none"] /\ result = [r \in Requests |-> "none"]
  /\ promoted = {} /\ operations = [r \in Requests |-> "none"]
  /\ records = << >> /\ pending = {}
  /\ acted = {} /\ cut = {} /\ swallowed = {} /\ restarts = 0

Answer(r, answer) ==
  /\ at' = [at EXCEPT ![r] = "answered"]
  /\ reply' = [reply EXCEPT ![r] = answer]

Goto(r, place) == at' = [at EXCEPT ![r] = place]

Pool  == << job, result >>
Table == << promoted, operations >>
Replays == << records, pending, swallowed >>
Sent  == << keyOf, bodyOf >>
Rest  == << Sent, up, acted, cut, restarts >>

(* _WRITE_LOCK: no verb has a transaction open.                            *)
LockFree == \A r \in Requests : job[r] # "writing"

-----------------------------------------------------------------------------
(* The thread of a request.  replay: a record under the key answers it, or *)
(* refuses a different body.  A reader does not see a pending one.         *)
Arrive(r) ==
  /\ up /\ at[r] = "unsent"
  /\ IF keyOf[r] \in DOMAIN records /\ records[keyOf[r]] \notin pending
       THEN LET first == records[keyOf[r]] IN
            Answer(r, IF bodyOf[first] = bodyOf[r] THEN reply[first] ELSE Says("mismatch", r))
       ELSE Goto(r, "checked") /\ UNCHANGED reply
  /\ UNCHANGED << Pool, Table, Replays, Rest >>

(* An action in the wrong state, or without its capability: answered       *)
(* before any dispatch, and not recorded.                                  *)
Refuse(r) ==
  /\ up /\ at[r] = "checked"
  /\ Answer(r, Says("refused", r))
  /\ UNCHANGED << Pool, Table, Replays, Rest >>

Submit(r) ==
  /\ up /\ at[r] = "checked"
  /\ Goto(r, "waiting")
  /\ job' = [job EXCEPT ![r] = "running"]
  /\ UNCHANGED << reply, result, Table, Replays, Rest >>

(* What the future holds becomes the response; an exception goes up to     *)
(* handle, which answers 500 and records nothing.                          *)
Take(r) ==
  /\ IF result[r] = "raised"
       THEN Answer(r, Says("error", r))
       ELSE Goto(r, "returned") /\ reply' = [reply EXCEPT ![r] = Says(result[r], r)]
  /\ UNCHANGED << Pool, Table >>

InTime(r) ==
  /\ up /\ at[r] = "waiting" /\ job[r] \notin Working
  /\ Take(r)
  /\ UNCHANGED << Replays, Rest >>

TimeOut(r) ==
  /\ up /\ at[r] = "waiting" /\ job[r] \in Working
  /\ Goto(r, "late")
  /\ UNCHANGED << reply, Pool, Table, Replays, Rest >>

Promote(r) ==
  /\ LockFree
  /\ operations' = [operations EXCEPT ![r] = "running"]
  /\ promoted' = promoted \cup {r}
  /\ Goto(r, "returned")
  /\ reply' = [reply EXCEPT ![r] = Says("ticket", r)]
  /\ UNCHANGED Pool

(* The timeout branch, under the call's own lock.                          *)
Decide(r) ==
  /\ up /\ at[r] = "late"
  /\ IF job[r] \in Working THEN Promote(r) ELSE Take(r)
  /\ UNCHANGED << Replays, Rest >>

Keep(r) ==
  /\ records' = [k \in DOMAIN records \cup {keyOf[r]} |->
                   IF k = keyOf[r] THEN r ELSE records[k]]
  /\ pending' = IF LockFree THEN pending ELSE pending \cup {r}

\* Mutant of Store: INSERT OR REPLACE.
StoreOver(r) ==
  /\ up /\ at[r] = "returned"
  /\ Goto(r, "answered")
  /\ IF keyOf[r] = NoKey THEN UNCHANGED << records, pending >> ELSE Keep(r)
  /\ UNCHANGED << reply, swallowed, Pool, Table, Rest >>

(* idempotency.store, after the effect and in no transaction of its own: a *)
(* key stored meanwhile is an IntegrityError, hence a 500.  It takes no    *)
(* write lock, so on the one connection it joins a transaction a verb has  *)
(* open.                                                                   *)
Store(r) ==
  /\ up /\ at[r] = "returned"
  /\ IF keyOf[r] = NoKey THEN Goto(r, "answered") /\ UNCHANGED << reply, records, pending >>
     ELSE IF keyOf[r] \in DOMAIN records
       THEN Answer(r, Says("error", r)) /\ UNCHANGED << records, pending >>
       ELSE Goto(r, "answered") /\ Keep(r) /\ UNCHANGED reply
  /\ UNCHANGED << swallowed, Pool, Table, Rest >>

-----------------------------------------------------------------------------
(* The job of a request.  write_txn: BEGIN IMMEDIATE under _WRITE_LOCK.    *)
Open(r) ==
  /\ up /\ job[r] = "running" /\ LockFree
  /\ job' = [job EXCEPT ![r] = "writing"]
  /\ UNCHANGED << at, reply, result, Table, Replays, Rest >>

(* COMMIT.  The transaction of upgrade is start_operation.                 *)
Commit(r) ==
  /\ up /\ job[r] = "writing"
  /\ job' = [job EXCEPT ![r] = "acted"]
  /\ acted' = acted \cup {r}
  /\ operations' = IF bodyOf[r] \in Upgrades THEN [operations EXCEPT ![r] = "running"] ELSE operations
  /\ pending' = {}
  /\ UNCHANGED << at, reply, result, promoted, records, swallowed, Sent, up, cut, restarts >>

(* What is pending goes with the transaction.                              *)
Swallow ==
  /\ records' = [k \in {j \in DOMAIN records : records[j] \notin pending} |-> records[k]]
  /\ swallowed' = swallowed \cup pending
  /\ pending' = {}

(* ROLLBACK: the exception leaves the verb, or the verb makes a problem of *)
(* it (marketplace._claim_release).                                        *)
Rollback(r) ==
  /\ up /\ job[r] = "writing"
  /\ job' = [job EXCEPT ![r] = "done"]
  /\ \E value \in {"raised", "problem"} : result' = [result EXCEPT ![r] = value]
  /\ Swallow
  /\ UNCHANGED << at, reply, Table, Rest >>

(* A problem returned from inside the transaction, which commits nothing.  *)
Decline(r) ==
  /\ up /\ job[r] = "writing"
  /\ job' = [job EXCEPT ![r] = "done"]
  /\ result' = [result EXCEPT ![r] = "problem"]
  /\ pending' = {}
  /\ UNCHANGED << at, reply, Table, records, swallowed, Rest >>

(* The verb returns a value or a problem, or raises: with its effect done, *)
(* a value or an exception.                                                *)
Finish(r) ==
  /\ up /\ job[r] \in {"running", "acted"}
  /\ \E value \in {"raised", IF job[r] = "acted" THEN "ok" ELSE "problem"} :
       result' = [result EXCEPT ![r] = value]
  /\ job' = [job EXCEPT ![r] = "done"]
  /\ UNCHANGED << at, reply, Table, Replays, Rest >>

(* _on_done, under the call's lock: is there an operation to report to?    *)
Notice(r) ==
  /\ up /\ job[r] = "done"
  /\ job' = [job EXCEPT ![r] = IF r \in promoted THEN "reporting" ELSE "over"]
  /\ UNCHANGED << at, reply, result, Table, Replays, Rest >>

\* Mutant of Report: a returned problem counts as success.
ReportReturned(r) ==
  /\ up /\ job[r] = "reporting" /\ LockFree
  /\ job' = [job EXCEPT ![r] = "over"]
  /\ operations' = [operations EXCEPT ![r] =
                      IF result[r] = "raised" THEN "failed" ELSE "succeeded"]
  /\ UNCHANGED << at, reply, result, promoted, Replays, Rest >>

(* _transition, whatever state the row is in by now.                       *)
Report(r) ==
  /\ up /\ job[r] = "reporting" /\ LockFree
  /\ job' = [job EXCEPT ![r] = "over"]
  /\ operations' = [operations EXCEPT ![r] =
                      IF result[r] = "ok" THEN "succeeded" ELSE "failed"]
  /\ UNCHANGED << at, reply, result, promoted, Replays, Rest >>

-----------------------------------------------------------------------------
(* The process dies: its threads, futures and promoted_ops are gone.       *)
Crash ==
  /\ up /\ restarts < MaxRestarts
  /\ up' = FALSE /\ restarts' = restarts + 1
  /\ cut' = cut \cup {r \in Requests : job[r] \in Alive}
  /\ at' = [r \in Requests |->
              IF at[r] \in {"checked", "waiting", "late", "returned"} THEN "lost" ELSE at[r]]
  /\ job' = [r \in Requests |-> IF job[r] \in Alive THEN "over" ELSE job[r]]
  /\ promoted' = {}
  /\ Swallow
  /\ UNCHANGED << reply, result, operations, acted, Sent >>

(* resume_on_start: every running operation has failed, but an upgrade has *)
(* succeeded if the version is the one it was for.                         *)
Resolve ==
  \E upgraded \in BOOLEAN :
    operations' = [r \in Requests |->
                     IF operations[r] # "running" THEN operations[r]
                     ELSE IF bodyOf[r] \in Upgrades /\ upgraded THEN "succeeded" ELSE "failed"]

\* Mutant of Boot: does not look at operations.
BootOnly ==
  /\ ~up /\ up' = TRUE
  /\ UNCHANGED << at, reply, Pool, Table, Replays, acted, cut, restarts, Sent >>

Boot ==
  /\ ~up /\ up' = TRUE
  /\ Resolve
  /\ UNCHANGED << at, reply, Pool, promoted, Replays, acted, cut, restarts, Sent >>

(* The same, by another process (the gateway's tether, sadana door serve)  *)
(* whose context is built while this one runs.                             *)
OtherStart ==
  /\ up /\ LockFree /\ restarts < MaxRestarts
  /\ restarts' = restarts + 1
  /\ Resolve
  /\ cut' = cut \cup {r \in Requests : operations[r] = "running"}
  /\ UNCHANGED << at, reply, Pool, promoted, Replays, up, acted, Sent >>

Worker(r) ==
  Open(r) \/ Commit(r) \/ Rollback(r) \/ Decline(r) \/ Finish(r) \/ Notice(r) \/ Report(r)

Next ==
  \/ \E r \in Requests :
       \/ Arrive(r) \/ Refuse(r) \/ Submit(r) \/ InTime(r) \/ TimeOut(r) \/ Decide(r)
       \/ Store(r) \/ Worker(r)
  \/ Crash \/ Boot \/ OtherStart

(* A worker gets on with its job, the one that has the write lock too, a   *)
(* verb returns, and a process that died is started again.                 *)
Fairness == WF_vars(Boot) /\ \A r \in Requests : WF_vars(Worker(r))

Spec == Init /\ [][Next]_vars /\ Fairness

-----------------------------------------------------------------------------
Calls == {r \in Requests : bodyOf[r] \notin Upgrades}

RecordsOK ==
  /\ \A k \in DOMAIN records : records[k] \in Requests /\ keyOf[records[k]] = k /\ k # NoKey
  /\ pending \subseteq {records[k] : k \in DOMAIN records}
  /\ pending # {} => ~LockFree

TypeOK ==
  /\ keyOf \in [Requests -> Keys \cup {NoKey}] /\ bodyOf \in [Requests -> Bodies]
  /\ up \in BOOLEAN
  /\ at \in [Requests -> Places]
  /\ reply \in [Requests -> [tag : Tags, of : Requests]]
  /\ job \in [Requests -> Jobs] /\ result \in [Requests -> Results]
  /\ promoted \subseteq Requests
  /\ operations \in [Requests -> States]
  /\ RecordsOK
  /\ acted \subseteq Requests /\ cut \subseteq Requests /\ swallowed \subseteq Requests
  /\ restarts \in 0..MaxRestarts

(* What an operation says of the work is true: it runs only while a job    *)
(* will report to it, or the process is down and the next start will, so   *)
(* that the race between the timeout and the job's end leaves none behind; *)
(* it succeeded only if the effect is there, and failed only if the verb   *)
(* did or a process start found it running.                                *)
VerdictTrue ==
  \A r \in Calls :
    /\ up /\ operations[r] = "running" => r \in promoted /\ job[r] \in Alive
    /\ operations[r] = "succeeded" => r \in acted /\ result[r] = "ok"
    /\ operations[r] = "failed" => result[r] # "ok" \/ r \in cut

(* All requests with one key and one body get one answer, refusals and     *)
(* internal errors apart: two under way at once included, and whatever     *)
(* dies, unless the record of one went with the transaction of a verb.     *)
OneAnswer ==
  \A q, r \in Requests \ swallowed :
    /\ keyOf[q] = keyOf[r] /\ keyOf[q] # NoKey /\ bodyOf[q] = bodyOf[r]
    /\ at[q] = "answered" /\ at[r] = "answered"
    /\ {reply[q].tag, reply[r].tag} \subseteq {"ok", "problem", "ticket"}
    => reply[q] = reply[r]

(* An operation ends, through its job or the next start of the process.    *)
OperationEnds ==
  \A r \in Requests :
    operations[r] = "running" /\ bodyOf[r] \notin Upgrades ~> operations[r] # "running"

=============================================================================
