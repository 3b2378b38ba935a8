------------------------------ MODULE Requests ------------------------------
(***************************************************************************)
(* What the stores of memories, characters and settings share: requests of *)
(* the door and commands of the shell, which run in steps, each on a thread*)
(* or in a process of its own, and the change ledger their transactions    *)
(* write to (ledger.py).  A transaction is one step.                       *)
(***************************************************************************)
EXTENDS FiniteSets, Integers, TLC

CONSTANTS
  Workers,     \* threads and processes, each running one request at a time
  MaxRequests  \* bound of the model: requests and commands

ASSUME RequestsAssumption == MaxRequests \in Nat

VARIABLES
  job,       \* what each worker is doing
  requests,  \* requests so far
  minted,    \* ids make_id has made
  told       \* the last change the ledger tells of each id

clerk  == << job, requests >>
ledger == << minted, told >>

NoRow  == [id |-> 0]
NoJob  == [op |-> "none", at |-> "end"]

RequestsInit == job = [w \in Workers |-> NoJob] /\ requests = 0

(* Steps of a request: it is asked, goes on, and ends with what the caller *)
(* is told, which is for the reader.                                       *)
To(w, j)      == job' = [job EXCEPT ![w] = j] /\ UNCHANGED requests
Go(w, at)     == To(w, [job[w] EXCEPT !.at = at])
End(w, what)  == To(w, NoJob)
At(w, op, at) == job[w].op = op /\ job[w].at = at
Free(w)       == job[w] = NoJob /\ requests < MaxRequests
Ask(w, j)     == Free(w) /\ requests' = requests + 1 /\ job' = [job EXCEPT ![w] = j]
AskOnce(w, what) == Ask(w, NoJob)   \* a request of one step

(* record_change(): the row and its announcement are of one transaction.   *)
Change(kind, state, version) == [kind |-> kind, state |-> state, version |-> version]
Gone         == Change("deleted", "none", 0)
Tell(changes) == told' = changes @@ told

Crash(w) == job[w] # NoJob /\ To(w, NoJob)
=============================================================================
