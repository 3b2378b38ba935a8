--------------------------- MODULE ApprovalsProofs ---------------------------
(***************************************************************************)
(* Theorems about Approvals that hold for any number of requests at the    *)
(* door, of parks and of deaths of the process.                            *)
(***************************************************************************)
EXTENDS Approvals, FiniteSetTheorems, SequenceTheorems, TLAPS

-----------------------------------------------------------------------------
(* The inductive invariant.                                                *)

(* Every row asks about a park that was written, and a decided row never   *)
(* about the one outstanding.  Rows are not removed, so a row that was due *)
(* is still there when the scheduler comes to it.                          *)
RowsInv ==
  /\ dueList \subseteq DOMAIN rows
  /\ Len(rows) <= parks /\ pause.park <= parks
  /\ \A i \in DOMAIN rows : rows[i].park <= parks
  /\ \A i \in DOMAIN rows : ~Waiting(i) => rows[i].park # pause.park

(* Who is past the lock holds it, so no two threads walk at once.          *)
LockInv ==
  /\ \A t \in Threads : work[t].at \notin {"idle", "checked"} <=> lock = t
  /\ \A t \in Threads : work[t].at \in {"turn", "asked", "resumed"} => t = "chat"
  /\ \A t \in Threads : work[t].at = "checked" => t \in Clients

(* Who walks found a pause that fits the decision, and it is still there.  *)
WalkInv ==
  \A t \in Threads : work[t].at \in {"walking", "walked"} =>
    /\ Fits(work[t].decision)
    /\ t = "tick" => work[t].decision = "decline"

(* The park outstanding has not run, unless the thread that carried it on  *)
(* has its decision still to record, or a crash cut that thread off.       *)
RanInv ==
  /\ \A p \in 1..MaxParks : p > parks => ran[p] = 0
  /\ pause.park # 0 /\ ran[pause.park] # 0 /\ pause.park \notin torn =>
       /\ ran[pause.park] = 1
       /\ \E t \in Threads : work[t].at = "walked" /\ work[t].decision # "decline"
  /\ RunsAsDecided

IInv == TypeOK /\ RowsInv /\ PauseHasApproval /\ LockInv /\ WalkInv /\ RanInv

-----------------------------------------------------------------------------
(* The rows of a conversation.                                             *)

Row == [park : 1..MaxParks, kind : Kinds, state : States, due : BOOLEAN]

(* mark_approval_decided keeps the decided rows as they are and leaves no  *)
(* row waiting.                                                            *)
LEMMA DecidedRows ==
  ASSUME NEW rs \in Seq(Row), NEW state \in States \ {"waiting"}
  PROVE  /\ Decided(rs, state) \in Seq(Row)
         /\ DOMAIN Decided(rs, state) = DOMAIN rs
         /\ Len(Decided(rs, state)) = Len(rs)
         /\ \A i \in DOMAIN rs :
              IF rs[i].state = "waiting"
                THEN /\ Decided(rs, state)[i].park = rs[i].park
                     /\ Decided(rs, state)[i].kind = rs[i].kind
                     /\ Decided(rs, state)[i].state = state
                ELSE Decided(rs, state)[i] = rs[i]
<1> DEFINE decided == Decided(rs, state)
<1>1. /\ DOMAIN decided = DOMAIN rs
      /\ \A i \in DOMAIN rs :
           decided[i] = IF rs[i].state = "waiting" THEN [rs[i] EXCEPT !.state = state] ELSE rs[i]
  BY DEF Decided
<1>2. Len(rs) \in Nat /\ DOMAIN rs = 1..Len(rs)
  BY LenProperties
<1>3. \A i \in DOMAIN rs : rs[i] \in Row
  BY <1>2, ElementOfSeq
<1>4. ASSUME NEW i \in DOMAIN rs
      PROVE  /\ decided[i] \in Row
             /\ IF rs[i].state = "waiting"
                  THEN /\ decided[i].park = rs[i].park /\ decided[i].kind = rs[i].kind
                       /\ decided[i].state = state
                  ELSE decided[i] = rs[i]
  <2>1. rs[i] \in Row
    BY <1>3
  <2>2. decided[i] = IF rs[i].state = "waiting" THEN [rs[i] EXCEPT !.state = state] ELSE rs[i]
    BY <1>1
  <2> HIDE DEF decided
  <2> QED BY <2>1, <2>2 DEF Row
<1>5. decided \in Seq(Row) /\ Len(decided) = Len(rs)
  <2>1. decided \in [1..Len(rs) -> Row]
    BY <1>1, <1>2, <1>4 DEF Decided
  <2> HIDE DEF decided
  <2>2. decided \in Seq(Row)
    BY <1>2, <2>1, SeqDef
  <2> QED BY <1>2, <2>1, <2>2, LenProperties
<1> QED BY <1>1, <1>4, <1>5

(* _write_pause_c keeps the decided rows as they are, and the one row it   *)
(* leaves waiting asks about the new park.                                 *)
LEMMA ParkedRows ==
  ASSUME NEW rs \in Seq(Row), NEW p \in 1..MaxParks, NEW kind \in Kinds,
         \A i, j \in DOMAIN rs : rs[i].state = "waiting" /\ rs[j].state = "waiting" => i = j
  PROVE  /\ Parked(rs, p, kind) \in Seq(Row)
         /\ Len(Parked(rs, p, kind)) \in Len(rs)..(Len(rs) + 1)
         /\ \A i \in DOMAIN rs : rs[i].state # "waiting" =>
              i \in DOMAIN Parked(rs, p, kind) /\ Parked(rs, p, kind)[i] = rs[i]
         /\ \A i \in DOMAIN Parked(rs, p, kind) :
              \/ Parked(rs, p, kind)[i] = NewRow(p, kind)
              \/ /\ i \in DOMAIN rs /\ rs[i].state # "waiting"
                 /\ Parked(rs, p, kind)[i] = rs[i]
         /\ \E i \in DOMAIN Parked(rs, p, kind) :
              /\ Parked(rs, p, kind)[i] = NewRow(p, kind)
              /\ \A j \in DOMAIN Parked(rs, p, kind) \ {i} :
                   Parked(rs, p, kind)[j].state # "waiting"
<1> DEFINE parked == Parked(rs, p, kind)
           new == NewRow(p, kind)
<1>1. new \in Row /\ new.state = "waiting"
  BY DEF NewRow, Row, States
<1>2. Len(rs) \in Nat /\ DOMAIN rs = 1..Len(rs)
  BY LenProperties
<1>3. \A i \in DOMAIN rs : rs[i] \in Row
  BY <1>2, ElementOfSeq
<1>4. CASE \E i \in DOMAIN rs : rs[i].state = "waiting"
  <2>1. PICK i \in DOMAIN rs : rs[i].state = "waiting"
    BY <1>4
  <2>2. parked = [k \in DOMAIN rs |-> IF rs[k].state = "waiting" THEN new ELSE rs[k]]
    BY <1>4 DEF Parked
  <2> HIDE DEF parked, new
  <2>3. /\ DOMAIN parked = DOMAIN rs
        /\ \A k \in DOMAIN rs : rs[k].state = "waiting" => parked[k] = new
        /\ \A k \in DOMAIN rs : rs[k].state # "waiting" => parked[k] = rs[k]
    BY <2>2
  <2>4. parked \in [1..Len(rs) -> Row]
    BY <1>1, <1>2, <1>3, <2>2
  <2>5. parked \in Seq(Row)
    BY <1>2, <2>4, SeqDef
  <2>6. Len(parked) = Len(rs)
    BY <1>2, <2>4, <2>5, LenProperties
  <2>7. \A j \in DOMAIN parked \ {i} : parked[j].state # "waiting"
    BY <2>1, <2>3
  <2>8. Len(parked) \in Len(rs)..(Len(rs) + 1)
    BY <1>2, <2>6
  <2> QED BY <2>1, <2>3, <2>5, <2>7, <2>8 DEF parked, new
<1>5. CASE ~ \E i \in DOMAIN rs : rs[i].state = "waiting"
  <2>1. parked = Append(rs, new)
    BY <1>5 DEF Parked
  <2> HIDE DEF parked, new
  <2>2. /\ parked \in Seq(Row) /\ Len(parked) = Len(rs) + 1
        /\ \A k \in 1..Len(rs) : parked[k] = rs[k]
        /\ parked[Len(rs) + 1] = new
    BY <1>1, <1>2, <2>1, AppendProperties
  <2>3. DOMAIN parked = 1..(Len(rs) + 1)
    BY <2>2, LenProperties
  <2>4. \A k \in DOMAIN parked : k = Len(rs) + 1 \/ k \in DOMAIN rs
    BY <1>2, <2>3
  <2>5. \A j \in DOMAIN parked \ {Len(rs) + 1} : parked[j].state # "waiting"
    BY <1>2, <1>5, <2>2, <2>4
  <2>6. Len(rs) + 1 \in DOMAIN parked
    BY <1>2, <2>3
  <2>7. \A k \in DOMAIN rs : k \in DOMAIN parked /\ parked[k] = rs[k]
    BY <1>2, <2>2, <2>3
  <2>8. \A k \in DOMAIN parked :
          parked[k] = new \/ (k \in DOMAIN rs /\ rs[k].state # "waiting" /\ parked[k] = rs[k])
    BY <1>2, <1>5, <2>2, <2>4
  <2>9. Len(parked) \in Len(rs)..(Len(rs) + 1)
    BY <1>2, <2>2
  <2>10. \E k \in DOMAIN parked :
           parked[k] = new /\ \A j \in DOMAIN parked \ {k} : parked[j].state # "waiting"
    BY <2>2, <2>5, <2>6
  <2>11. parked \in Seq(Row)
    BY <2>2
  <2> QED BY <1>5, <2>7, <2>8, <2>9, <2>10, <2>11 DEF parked, new
<1> QED BY <1>4, <1>5

(* At most one row waits.                                                  *)
LEMMA OneWaiting ==
  ASSUME PauseHasApproval
  PROVE  \A i, j \in DOMAIN rows : Waiting(i) /\ Waiting(j) => i = j
<1>1. CASE pause.park = 0
  BY <1>1 DEF PauseHasApproval
<1>2. CASE pause.park # 0
  <2>1. PICK i \in DOMAIN rows : \A j \in DOMAIN rows \ {i} : ~Waiting(j)
    BY <1>2 DEF PauseHasApproval
  <2> QED BY <2>1
<1> QED BY <1>1, <1>2

-----------------------------------------------------------------------------
(* What the actions have in common.                                        *)

LEMMA RowsBounded ==
  ASSUME IInv
  PROVE  DOMAIN rows \subseteq 1..MaxParks
<1>1. DOMAIN rows = 1..Len(rows) /\ Len(rows) \in Nat
  BY LenProperties DEF IInv, TypeOK, TablesOK
<1>2. Len(rows) <= MaxParks
  BY <1>1, BoundsAssumption DEF IInv, RowsInv, TypeOK, TablesOK
<1> QED BY <1>1, <1>2, BoundsAssumption

LEMMA RowsTyped ==
  ASSUME IInv
  PROVE  \A i \in DOMAIN rows : rows[i].park \in 1..MaxParks
<1>1. rows \in Seq(Row)
  BY DEF IInv, TypeOK, TablesOK, Row
<1>2. \A i \in DOMAIN rows : rows[i] \in Row
  BY <1>1, ElementOfSeq, LenProperties
<1> QED BY <1>2 DEF Row

(* A step that leaves the tables, the ghosts and every thread alone.       *)
LEMMA StepAside ==
  ASSUME IInv, UNCHANGED << Tables, Ghosts, lock, work >>,
         open' \in BOOLEAN, refused' \in BOOLEAN, dueList' \subseteq DOMAIN rows
  PROVE  IInv'
<1> USE DEF IInv, Tables, Ghosts
<1>1. TypeOK'
  BY RowsBounded DEF TypeOK, TablesOK, ThreadsOK, GhostsOK
<1>2. RowsInv' /\ PauseHasApproval'
  BY DEF RowsInv, PauseHasApproval, Waiting
<1>3. LockInv' /\ WalkInv'
  BY DEF LockInv, WalkInv, Fits
<1>4. RanInv'
  BY DEF RanInv, RunsAsDecided, RunsOnce, DeclinedNeverRan
<1> QED BY <1>1, <1>2, <1>3, <1>4

(* One thread goes on with its job, taking or giving back the lock.        *)
LEMMA StepOn ==
  ASSUME IInv, UNCHANGED << Tables, Ghosts >>,
         open' \in BOOLEAN, refused' \in BOOLEAN, dueList' \subseteq DOMAIN rows,
         NEW t \in Threads, NEW job \in Jobs, Goto(t, job),
         work[t].at # "walked",
         job.at \notin {"idle", "checked"} => lock \in {"free", t} /\ lock' = t,
         job.at \in {"idle", "checked"} => lock' = IF lock = t THEN "free" ELSE lock,
         job.at \in {"turn", "asked", "resumed"} => t = "chat",
         job.at = "checked" => t \in Clients,
         job.at \in {"walking", "walked"} =>
           Fits(job.decision) /\ (t = "tick" => job.decision = "decline")
  PROVE  IInv'
<1>1. /\ work'[t] = job
      /\ \A u \in Threads \ {t} : work'[u] = work[u]
      /\ work' \in [Threads -> Jobs]
  BY DEF Goto, IInv, TypeOK, ThreadsOK
<1>2. "free" \notin Threads
  BY ClientsAssumption DEF Threads
<1>3. TypeOK'
  <2>1. TablesOK' /\ GhostsOK'
    BY DEF IInv, TypeOK, TablesOK, GhostsOK, Tables, Ghosts
  <2>2. lock' \in Threads \cup {"free"} /\ dueList' \subseteq 1..MaxParks
    BY RowsBounded DEF IInv, TypeOK, ThreadsOK
  <2> QED BY <1>1, <2>1, <2>2 DEF TypeOK, ThreadsOK
<1>4. RowsInv' /\ PauseHasApproval'
  BY DEF IInv, RowsInv, PauseHasApproval, Waiting, Tables
<1>5. LockInv'
  <2>1. ASSUME NEW u \in Threads
        PROVE  work'[u].at \notin {"idle", "checked"} <=> lock' = u
    BY <1>1, <1>2 DEF IInv, LockInv
  <2>2. ASSUME NEW u \in Threads
        PROVE  /\ work'[u].at \in {"turn", "asked", "resumed"} => u = "chat"
               /\ work'[u].at = "checked" => u \in Clients
    BY <1>1 DEF IInv, LockInv
  <2> QED BY <2>1, <2>2 DEF LockInv
<1>6. WalkInv'
  <2>1. pause' = pause
    BY DEF Tables
  <2>2. ASSUME NEW u \in Threads, work'[u].at \in {"walking", "walked"}
        PROVE  Fits(work'[u].decision) /\ (u = "tick" => work'[u].decision = "decline")
    BY <1>1, <2>2 DEF IInv, WalkInv
  <2> QED BY <2>1, <2>2 DEF WalkInv, Fits
<1>7. RanInv'
  <2>1. \A u \in Threads : work[u].at = "walked" => work'[u] = work[u]
    BY <1>1
  <2>2. RunsAsDecided'
    BY DEF IInv, RanInv, RunsAsDecided, RunsOnce, DeclinedNeverRan, Tables, Ghosts
  <2> QED BY <2>1, <2>2 DEF IInv, RanInv, Tables, Ghosts
<1> QED BY <1>3, <1>4, <1>5, <1>6, <1>7 DEF IInv

(* What the rows a park or a decision is written over must say already.    *)
Told(rs) ==
  /\ rs \in Seq(Row) /\ DOMAIN rs = DOMAIN rows /\ Len(rs) = Len(rows)
  /\ \A i \in DOMAIN rs : rs[i].park = rows[i].park
  /\ \A i, j \in DOMAIN rs : rs[i].state = "waiting" /\ rs[j].state = "waiting" => i = j
  /\ \A i \in DOMAIN rs :
       rs[i].kind = "call" /\ rs[i].state \in {"declined", "expired"}
         => ran[rs[i].park] = 0 \/ rs[i].park \in torn

(* Afterwards nobody walks, and no row that was due is forgotten.          *)
Ashore ==
  /\ ThreadsOK' /\ LockInv' /\ open' \in BOOLEAN /\ refused' \in BOOLEAN
  /\ \A t \in Threads : work'[t].at \notin {"walking", "walked"}
  /\ UNCHANGED << dueList, Ghosts >>

(* Writing a park down.                                                    *)
LEMMA StepToPark ==
  ASSUME IInv, NEW rs, Told(rs), NEW kind \in Kinds, WritePause(rs, kind), Ashore
  PROVE  IInv'
<1> DEFINE new == NewRow(parks + 1, kind)
<1>1. /\ parks \in Nat /\ parks + 1 \in 1..MaxParks
      /\ parks' = parks + 1 /\ pause' = [park |-> parks + 1, kind |-> kind]
      /\ rows' = Parked(rs, parks + 1, kind)
  BY BoundsAssumption DEF WritePause, IInv, TypeOK, TablesOK
<1>2. /\ new.park = parks + 1 /\ new.kind = kind /\ new.state = "waiting"
  BY DEF NewRow
<1>3. /\ rows' \in Seq(Row) /\ Len(rows') \in Len(rs)..(Len(rs) + 1)
      /\ \A i \in DOMAIN rows' :
           rows'[i] = new \/ (i \in DOMAIN rs /\ rs[i].state # "waiting" /\ rows'[i] = rs[i])
      /\ \E i \in DOMAIN rows' :
           rows'[i] = new /\ \A j \in DOMAIN rows' \ {i} : rows'[j].state # "waiting"
  <2>1. /\ rs \in Seq(Row)
        /\ \A i, j \in DOMAIN rs : rs[i].state = "waiting" /\ rs[j].state = "waiting" => i = j
    BY DEF Told
  <2> DEFINE parked == Parked(rs, parks + 1, kind)
  <2>2. /\ parked \in Seq(Row) /\ Len(parked) \in Len(rs)..(Len(rs) + 1)
        /\ \A i \in DOMAIN parked :
             parked[i] = new \/ (i \in DOMAIN rs /\ rs[i].state # "waiting" /\ parked[i] = rs[i])
        /\ \E i \in DOMAIN parked :
             parked[i] = new /\ \A j \in DOMAIN parked \ {i} : parked[j].state # "waiting"
    BY <1>1, <2>1, ParkedRows
  <2>3. rows' = parked
    BY <1>1
  <2> HIDE DEF parked, new
  <2> QED BY <2>2, <2>3
<1> HIDE DEF new
<1>4. /\ Len(rs) \in Nat /\ Len(rows') \in Nat /\ Len(rs) <= parks
      /\ \A i \in DOMAIN rs : rs[i].park \in 1..parks
  <2>1. rows \in Seq(Row) /\ \A i \in DOMAIN rows : rows[i] \in Row
    BY ElementOfSeq, LenProperties DEF IInv, TypeOK, TablesOK, Row
  <2>2. \A i \in DOMAIN rs : rs[i].park \in 1..parks
    BY <1>1, <2>1 DEF Told, IInv, RowsInv, Row
  <2> QED BY <1>3, <2>2, LenProperties DEF Told, IInv, RowsInv
<1>5. ran' = ran /\ torn' = torn /\ crashes' = crashes
  BY DEF Ashore, Ghosts
<1>6. TypeOK'
  <2>1. TablesOK'
    BY <1>1, <1>3 DEF TablesOK, Row
  <2> QED BY <1>5, <2>1 DEF TypeOK, GhostsOK, IInv, Ashore
<1>7. RowsInv'
  <2>1. Len(rows') <= parks' /\ pause'.park <= parks'
    BY <1>1, <1>3, <1>4
  <2>2. dueList' \subseteq DOMAIN rows'
    <3>1. DOMAIN rs = 1..Len(rs) /\ DOMAIN rows' = 1..Len(rows')
      BY <1>3, LenProperties DEF Told
    <3> QED BY <1>3, <1>4, <3>1 DEF Told, Ashore, IInv, RowsInv
  <2>3. ASSUME NEW i \in DOMAIN rows'
        PROVE  rows'[i].park <= parks' /\ (rows'[i].state # "waiting" => rows'[i].park # pause'.park)
    <3>1. CASE rows'[i] = new
      BY <1>1, <1>2, <3>1
    <3>2. CASE i \in DOMAIN rs /\ rows'[i] = rs[i]
      <4>1. rs[i].park \in 1..parks
        BY <1>4, <3>2
      <4> QED BY <1>1, <3>2, <4>1
    <3> QED BY <1>3, <3>1, <3>2
  <2> QED BY <2>1, <2>3, <2>2 DEF RowsInv, Waiting
<1>8. PauseHasApproval'
  <2>1. pause'.park # 0 /\ pause'.park = parks + 1 /\ pause'.kind = kind
    BY <1>1
  <2> QED BY <1>2, <1>3, <2>1 DEF PauseHasApproval, Waiting
<1>9. LockInv' /\ WalkInv'
  BY DEF Ashore, WalkInv
<1>10. RanInv'
  <2>1. \A p \in 1..MaxParks : p > parks => ran[p] = 0
    BY DEF IInv, RanInv
  <2>2. \A p \in 1..MaxParks : p > parks' => ran'[p] = 0
    BY <1>1, <1>5, <2>1
  <2>3. ran'[pause'.park] = 0
    BY <1>1, <1>5, <2>1
  <2>4. RunsOnce'
    BY <1>5 DEF IInv, RanInv, RunsAsDecided, RunsOnce
  <2>5. DeclinedNeverRan'
    <3>1. ASSUME NEW i \in DOMAIN rows', rows'[i].kind = "call",
                 rows'[i].state \in {"declined", "expired"}
          PROVE  ran'[rows'[i].park] = 0 \/ rows'[i].park \in torn'
      <4>1. i \in DOMAIN rs /\ rows'[i] = rs[i]
        BY <1>2, <1>3, <3>1
      <4> QED BY <1>5, <3>1, <4>1 DEF Told
    <3> QED BY <3>1 DEF DeclinedNeverRan
  <2> QED BY <2>2, <2>3, <2>4, <2>5 DEF RanInv, RunsAsDecided
<1> QED BY <1>6, <1>7, <1>8, <1>9, <1>10 DEF IInv

(* Recording a decision that ends the run.                                 *)
LEMMA StepToEnd ==
  ASSUME IInv, Told(rows'), \A i \in DOMAIN rows' : ~Waiting(i)',
         pause' = NoPause, parks' = parks, Ashore
  PROVE  IInv'
<1>1. pause'.park = 0 /\ pause' \in [park : 0..MaxParks, kind : Kinds]
  BY BoundsAssumption DEF NoPause, Kinds
<1>2. ran' = ran /\ torn' = torn /\ crashes' = crashes
  BY DEF Ashore, Ghosts
<1>3. rows' \in Seq(Row) /\ \A i \in DOMAIN rows' : rows'[i] \in Row
  BY ElementOfSeq, LenProperties DEF Told
<1>4. TypeOK'
  BY <1>1, <1>2, <1>3 DEF TypeOK, TablesOK, GhostsOK, Row, IInv, Ashore
<1>5. RowsInv'
  <2>1. Len(rows') <= parks' /\ pause'.park <= parks'
    BY <1>1 DEF Told, IInv, RowsInv, TypeOK, TablesOK
  <2>2. ASSUME NEW i \in DOMAIN rows'
        PROVE  rows'[i].park <= parks' /\ rows'[i].park # pause'.park
    <3>1. rows'[i].park \in 1..MaxParks
      BY <1>3 DEF Row
    <3> QED BY <1>1, <3>1 DEF Told, IInv, RowsInv
  <2>3. dueList' \subseteq DOMAIN rows'
    BY DEF Told, Ashore, IInv, RowsInv
  <2> QED BY <2>1, <2>2, <2>3 DEF RowsInv
<1>6. PauseHasApproval' /\ LockInv' /\ WalkInv'
  BY <1>1 DEF PauseHasApproval, Ashore, WalkInv
<1>7. RanInv'
  <2>1. RunsOnce'
    BY <1>2 DEF IInv, RanInv, RunsAsDecided, RunsOnce
  <2>2. DeclinedNeverRan'
    BY <1>2 DEF Told, DeclinedNeverRan
  <2> QED BY <1>1, <1>2, <2>1, <2>2 DEF IInv, RanInv, RunsAsDecided
<1> QED BY <1>4, <1>5, <1>6, <1>7 DEF IInv

-----------------------------------------------------------------------------
(* The rows as they stand, and as a decision leaves them.                  *)

LEMMA RowsTold ==
  ASSUME IInv
  PROVE  Told(rows)
<1>1. \A i, j \in DOMAIN rows : Waiting(i) /\ Waiting(j) => i = j
  BY OneWaiting DEF IInv
<1> QED BY <1>1 DEF Told, IInv, TypeOK, TablesOK, Row, RanInv, RunsAsDecided, DeclinedNeverRan, Waiting

(* A walk that ends in a decline has carried nothing out.                  *)
LEMMA DecidedTold ==
  ASSUME IInv, NEW t \in Threads, work[t].at = "walked"
  PROVE  /\ Told(Decided(rows, StateOf(t)))
         /\ \A i \in DOMAIN Decided(rows, StateOf(t)) :
              Decided(rows, StateOf(t))[i].state # "waiting"
<1> DEFINE state == StateOf(t)
           decided == Decided(rows, state)
<1>1. work[t] \in Jobs /\ rows \in Seq(Row) /\ pause.park \in 0..MaxParks
  BY DEF IInv, TypeOK, TablesOK, ThreadsOK, Row
<1>2. /\ state \in States \ {"waiting"}
      /\ state \in {"declined", "expired"} => work[t].decision = "decline"
  <2>1. t = "tick" => work[t].decision = "decline"
    BY DEF IInv, WalkInv
  <2>2. work[t].decision \in Decisions
    BY <1>1 DEF Jobs
  <2> QED BY <2>1, <2>2 DEF StateOf, States, Decisions
<1> HIDE DEF state
<1>3. /\ decided \in Seq(Row) /\ DOMAIN decided = DOMAIN rows /\ Len(decided) = Len(rows)
      /\ \A i \in DOMAIN rows :
           IF rows[i].state = "waiting"
             THEN /\ decided[i].park = rows[i].park /\ decided[i].kind = rows[i].kind
                  /\ decided[i].state = state
             ELSE decided[i] = rows[i]
  BY <1>1, <1>2, DecidedRows
<1> HIDE DEF decided
<1>4. \A i \in DOMAIN decided : decided[i].state # "waiting"
  BY <1>2, <1>3
<1>5. ASSUME NEW i \in DOMAIN decided, decided[i].kind = "call",
             decided[i].state \in {"declined", "expired"}
      PROVE  ran[decided[i].park] = 0 \/ decided[i].park \in torn
  <2>1. CASE Waiting(i)
    <3>1. decided[i].park = rows[i].park /\ decided[i].state = state
      BY <1>3, <2>1 DEF Waiting
    <3>2. rows[i].park = pause.park /\ pause.park # 0
      BY <1>3, <2>1 DEF IInv, PauseHasApproval
    <3>3. work[t].decision = "decline"
      BY <1>2, <1>5, <3>1
    <3>4. ASSUME NEW u \in Threads, work[u].at = "walked" PROVE u = t
      BY <3>4 DEF IInv, LockInv
    <3> QED BY <3>1, <3>2, <3>3, <3>4 DEF IInv, RanInv
  <2>2. CASE ~Waiting(i)
    BY <1>3, <1>5, <2>2 DEF IInv, RanInv, RunsAsDecided, DeclinedNeverRan, Waiting
  <2> QED BY <2>1, <2>2
<1>6. \A i \in DOMAIN decided : decided[i].park = rows[i].park
  BY <1>3
<1>7. Told(decided)
  BY <1>3, <1>4, <1>5, <1>6 DEF Told
<1> QED BY <1>4, <1>7 DEF decided, state

-----------------------------------------------------------------------------
(* Each action.                                                            *)

(* A turn of the model, its rounds, and the messages that are only noted.  *)
LEMMA ChatKeeps ==
  ASSUME IInv, StartTurn \/ NoteMessage \/ AnswerByMessage \/ Chat
  PROVE  IInv'
<1> USE DEF Jobs, Places, Kinds, Decisions, Job, Idle
<1>1. /\ "chat" \in Threads /\ "chat" # "tick"
      /\ open \in BOOLEAN /\ refused \in BOOLEAN /\ dueList \subseteq DOMAIN rows
      /\ pause.park \in 0..MaxParks /\ 0 \in 0..MaxParks
      /\ work["chat"].at \in {"turn", "asked", "resumed"} => lock = "chat"
      /\ lock = "free" => lock # "chat"
  BY BoundsAssumption, ClientsAssumption
     DEF Threads, IInv, TypeOK, TablesOK, ThreadsOK, LockInv, RowsInv
<1>2. CASE StartTurn
  <2>1. Job("turn", 0, "answer", "none") \in Jobs
    BY <1>1
  <2> QED BY <1>1, <1>2, <2>1, StepOn DEF StartTurn, Acquire
<1>3. CASE NoteMessage
  BY <1>1, <1>3, StepAside DEF NoteMessage, Tables, Ghosts
<1>4. CASE AnswerByMessage
  <2>1. Job("walking", pause.park, "answer", "none") \in Jobs
    BY <1>1
  <2>2. Fits("answer")
    BY <1>4 DEF AnswerByMessage, Fits
  <2> QED BY <1>1, <1>4, <2>1, <2>2, StepOn DEF AnswerByMessage, Acquire
<1>5. CASE AskForTools
  <2>1. Job("asked", 0, "answer", "none") \in Jobs
    BY <1>1
  <2> QED BY <1>1, <1>5, <2>1, StepOn DEF AskForTools
<1>6. CASE DispatchEnds
  <2>1. Job("turn", 0, "answer", "none") \in Jobs
    BY <1>1
  <2> QED BY <1>1, <1>6, <2>1, StepOn DEF DispatchEnds
<1>7. CASE DispatchParks
  <2>1. PICK kind \in Kinds : WritePause(rows, kind)
    BY <1>7 DEF DispatchParks
  <2>2. /\ work' = [work EXCEPT !["chat"] = Job("turn", 0, "answer", "none")]
        /\ lock' = lock /\ dueList' = dueList /\ lock = "chat"
        /\ UNCHANGED << open, refused, Ghosts >>
    BY <1>1, <1>7 DEF DispatchParks, Goto
  <2>3. /\ work'["chat"].at = "turn" /\ work' \in [Threads -> Jobs]
        /\ \A u \in Threads \ {"chat"} : work'[u] = work[u]
    BY <1>1, <2>2 DEF IInv, TypeOK, ThreadsOK
  <2>4. Ashore
    <3>1. ThreadsOK'
      BY <1>1, <2>2, <2>3 DEF IInv, TypeOK, ThreadsOK
    <3>2. LockInv'
      BY <1>1, <2>2, <2>3 DEF IInv, LockInv
    <3>3. \A u \in Threads : work'[u].at \notin {"walking", "walked"}
      BY <2>2, <2>3 DEF IInv, LockInv
    <3> QED BY <1>1, <2>2, <3>1, <3>2, <3>3 DEF Ashore, IInv, TypeOK
  <2> QED BY <2>1, <2>4, RowsTold, StepToPark
<1>8. CASE EndTurn
  <2>1. Idle \in Jobs
    BY <1>1
  <2> QED BY <1>1, <1>8, <2>1, StepOn DEF EndTurn, Release
<1>9. CASE CutTurn
  <2>1. Idle \in Jobs
    BY <1>1
  <2> QED BY <1>1, <1>9, <2>1, StepOn DEF CutTurn, Release
<1>10. CASE AppendResumed
  <2>1. Idle \in Jobs
    BY <1>1
  <2> QED BY <1>1, <1>10, <2>1, StepOn DEF AppendResumed, Release
<1> QED BY <1>2, <1>3, <1>4, <1>5, <1>6, <1>7, <1>8, <1>9, <1>10 DEF Chat

(* An action at the door, from the check of its row to the lock.           *)
LEMMA ActKeeps ==
  ASSUME IInv, NEW c \in Clients, CheckAct(c) \/ EnterAct(c) \/ FailAct(c)
  PROVE  IInv'
<1> USE DEF Places, Kinds, Decisions, Job, Idle
<1>1. /\ c \in Threads /\ c # "tick" /\ c # "chat"
      /\ open \in BOOLEAN /\ refused \in BOOLEAN /\ dueList \subseteq DOMAIN rows
      /\ 0 \in 0..MaxParks /\ work[c] \in Jobs
      /\ work[c].at \in {"idle", "checked"} => lock # c
  BY BoundsAssumption, ClientsAssumption DEF Threads, IInv, TypeOK, ThreadsOK, LockInv, RowsInv
<1>2. CASE CheckAct(c)
  <2>1. PICK i \in DOMAIN rows, d \in Decisions : Goto(c, Job("checked", rows[i].park, d, "none"))
    BY <1>2 DEF CheckAct
  <2>2. rows[i].park \in 0..MaxParks
    <3>1. rows[i].park \in 1..MaxParks
      BY RowsTyped
    <3> QED BY <3>1
  <2>3. Job("checked", rows[i].park, d, "none") \in Jobs
    BY <2>2 DEF Jobs
  <2> QED BY <1>1, <1>2, <2>1, <2>3, StepOn DEF CheckAct
<1>3. CASE EnterAct(c)
  <2> DEFINE job == [work[c] EXCEPT !.at = "walking"]
  <2>1. /\ job \in Jobs /\ job.at = "walking" /\ job.decision = work[c].decision
    BY <1>1 DEF Jobs
  <2>2. /\ Goto(c, job) /\ Fits(job.decision) /\ lock = "free" /\ lock' = c
        /\ work[c].at = "checked"
        /\ UNCHANGED << Tables, open, dueList, Ghosts, refused >>
    BY <1>3, <2>1 DEF EnterAct, Acquire
  <2> HIDE DEF job
  <2> QED BY <1>1, <2>1, <2>2, StepOn
<1>4. CASE FailAct(c)
  <2>1. Idle \in Jobs
    BY <1>1 DEF Jobs
  <2> QED BY <1>1, <1>4, <2>1, StepOn DEF FailAct
<1> QED BY <1>2, <1>3, <1>4

(* The scheduler reads the due rows and comes to them one by one.          *)
LEMMA TickKeeps ==
  ASSUME IInv, Tick
  PROVE  IInv'
<1> USE DEF Places, Kinds, Decisions, Job, Idle
<1>1. /\ "tick" \in Threads /\ "tick" # "chat"
      /\ open \in BOOLEAN /\ refused \in BOOLEAN /\ dueList \subseteq DOMAIN rows
      /\ work["tick"].at = "idle" => lock # "tick"
  BY DEF Threads, IInv, TypeOK, ThreadsOK, LockInv, RowsInv
<1>2. CASE ReadDue
  <2>1. dueList' \subseteq DOMAIN rows
    BY <1>2 DEF ReadDue
  <2> QED BY <1>1, <1>2, <2>1, StepAside DEF ReadDue, Tables, Ghosts
<1>3. CASE EnterExpiry
  <2>1. PICK i \in dueList :
          /\ dueList' = dueList \ {i}
          /\ Goto("tick", Job("walking", rows[i].park, "decline", "none"))
    BY <1>3 DEF EnterExpiry
  <2>2. rows[i].park \in 0..MaxParks
    <3>1. rows[i].park \in 1..MaxParks
      BY <1>1, RowsTyped
    <3> QED BY <3>1
  <2>3. Job("walking", rows[i].park, "decline", "none") \in Jobs
    BY <2>2 DEF Jobs
  <2> QED BY <1>1, <1>3, <2>1, <2>3, StepOn DEF EnterExpiry, Acquire
<1>4. CASE FailExpiry
  <2>1. dueList' \subseteq DOMAIN rows
    BY <1>1, <1>4 DEF FailExpiry
  <2> QED BY <1>1, <1>4, <2>1, StepAside DEF FailExpiry, Tables, Ghosts
<1> QED BY <1>2, <1>3, <1>4 DEF Tick

(* The row a decision is asked of is due.                                  *)
LEMMA ExpireKeeps ==
  ASSUME IInv, NEW i, Expire(i)
  PROVE  IInv'
<1>1. /\ i \in DOMAIN rows /\ rows' = [rows EXCEPT ![i].due = TRUE]
      /\ UNCHANGED << pause, parks, open, lock, work, dueList, ran, torn, crashes, refused >>
  BY DEF Expire, Ghosts
<1>2. rows \in Seq(Row) /\ Len(rows) \in Nat /\ DOMAIN rows = 1..Len(rows)
  BY LenProperties DEF IInv, TypeOK, TablesOK, Row
<1>3. \A k \in DOMAIN rows : rows[k] \in Row
  BY <1>2, ElementOfSeq
<1>4. DOMAIN rows' = DOMAIN rows
  BY <1>1
<1>5. ASSUME NEW k \in DOMAIN rows
      PROVE  /\ rows'[k] \in Row /\ rows'[k].park = rows[k].park
             /\ rows'[k].kind = rows[k].kind /\ rows'[k].state = rows[k].state
  <2>1. CASE k = i
    <3>1. rows'[k] = [rows[k] EXCEPT !.due = TRUE]
      BY <1>1, <2>1
    <3> QED BY <1>3, <3>1 DEF Row
  <2>2. CASE k # i
    <3>1. rows'[k] = rows[k]
      BY <1>1, <2>2
    <3> QED BY <1>3, <3>1
  <2> QED BY <2>1, <2>2
<1>6. rows' \in Seq(Row) /\ Len(rows') = Len(rows)
  <2>1. rows' \in [1..Len(rows) -> Row]
    BY <1>1, <1>2, <1>4, <1>5
  <2>2. rows' \in Seq(Row)
    BY <1>2, <2>1, SeqDef
  <2> QED BY <1>2, <1>4, <2>2, LenProperties
<1>7. TypeOK'
  BY <1>1, <1>6 DEF IInv, TypeOK, TablesOK, ThreadsOK, GhostsOK, Row
<1>8. RowsInv'
  BY <1>1, <1>4, <1>5, <1>6 DEF IInv, RowsInv, Waiting
<1>9. PauseHasApproval'
  BY <1>1, <1>4, <1>5 DEF IInv, PauseHasApproval, Waiting
<1>10. LockInv' /\ WalkInv'
  BY <1>1 DEF IInv, LockInv, WalkInv, Fits
<1>11. RanInv'
  <2>1. RunsOnce'
    BY <1>1 DEF IInv, RanInv, RunsAsDecided, RunsOnce
  <2>2. DeclinedNeverRan'
    BY <1>1, <1>4, <1>5 DEF IInv, RanInv, RunsAsDecided, DeclinedNeverRan
  <2> QED BY <1>1, <2>1, <2>2 DEF IInv, RanInv, RunsAsDecided
<1> QED BY <1>7, <1>8, <1>9, <1>10, <1>11 DEF IInv

(* The walk carries the outstanding park on: it had not run before, for    *)
(* no other thread walks, and no decided row asks about it.                *)
LEMMA CarryKeeps ==
  ASSUME IInv, NEW t \in Threads, Carry(t)
  PROVE  IInv'
<1> DEFINE p == pause.park
<1>1. PICK stopped \in Kinds \cup {"none"} :
        work' = [work EXCEPT ![t] = [work[t] EXCEPT !.at = "walked", !.stopped = stopped]]
  BY DEF Carry, Goto
<1>2. /\ work[t].at = "walking" /\ work[t].decision # "decline"
      /\ ran' = [ran EXCEPT ![p] = IF @ < 2 THEN @ + 1 ELSE @]
      /\ UNCHANGED << pause, rows, parks, open, lock, dueList, torn, crashes, refused >>
  BY DEF Carry, Tables
<1>3. /\ work[t] \in Jobs /\ parks \in 0..MaxParks /\ p \in 0..MaxParks
      /\ ran \in [1..MaxParks -> 0..2] /\ work \in [Threads -> Jobs]
  BY DEF IInv, TypeOK, TablesOK, ThreadsOK, GhostsOK
<1>4. /\ work'[t] \in Jobs /\ work'[t].at = "walked" /\ work'[t].decision = work[t].decision
      /\ work' \in [Threads -> Jobs]
      /\ \A u \in Threads \ {t} : work'[u] = work[u]
  <2>1. [work[t] EXCEPT !.at = "walked", !.stopped = stopped] \in Jobs
    BY <1>3 DEF Jobs, Places
  <2>2. work'[t] = [work[t] EXCEPT !.at = "walked", !.stopped = stopped]
    BY <1>1, <1>3
  <2>3. work'[t].at = "walked" /\ work'[t].decision = work[t].decision
    BY <1>3, <2>2 DEF Jobs
  <2> QED BY <1>1, <1>3, <2>1, <2>2, <2>3
<1>5. Fits(work[t].decision) /\ p # 0 /\ p \in 1..MaxParks /\ p <= parks
  BY <1>2, <1>3, BoundsAssumption DEF IInv, WalkInv, Fits, RowsInv
<1>6. ran[p] = 0 \/ p \in torn
  <2>1. \A u \in Threads : work[u].at = "walked" => u = t
    BY <1>2 DEF IInv, LockInv
  <2> QED BY <1>2, <1>5, <2>1 DEF IInv, RanInv
<1> HIDE DEF p
<1>7. /\ ran' \in [1..MaxParks -> 0..2]
      /\ \A q \in 1..MaxParks : q # p => ran'[q] = ran[q]
      /\ ran'[p] \in 0..2 /\ (p \notin torn => ran'[p] = 1)
  <2>1. ran[p] \in 0..2
    BY <1>3, <1>5
  <2>2. (IF ran[p] < 2 THEN ran[p] + 1 ELSE ran[p]) \in 0..2
    BY <2>1
  <2>3. ran'[p] = IF ran[p] < 2 THEN ran[p] + 1 ELSE ran[p]
    BY <1>2, <1>3, <1>5
  <2>4. p \notin torn => ran'[p] = 1
    BY <1>6, <2>3
  <2> QED BY <1>2, <1>3, <2>2, <2>3, <2>4
<1>8. TypeOK'
  BY <1>2, <1>4, <1>7 DEF IInv, TypeOK, TablesOK, ThreadsOK, GhostsOK
<1>9. RowsInv' /\ PauseHasApproval'
  BY <1>2 DEF IInv, RowsInv, PauseHasApproval, Waiting
<1>10. LockInv'
  BY <1>2, <1>4 DEF IInv, LockInv
<1>11. WalkInv'
  BY <1>2, <1>4 DEF IInv, WalkInv, Fits
<1>12. RanInv'
  <2>1. \A q \in 1..MaxParks : q > parks' => ran'[q] = 0
    BY <1>2, <1>3, <1>5, <1>7 DEF IInv, RanInv
  <2>2. RunsOnce'
    <3>1. ASSUME NEW q \in 1..MaxParks, ran'[q] > 1 PROVE q \in torn
      BY <1>7, <3>1 DEF IInv, RanInv, RunsAsDecided, RunsOnce
    <3> QED BY <1>2, <3>1 DEF RunsOnce
  <2>3. DeclinedNeverRan'
    <3>1. ASSUME NEW i \in DOMAIN rows, rows[i].kind = "call",
                 rows[i].state \in {"declined", "expired"}
          PROVE  ran'[rows[i].park] = 0 \/ rows[i].park \in torn
      <4>1. rows[i].park \in 1..MaxParks /\ rows[i].park # p
        BY <3>1, RowsTyped DEF IInv, RowsInv, Waiting, p
      <4> QED BY <1>7, <3>1, <4>1 DEF IInv, RanInv, RunsAsDecided, DeclinedNeverRan
    <3> QED BY <1>2, <3>1 DEF DeclinedNeverRan
  <2>4. /\ pause'.park = p /\ (p \notin torn' => ran'[p] = 1)
        /\ work'[t].at = "walked" /\ work'[t].decision # "decline"
    BY <1>2, <1>4, <1>7 DEF p
  <2> QED BY <2>1, <2>2, <2>3, <2>4 DEF RanInv, RunsAsDecided
<1> QED BY <1>8, <1>9, <1>10, <1>11, <1>12 DEF IInv

(* The thread that resumes, from the walk to the recorded decision.        *)
LEMMA ResumeKeeps ==
  ASSUME IInv, NEW t \in Threads, Resume(t)
  PROVE  IInv'
<1>1. /\ open \in BOOLEAN /\ refused \in BOOLEAN /\ dueList \subseteq DOMAIN rows
      /\ work[t] \in Jobs /\ work \in [Threads -> Jobs] /\ lock \in Threads \cup {"free"}
  BY DEF IInv, TypeOK, ThreadsOK, RowsInv
<1>2. CASE Carry(t)
  BY <1>2, CarryKeeps
<1>3. ASSUME NEW stopped \in Kinds \cup {"none"}, work[t].at = "walking",
             Goto(t, [work[t] EXCEPT !.at = "walked", !.stopped = stopped]),
             UNCHANGED << Tables, open, lock, dueList, Ghosts, refused >>
      PROVE  IInv'
  <2> DEFINE job == [work[t] EXCEPT !.at = "walked", !.stopped = stopped]
  <2>1. job \in Jobs /\ job.at = "walked" /\ job.decision = work[t].decision
    BY <1>1 DEF Jobs, Places
  <2>2. lock = t /\ Fits(job.decision) /\ (t = "tick" => job.decision = "decline")
    BY <1>3, <2>1 DEF IInv, LockInv, WalkInv
  <2>3. Goto(t, job)
    BY <1>3
  <2> HIDE DEF job
  <2> QED BY <1>1, <1>3, <2>1, <2>2, <2>3, StepOn
<1>4. CASE Drop(t)
  BY <1>3, <1>4 DEF Drop
<1>5. CASE KeepParked(t)
  <2>1. pause.kind \in Kinds
    BY DEF IInv, TypeOK, TablesOK
  <2> QED BY <1>3, <1>5, <2>1 DEF KeepParked
<1>6. CASE Resolve(t)
  <2> DEFINE decided == Decided(rows, StateOf(t))
  <2>1. Told(decided) /\ \A i \in DOMAIN decided : decided[i].state # "waiting"
    BY <1>6, DecidedTold DEF Resolve
  <2>2. /\ work[t].at = "walked" /\ lock = t
        /\ \A u \in Threads \ {t} : work[u].at \notin {"walking", "walked"}
        /\ UNCHANGED << open, dueList, Ghosts, refused >>
    BY <1>6 DEF Resolve, IInv, LockInv
  <2>3. "free" \notin Threads
    BY ClientsAssumption DEF Threads
  <2>4. PICK job \in Jobs :
          /\ Goto(t, job) /\ job.at \in {"idle", "resumed"}
          /\ IF job.at = "idle" THEN lock' = "free" ELSE lock' = lock /\ t = "chat"
    <3>1. Idle \in Jobs /\ Job("resumed", 0, "answer", "none") \in Jobs
      BY BoundsAssumption DEF Idle, Job, Jobs, Places, Decisions
    <3> QED BY <1>6, <3>1 DEF Resolve, Release, Idle, Job
  <2>5. /\ work'[t] = job /\ work' \in [Threads -> Jobs]
        /\ \A u \in Threads \ {t} : work'[u] = work[u]
    BY <1>1, <2>4 DEF Goto
  <2>6. Ashore
    <3>1. ThreadsOK'
      BY <1>1, <2>2, <2>4, <2>5 DEF IInv, TypeOK, ThreadsOK
    <3>2. LockInv'
      <4>1. ASSUME NEW u \in Threads
            PROVE  work'[u].at \notin {"idle", "checked"} <=> lock' = u
        BY <2>2, <2>3, <2>4, <2>5 DEF IInv, LockInv
      <4>2. ASSUME NEW u \in Threads
            PROVE  /\ work'[u].at \in {"turn", "asked", "resumed"} => u = "chat"
                   /\ work'[u].at = "checked" => u \in Clients
        BY <2>4, <2>5 DEF IInv, LockInv
      <4> QED BY <4>1, <4>2 DEF LockInv
    <3>3. \A u \in Threads : work'[u].at \notin {"walking", "walked"}
      BY <2>2, <2>4, <2>5
    <3> QED BY <1>1, <2>2, <3>1, <3>2, <3>3 DEF Ashore
  <2>7. CASE work[t].stopped = "none"
    <3>1. pause' = NoPause /\ rows' = decided /\ parks' = parks
      BY <1>6, <2>7 DEF Resolve
    <3> HIDE DEF decided
    <3>2. Told(rows') /\ \A i \in DOMAIN rows' : ~Waiting(i)'
      BY <2>1, <3>1 DEF Waiting
    <3> QED BY <2>6, <3>1, <3>2, StepToEnd
  <2>8. CASE work[t].stopped # "none"
    <3>1. WritePause(decided, work[t].stopped)
      BY <1>6, <2>8 DEF Resolve
    <3>2. work[t].stopped \in Kinds
      BY <1>1, <2>8 DEF Jobs
    <3> HIDE DEF decided
    <3> QED BY <2>1, <2>6, <3>1, <3>2, StepToPark
  <2> QED BY <2>7, <2>8
<1> QED BY <1>2, <1>4, <1>5, <1>6 DEF Resume

(* A death between the body and the decision leaves the park torn.         *)
LEMMA CrashKeeps ==
  ASSUME IInv, Crash
  PROVE  IInv'
<1>1. /\ crashes' = crashes + 1 /\ crashes < MaxCrashes
      /\ torn' = torn \cup {pause.park : t \in {u \in Threads : work[u].at = "walked"}}
      /\ lock' = "free" /\ work' = [t \in Threads |-> Idle] /\ dueList' = {}
      /\ UNCHANGED << pause, rows, parks, open, ran, refused >>
  BY DEF Crash, Tables
<1>2. Idle \in Jobs /\ Idle.at = "idle"
  BY BoundsAssumption DEF Idle, Job, Jobs, Places, Decisions
<1>3. \A t \in Threads : work'[t].at = "idle"
  BY <1>1, <1>2
<1>4. torn' \subseteq 1..MaxParks
  <2>1. ASSUME NEW u \in Threads, work[u].at = "walked" PROVE pause.park \in 1..MaxParks
    <3>1. pause.park # 0 /\ pause.park \in 0..MaxParks
      BY <2>1 DEF IInv, WalkInv, Fits, TypeOK, TablesOK
    <3> QED BY <3>1, BoundsAssumption
  <2> QED BY <1>1, <2>1 DEF IInv, TypeOK, GhostsOK
<1>5. crashes' \in 0..MaxCrashes
  BY <1>1, BoundsAssumption DEF IInv, TypeOK, GhostsOK
<1>6. TypeOK'
  <2>1. ThreadsOK'
    BY <1>1, <1>2 DEF ThreadsOK
  <2> QED BY <1>1, <1>4, <1>5, <2>1 DEF IInv, TypeOK, TablesOK, GhostsOK
<1>7. RowsInv' /\ PauseHasApproval'
  BY <1>1 DEF IInv, RowsInv, PauseHasApproval, Waiting
<1>8. LockInv' /\ WalkInv'
  <2>1. "free" \notin Threads
    BY ClientsAssumption DEF Threads
  <2> QED BY <1>1, <1>3, <2>1 DEF LockInv, WalkInv
<1>9. RanInv'
  <2>1. torn \subseteq torn' /\ (pause.park \notin torn' => \A u \in Threads : work[u].at # "walked")
    BY <1>1
  <2>2. RunsOnce'
    BY <1>1, <2>1 DEF IInv, RanInv, RunsAsDecided, RunsOnce
  <2>3. DeclinedNeverRan'
    BY <1>1, <2>1 DEF IInv, RanInv, RunsAsDecided, DeclinedNeverRan
  <2> QED BY <1>1, <2>1, <2>2, <2>3 DEF IInv, RanInv, RunsAsDecided
<1> QED BY <1>6, <1>7, <1>8, <1>9 DEF IInv

-----------------------------------------------------------------------------
LEMMA InitIInv == Init => IInv
<1> SUFFICES ASSUME Init PROVE IInv
  OBVIOUS
<1>1. << >> \in Seq(Row) /\ Len(<< >>) = 0 /\ DOMAIN rows = {}
  BY LenProperties DEF Init
<1>2. Idle \in Jobs /\ Idle.at = "idle"
  BY BoundsAssumption DEF Idle, Job, Jobs, Places, Decisions
<1>3. \A t \in Threads : work[t].at = "idle"
  BY <1>2 DEF Init
<1>4. TypeOK
  <2>1. TablesOK
    BY <1>1, BoundsAssumption DEF Init, TablesOK, NoPause, Kinds, Row
  <2>2. ThreadsOK
    BY <1>2 DEF Init, ThreadsOK
  <2>3. GhostsOK
    BY BoundsAssumption DEF Init, GhostsOK
  <2> QED BY <2>1, <2>2, <2>3 DEF Init, TypeOK
<1>5. RowsInv /\ PauseHasApproval
  BY <1>1 DEF Init, RowsInv, PauseHasApproval, NoPause
<1>6. LockInv /\ WalkInv
  <2>1. "free" \notin Threads
    BY ClientsAssumption DEF Threads
  <2> QED BY <1>3, <2>1 DEF Init, LockInv, WalkInv
<1>7. RanInv
  BY <1>1, BoundsAssumption DEF Init, RanInv, RunsAsDecided, RunsOnce, DeclinedNeverRan, NoPause
<1> QED BY <1>4, <1>5, <1>6, <1>7 DEF IInv

LEMMA NextIInv == IInv /\ [Next]_vars => IInv'
<1> SUFFICES ASSUME IInv, [Next]_vars PROVE IInv'
  OBVIOUS
<1>1. CASE StartTurn \/ NoteMessage \/ AnswerByMessage \/ Chat
  BY <1>1, ChatKeeps
<1>2. CASE Tick
  BY <1>2, TickKeeps
<1>3. CASE Crash
  BY <1>3, CrashKeeps
<1>4. ASSUME NEW c \in Clients, CheckAct(c) \/ EnterAct(c) \/ FailAct(c) PROVE IInv'
  BY <1>4, ActKeeps
<1>5. ASSUME NEW t \in Threads, Resume(t) PROVE IInv'
  BY <1>5, ResumeKeeps
<1>6. ASSUME NEW i \in 1..(MaxParks + 1), Expire(i) PROVE IInv'
  BY <1>6, ExpireKeeps
<1>7. CASE UNCHANGED vars
  <2>1. /\ open \in BOOLEAN /\ refused \in BOOLEAN /\ dueList \subseteq DOMAIN rows
    BY DEF IInv, TypeOK, RowsInv
  <2> QED BY <1>7, <2>1, StepAside DEF vars, Tables, Ghosts
<1> QED BY <1>1, <1>2, <1>3, <1>4, <1>5, <1>6, <1>7 DEF Next

LEMMA InvariantHolds == Spec => []IInv
<1> QED BY InitIInv, NextIInv, PTL DEF Spec

-----------------------------------------------------------------------------
(* TypeOK is an invariant.                                                 *)
THEOREM TypeCorrect == Spec => []TypeOK
<1>1. IInv => TypeOK
  BY DEF IInv
<1> QED BY <1>1, InvariantHolds, PTL

(* PauseHasApproval is an invariant: whoever parks, decides, expires or    *)
(* dies in between, a run is paused exactly when one approval waits, and   *)
(* that approval asks about the paused park.                               *)
THEOREM PauseKeepsApproval == Spec => []PauseHasApproval
<1>1. IInv => PauseHasApproval
  BY DEF IInv
<1> QED BY <1>1, InvariantHolds, PTL

(* RunsAsDecided is an invariant: a parked body is carried out at most     *)
(* once, and a declined or expired call never, but for a crash between the *)
(* body and its decision.                                                  *)
THEOREM BodiesRunAsDecided == Spec => []RunsAsDecided
<1>1. IInv => RunsAsDecided
  BY DEF IInv, RanInv
<1> QED BY <1>1, InvariantHolds, PTL

-----------------------------------------------------------------------------
(* No step touches a decided row.                                          *)
Standing == \A i \in DOMAIN rows : ~Waiting(i) => i \in DOMAIN rows' /\ rows'[i] = rows[i]

LEMMA ParkStands ==
  ASSUME IInv, NEW rs, Told(rs), NEW kind \in Kinds, WritePause(rs, kind),
         \A i \in DOMAIN rows : ~Waiting(i) => rs[i] = rows[i] /\ rs[i].state # "waiting"
  PROVE  Standing
<1>1. /\ parks + 1 \in 1..MaxParks /\ rows' = Parked(rs, parks + 1, kind)
      /\ rs \in Seq(Row) /\ DOMAIN rs = DOMAIN rows
      /\ \A i, j \in DOMAIN rs : rs[i].state = "waiting" /\ rs[j].state = "waiting" => i = j
  BY BoundsAssumption DEF WritePause, IInv, TypeOK, TablesOK, Told
<1> DEFINE parked == Parked(rs, parks + 1, kind)
<1>2. \A i \in DOMAIN rs : rs[i].state # "waiting" => i \in DOMAIN parked /\ parked[i] = rs[i]
  BY <1>1, ParkedRows
<1>3. rows' = parked
  BY <1>1
<1> HIDE DEF parked
<1> QED BY <1>1, <1>2, <1>3 DEF Standing

LEMMA NextStands == IInv /\ [Next]_vars => Standing
<1> SUFFICES ASSUME IInv, [Next]_vars PROVE Standing
  OBVIOUS
<1>1. CASE UNCHANGED rows
  BY <1>1 DEF Standing
<1>2. CASE DispatchParks
  <2>1. PICK kind \in Kinds : WritePause(rows, kind)
    BY <1>2 DEF DispatchParks
  <2>2. \A i \in DOMAIN rows : ~Waiting(i) => rows[i].state # "waiting"
    BY DEF Waiting
  <2> QED BY <2>1, <2>2, RowsTold, ParkStands
<1>3. ASSUME NEW t \in Threads, Resolve(t) PROVE Standing
  <2> DEFINE decided == Decided(rows, StateOf(t))
  <2>1. work[t] \in Jobs /\ Told(decided)
    BY <1>3, DecidedTold DEF Resolve, IInv, TypeOK, ThreadsOK
  <2>2. \A i \in DOMAIN rows : ~Waiting(i) => decided[i] = rows[i] /\ decided[i].state # "waiting"
    BY DEF Decided, Waiting
  <2>3. DOMAIN decided = DOMAIN rows
    BY DEF Decided
  <2>4. CASE work[t].stopped = "none"
    <3>1. rows' = decided
      BY <1>3, <2>4 DEF Resolve
    <3> HIDE DEF decided
    <3> QED BY <2>2, <2>3, <3>1 DEF Standing
  <2>5. CASE work[t].stopped # "none"
    <3>1. WritePause(decided, work[t].stopped) /\ work[t].stopped \in Kinds
      BY <1>3, <2>1, <2>5 DEF Resolve, Jobs
    <3> HIDE DEF decided
    <3> QED BY <2>1, <2>2, <3>1, ParkStands
  <2> QED BY <2>4, <2>5
<1>4. ASSUME NEW i, Expire(i) PROVE Standing
  BY <1>4 DEF Expire, Standing
<1>5. ASSUME NEW t \in Threads, Resume(t) PROVE Standing
  BY <1>1, <1>3, <1>5 DEF Resume, Carry, Drop, KeepParked, Tables
<1>6. ASSUME NEW c \in Clients, CheckAct(c) \/ EnterAct(c) \/ FailAct(c) PROVE UNCHANGED rows
  BY <1>6 DEF CheckAct, EnterAct, FailAct, Tables
<1>7. CASE StartTurn \/ NoteMessage \/ AnswerByMessage \/ Tick \/ Crash \/ UNCHANGED vars
  <2>1. UNCHANGED rows
    BY <1>7 DEF StartTurn, NoteMessage, AnswerByMessage, Tick, ReadDue, EnterExpiry, FailExpiry,
                Crash, vars, Tables
  <2> QED BY <1>1, <2>1
<1>8. CASE Chat
  BY <1>1, <1>2, <1>8 DEF Chat, AskForTools, DispatchEnds, EndTurn, CutTurn, AppendResumed, Tables
<1> QED BY <1>1, <1>4, <1>5, <1>6, <1>7, <1>8 DEF Next

(* DecisionStands is a property of every behaviour: once decided, an       *)
(* approval is never rewritten, not even by the thread that comes late.    *)
THEOREM DecisionsStand == Spec => DecisionStands
<1>1. IInv /\ [Next]_vars =>
        [\A i \in DOMAIN rows : ~Waiting(i) => i \in DOMAIN rows' /\ rows'[i] = rows[i]]_vars
  BY NextStands DEF Standing
<1> QED BY <1>1, InvariantHolds, PTL DEF Spec, DecisionStands

=============================================================================
