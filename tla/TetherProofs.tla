---------------------------- MODULE TetherProofs ----------------------------
(***************************************************************************)
(* Theorems about Tether that hold for any ids, pages, queue and bounds.   *)
(***************************************************************************)
EXTENDS Tether, FiniteSetTheorems, SequenceTheorems, WellFoundedInduction, TLAPS

-----------------------------------------------------------------------------
(* The inductive invariant.                                                *)

(* The socket lives within the welcome and the connection, and carries     *)
(* frames only while it is open.                                           *)
SocketInv ==
  /\ active => loop.at = "connected"
  /\ socket # "none" <=> loop.at \in {"welcomed", "connected"}
  /\ socket # "open" => wire = << >>

(* A page is the changes that come next.                                   *)
Follows(page, since) == page = [k \in DOMAIN page |-> since + k]

(* Between the head of the hello and the ledger: what was sent, then the   *)
(* page in hand, without a gap.                                            *)
TailInv ==
  /\ NothingSkipped
  /\ out.cursor + Len(out.page) <= Len(ledger)
  /\ loop.at = "handshaking" => out = [Quiet EXCEPT !.cursor = out.cursor]
  /\ loop.at = "welcomed" => tail.sent = << >> /\ out = [Quiet EXCEPT !.cursor = tail.from]
  /\ loop.at = "connected" /\ socket = "open" =>
       LET at == tail.from + Len(tail.sent) IN
       /\ at + Len(out.page) <= Len(ledger)
       /\ Follows(out.page, at)
       /\ IF out.doing = "page" THEN out.page # << >> ELSE out.page = << >> /\ out.cursor = at

QueueInv ==
  /\ NoLateDelta
  /\ loop.at = "connected" => \A k \in DOMAIN queue : queue[k]

(* What is under way to the mirror, and where the mirror may be.           *)
Fits(frame, recorded, known) ==
  /\ frame.type = "hello" => frame.head <= recorded
  /\ frame.type = "event" => frame.cursor \in 1..recorded
  /\ frame.type = "response" =>
       \E since \in 0..known :
         since + Len(frame.page) <= recorded /\ Follows(frame.page, since)

WireInv == \A k \in DOMAIN wire : Fits(wire[k], Len(ledger), mirror.known)

MirrorInv ==
  /\ asked \subseteq 0..mirror.known
  /\ mirror.known <= Len(ledger) /\ mirror.heard <= Len(ledger) /\ mirror.listed <= Len(ledger)
  /\ ~mirror.follows => mirror.known <= mirror.listed

RowsInv == \A i \in Ids : Told(ledger, i, Len(ledger), rows[i])

CopyInv ==
  mirror.follows => \A i \in Listed :
    \/ Told(ledger, i, mirror.known, mirror.copy[i])
    \/ mirror.known < mirror.listed /\ Told(ledger, i, mirror.listed, mirror.copy[i])

IInv ==
  /\ TypeOK /\ SocketInv /\ TailInv /\ QueueInv /\ WireInv /\ MirrorInv /\ RowsInv /\ CopyInv

-----------------------------------------------------------------------------
(* Numbers and pages.                                                      *)

(* Every non-empty set of naturals has a least element: its initial        *)
(* segments are finite sets, of which one contains no other.               *)
LEMMA LeastNatural ==
  ASSUME NEW A \in SUBSET Nat, A # {}
  PROVE  \E least \in A : \A m \in A : least <= m
<1> DEFINE Starts == {0..k : k \in A}
           R == StrictSubsetOrdering(Nat)
<1>1. Starts \subseteq FiniteSubsetsOf(Nat) /\ Starts # {}
  <2>1. ASSUME NEW k \in A PROVE 0..k \in FiniteSubsetsOf(Nat)
    BY FS_Interval DEF FiniteSubsetsOf
  <2> QED BY <2>1
<1>2. IsWellFoundedOn(R, FiniteSubsetsOf(Nat))
  BY FS_StrictSubsetOrderingWellFounded
<1>3. PICK start \in Starts : \A y \in Starts : ~ (<<y, start>> \in R)
  <2> HIDE DEF Starts, R
  <2> QED BY <1>1, <1>2, WFMin
<1>4. PICK k \in A : start = 0..k
  BY <1>3
<1>5. ASSUME NEW m \in A, m < k PROVE FALSE
  <2>1. 0..m \subseteq 0..k /\ 0..m # 0..k
    <3>1. k \in 0..k /\ k \notin 0..m
      BY <1>5
    <3> QED BY <3>1, <1>5
  <2>2. 0..m \in SUBSET Nat /\ 0..k \in SUBSET Nat
    OBVIOUS
  <2>3. <<0..m, 0..k>> \in R
    BY <2>1, <2>2 DEF StrictSubsetOrdering
  <2> QED BY <2>3, <1>3, <1>4
<1> QED BY <1>5

(* The newest of some changes is one of them, and none is newer.           *)
LEMMA NewestIs ==
  ASSUME NEW last \in Nat, NEW changes \in SUBSET (1..last), changes # {}
  PROVE  Newest(changes) \in changes /\ \A d \in changes : d <= Newest(changes)
<1> DEFINE Ages == {last - c : c \in changes}
<1>1. Ages \in SUBSET Nat /\ Ages # {}
  <2>1. \A c \in changes : c \in 1..last
    OBVIOUS
  <2>2. \A c \in changes : last - c \in Nat
    BY <2>1
  <2> QED BY <2>2
<1>2. PICK age \in Ages : \A m \in Ages : age <= m
  <2> HIDE DEF Ages
  <2> QED BY <1>1, LeastNatural
<1>3. PICK c \in changes : age = last - c
  OBVIOUS
<1>4. ASSUME NEW d \in changes PROVE d <= c
  <2>1. last - d \in Ages
    OBVIOUS
  <2>2. last - c <= last - d
    BY <1>2, <1>3, <2>1
  <2>3. c \in 1..last /\ d \in 1..last
    OBVIOUS
  <2> QED BY <2>2, <2>3
<1> QED BY <1>4 DEF Newest

(* What changes_since returns is such a page.                               *)
LEMMA PageFollows ==
  ASSUME TypeOK, NEW since \in 0..Len(ledger)
  PROVE  /\ ChangesSince(since) \in Seq(Nat) /\ Follows(ChangesSince(since), since)
         /\ since + Len(ChangesSince(since)) <= Len(ledger)
<1> DEFINE n == IF since + PageSize < Len(ledger) THEN PageSize ELSE Len(ledger) - since
           page == [k \in 1..n |-> since + k]
<1>1. Len(ledger) \in Nat
  BY DEF TypeOK, StoreOK
<1>2. n \in Nat /\ since + n <= Len(ledger)
  BY <1>1, TetherAssumption DEF TetherAssumption
<1>3. page \in [1..n -> Nat]
  BY <1>2
<1>4. page \in Seq(Nat) /\ Len(page) = n
  <2> HIDE DEF page, n
  <2>1. page \in Seq(Nat)
    BY <1>2, <1>3, SeqDef
  <2>2. DOMAIN page = 1..n
    BY <1>3
  <2> QED BY <1>2, <2>1, <2>2, LenProperties
<1> QED BY <1>2, <1>4 DEF ChangesSince, Follows

LEMMA FollowsOn ==
  ASSUME NEW page \in Seq(Nat), NEW since \in Nat, Follows(page, since)
  PROVE  Follows(Append(page, since + Len(page) + 1), since)
<1> DEFINE more == Append(page, since + Len(page) + 1)
<1>1. Len(page) \in Nat /\ DOMAIN page = 1..Len(page)
  BY LenProperties
<1>2. /\ more \in Seq(Nat) /\ Len(more) = Len(page) + 1
      /\ \A k \in 1..Len(page) : more[k] = page[k]
      /\ more[Len(page) + 1] = since + Len(page) + 1
  <2>1. since + Len(page) + 1 \in Nat
    BY <1>1
  <2> QED BY <2>1, AppendProperties
<1> HIDE DEF more
<1>3. DOMAIN more = 1..(Len(page) + 1)
  BY <1>2, LenProperties
<1>4. ASSUME NEW k \in DOMAIN more PROVE more[k] = since + k
  <2>1. CASE k = Len(page) + 1
    BY <2>1, <1>1, <1>2
  <2>2. CASE k \in 1..Len(page)
    BY <2>2, <1>1, <1>2 DEF Follows
  <2> QED BY <2>1, <2>2, <1>1, <1>3
<1>5. more = [k \in DOMAIN more |-> more[k]]
  BY <1>2, LenProperties
<1>6. Follows(more, since)
  BY <1>4, <1>5 DEF Follows
<1> QED BY <1>6 DEF more

LEMMA FollowsRest ==
  ASSUME NEW page \in Seq(Nat), NEW since \in Nat, Follows(page, since), page # << >>
  PROVE  Head(page) = since + 1 /\ Follows(Tail(page), since + 1)
<1> DEFINE rest == Tail(page)
<1>1. Len(page) \in Nat \ {0} /\ DOMAIN page = 1..Len(page)
  BY LenProperties, EmptySeq
<1>2. /\ rest \in Seq(Nat) /\ Len(rest) = Len(page) - 1
      /\ \A k \in 1..Len(rest) : rest[k] = page[k + 1]
  BY HeadTailProperties
<1>3. Head(page) = page[1]
  OBVIOUS
<1> HIDE DEF rest
<1>4. DOMAIN rest = 1..Len(rest) /\ rest = [k \in DOMAIN rest |-> rest[k]]
  BY <1>2, LenProperties
<1>5. ASSUME NEW k \in DOMAIN rest PROVE rest[k] = since + 1 + k
  <2>1. k \in Nat /\ k + 1 \in DOMAIN page /\ rest[k] = page[k + 1]
    <3>1. k \in 1..Len(rest)
      BY <1>4
    <3>2. k \in Nat /\ k + 1 \in 1..Len(page)
      <4>1. Len(rest) = Len(page) - 1 /\ Len(page) \in Nat
        BY <1>1, <1>2
      <4> QED BY <3>1, <4>1
    <3> QED BY <3>1, <3>2, <1>1, <1>2
  <2>2. page[k + 1] = since + (k + 1)
    BY <2>1 DEF Follows
  <2> QED BY <2>1, <2>2
<1>6. Follows(rest, since + 1)
  BY <1>4, <1>5 DEF Follows
<1>7. Head(page) = since + 1
  BY <1>1, <1>3 DEF Follows
<1> QED BY <1>6, <1>7 DEF rest

LEMMA TypeInit == Init => TypeOK
<1> SUFFICES ASSUME Init PROVE TypeOK
  OBVIOUS
<1> USE DEF Init
<1>1. rows \in [Ids -> Nat] /\ ledger \in Seq([id : Ids, version : Nat])
  BY DEF Absent
<1>2. stopped \in BOOLEAN /\ active \in BOOLEAN /\ missed \in BOOLEAN /\ (active => loop.at = "connected")
  OBVIOUS
<1>3. loop \in [at : {"ready", "connecting", "handshaking", "welcomed", "connected", "backoff",
                     "ended", "dead"}, attempt : Nat]
  OBVIOUS
<1>4. out \in [doing : {"tail", "page", "queue"}, cursor : Nat, page : Seq(Nat)]
  BY DEF Quiet
<1>5. wire \in Seq(Frames) /\ tail \in [from : Nat, sent : Seq(Nat)]
  OBVIOUS
<1>6. queue \in Seq(BOOLEAN) /\ Len(queue) <= QueueSize
  BY TetherAssumption DEF TetherAssumption
<1>7.  turn \in [Turns -> {"idle", "full", "room", "raised"}]
  OBVIOUS
<1>8. mirror \in [follows : BOOLEAN, copy : [Ids -> Nat], known : Nat, heard : Nat, listed : Nat]
  BY DEF Absent
<1> QED BY <1>1, <1>2, <1>3, <1>4, <1>5, <1>6, <1>7, <1>8 DEF TypeOK, StoreOK, LoopOK, LineOK, QueueOK, ConsoleOK

(* What a frame does to the mirror: it hears of a higher head, or it       *)
(* applies the changes from its cursor to a later one, each resource's     *)
(* last.                                                                   *)
Applied(copy, known, heard) ==
  /\ mirror.follows
  /\ copy \in [Ids -> Nat] /\ known \in mirror.known+1..Len(ledger) /\ heard \in 0..Len(ledger)
  /\ mirror' = [mirror EXCEPT !.copy = copy, !.known = known, !.heard = heard]
  /\ \A i \in Ids :
       \/ Latest(ledger, i, mirror.known, known, copy[i])
       \/ copy[i] = mirror.copy[i] /\ \A d \in mirror.known+1..known : ledger[d].id # i

LEMMA LearntPage ==
  ASSUME TypeOK, MirrorInv, NEW since \in 0..mirror.known, NEW page \in Seq(Nat),
         since + Len(page) <= Len(ledger), Follows(page, since), LearnPage(page)
  PROVE  mirror' = mirror \/ \E copy, known, heard : Applied(copy, known, heard)
<1> DEFINE last == since + Len(page)
           shown == {page[k] : k \in DOMAIN page}
           new == shown \ 0..mirror.known
           About(i) == {c \in new : ledger[c].id = i}
           copy == [i \in Ids |-> IF About(i) = {} THEN mirror.copy[i] ELSE ledger[Newest(About(i))].version]
<1>1. mirror.known \in Nat /\ mirror.heard \in 0..Len(ledger) /\ Len(ledger) \in Nat
  BY LenProperties DEF TypeOK, StoreOK, ConsoleOK, MirrorInv
<1>2. last \in Nat /\ last <= Len(ledger) /\ since <= mirror.known
  BY <1>1, LenProperties
<1>3. shown = since+1..last
  <2>1. DOMAIN page = 1..Len(page) /\ Len(page) \in Nat
    BY LenProperties
  <2>2. ASSUME NEW c \in since+1..last PROVE \E k \in DOMAIN page : page[k] = c
    <3>1. c - since \in DOMAIN page /\ since + (c - since) = c
      BY <2>1
    <3> QED BY <3>1 DEF Follows
  <2>3. ASSUME NEW k \in DOMAIN page PROVE page[k] \in since+1..last
    BY <2>1 DEF Follows
  <2> QED BY <2>2, <2>3
<1>4. CASE ~(mirror.follows /\ new # {})
  BY <1>4 DEF LearnPage
<1>5. CASE mirror.follows /\ new # {}
  <2> HIDE DEF last, shown
  <2>1. \A c : c \in new <=> c \in mirror.known+1..last
    BY <1>1, <1>2, <1>3
  <2>2. mirror' = [mirror EXCEPT !.copy = copy, !.known = Newest(new), !.heard = Highest(@, Newest(new))]
    BY <1>5 DEF LearnPage, shown
  <2> HIDE DEF new
  <2>3. last \in new /\ Newest(new) = last
    <3>1. last \in new /\ \A c \in new : c \in 1..last
      <4>1. \A c \in mirror.known+1..last : c \in 1..last /\ last \in mirror.known+1..last
        BY <1>1, <1>2
      <4>2. new # {}
        BY <1>5
      <4> QED BY <2>1, <4>1, <4>2
    <3>2. new \in SUBSET (1..last) /\ new # {}
      BY <3>1
    <3>3. Newest(new) \in new /\ last <= Newest(new)
      BY <1>2, <3>1, <3>2, NewestIs
    <3>4. Newest(new) \in 1..last
      BY <3>1, <3>3
    <3> QED BY <1>2, <3>1, <3>3, <3>4
  <2>4. ASSUME NEW i \in Ids, About(i) # {}
        PROVE  /\ Newest(About(i)) \in mirror.known+1..last /\ ledger[Newest(About(i))].id = i
               /\ \A later \in Newest(About(i))+1..last : ledger[later].id # i
    <3> DEFINE at == Newest(About(i))
    <3>1. About(i) \in SUBSET (1..last)
      BY <1>1, <2>1
    <3>2. at \in About(i) /\ \A c \in About(i) : c <= at
      <4> HIDE DEF About
      <4> QED BY <1>2, <2>4, <3>1, NewestIs
    <3> HIDE DEF at
    <3>3. at \in mirror.known+1..last /\ ledger[at].id = i
      BY <3>2, <2>1
    <3>4. ASSUME NEW later \in at+1..last, ledger[later].id = i PROVE FALSE
      <4>1. later \in mirror.known+1..last
        BY <1>1, <1>2, <3>3, <3>4
      <4>2. later \in About(i)
        BY <2>1, <3>4, <4>1
      <4>3. later <= at
        BY <4>2, <3>2
      <4>4. later \in Int /\ at \in Int /\ later > at
        BY <1>1, <1>2, <3>3, <3>4
      <4> QED BY <4>3, <4>4
    <3> QED BY <3>3, <3>4 DEF at
  <2>5. ASSUME NEW i \in Ids, About(i) = {}
        PROVE  \A d \in mirror.known+1..last : ledger[d].id # i
    BY <2>1, <2>5
  <2> HIDE DEF About
  <2>6. ASSUME NEW c \in mirror.known+1..last
        PROVE  ledger[c] = [id |-> ledger[c].id, version |-> ledger[c].version] /\ ledger[c].version \in Nat
    <3>1. c \in 1..Len(ledger)
      BY <1>1, <1>2
    <3>2. ledger[c] \in [id : Ids, version : Nat]
      BY <3>1, ElementOfSeq DEF TypeOK, StoreOK
    <3> QED BY <3>2
  <2>7. mirror.copy \in [Ids -> Nat]
    BY DEF TypeOK, ConsoleOK
  <2>8. copy \in [Ids -> Nat]
    BY <2>4, <2>6, <2>7
  <2>9. \A i \in Ids :
          \/ Latest(ledger, i, mirror.known, last, copy[i])
          \/ copy[i] = mirror.copy[i] /\ \A d \in mirror.known+1..last : ledger[d].id # i
    <3> SUFFICES ASSUME NEW i \in Ids
                 PROVE  \/ Latest(ledger, i, mirror.known, last, copy[i])
                        \/ copy[i] = mirror.copy[i] /\ \A d \in mirror.known+1..last : ledger[d].id # i
      OBVIOUS
    <3>1. CASE About(i) = {}
      BY <3>1, <2>5
    <3>2. CASE About(i) # {}
      <4>1. copy[i] = ledger[Newest(About(i))].version
        BY <3>2
      <4>2. ledger[Newest(About(i))] = [id |-> i, version |-> copy[i]]
        BY <3>2, <4>1, <2>4, <2>6
      <4> QED BY <3>2, <4>2, <2>4 DEF Latest
    <3> QED BY <3>1, <3>2
  <2> HIDE DEF copy
  <2>10. last \in mirror.known+1..Len(ledger) /\ Highest(mirror.heard, last) \in 0..Len(ledger)
    BY <1>1, <1>2, <2>1, <2>3 DEF Highest
  <2>11. Applied(copy, last, Highest(mirror.heard, last))
    BY <1>5, <2>2, <2>3, <2>8, <2>9, <2>10 DEF Applied
  <2> QED BY <2>11
<1> QED BY <1>4, <1>5

LEMMA Learnt ==
  ASSUME TypeOK, WireInv, MirrorInv, Deliver
  PROVE  \/ \E heard \in 0..Len(ledger) : mirror' = [mirror EXCEPT !.heard = heard]
         \/ \E copy, known, heard : Applied(copy, known, heard)
<1> DEFINE frame == Head(wire)
<1>1. /\ mirror.known \in 0..Len(ledger) /\ mirror.heard \in 0..Len(ledger) /\ Len(ledger) \in Nat
      /\ ledger \in [1..Len(ledger) -> [id : Ids, version : Nat]]
  <2>1. ledger \in Seq([id : Ids, version : Nat]) /\ mirror.known \in Nat /\ mirror.heard \in Nat
    BY DEF TypeOK, StoreOK, ConsoleOK
  <2>2. Len(ledger) \in Nat /\ ledger \in [1..Len(ledger) -> [id : Ids, version : Nat]]
    BY <2>1, LenProperties
  <2> QED BY <2>1, <2>2 DEF MirrorInv
<1>2. frame \in Frames /\ Fits(frame, Len(ledger), mirror.known)
  <2>1. wire \in Seq(Frames) /\ wire # << >>
    BY DEF Deliver, TypeOK, LineOK
  <2>2. frame = wire[1] /\ 1 \in DOMAIN wire
    BY <2>1
  <2> QED BY <2>1, <2>2, HeadTailProperties DEF WireInv
<1>3. mirror = [mirror EXCEPT !.heard = mirror.heard]
  BY DEF TypeOK, ConsoleOK
<1> HIDE DEF frame
<1>4. CASE frame.type = "hello"
  <2>1. frame.head \in 0..Len(ledger)
    BY <1>2, <1>4, <1>1 DEF Frames, Fits
  <2>2. mirror' = [mirror EXCEPT !.heard = Highest(mirror.heard, frame.head)]
    BY <1>4 DEF Deliver, frame
  <2> QED BY <1>1, <2>1, <2>2 DEF Highest
<1>5. CASE frame.type = "event"
  <2> DEFINE c == frame.cursor
  <2>1. c \in 1..Len(ledger) /\ Learn(c)
    BY <1>2, <1>5, <1>1 DEF Fits, Deliver, frame
  <2> HIDE DEF c
  <2>2. Highest(mirror.heard, c) \in 0..Len(ledger)
    BY <1>1, <2>1 DEF Highest
  <2>3. CASE ~(mirror.follows /\ c = mirror.known + 1)
    BY <2>1, <2>2, <2>3 DEF Learn
  <2>4. CASE mirror.follows /\ c = mirror.known + 1
    <3> DEFINE copy == Update(mirror.copy, c)
    <3>1. ledger[c].id \in Ids /\ ledger[c].version \in Nat /\ ledger[c] = [id |-> ledger[c].id, version |-> ledger[c].version]
      BY <1>1, <2>1
    <3>2. mirror.copy \in [Ids -> Nat]
      BY DEF TypeOK, ConsoleOK
    <3>3. copy \in [Ids -> Nat] /\ \A i \in Ids : copy[i] = IF i = ledger[c].id THEN ledger[c].version ELSE mirror.copy[i]
      BY <3>1, <3>2 DEF Update
    <3>4. mirror' = [mirror EXCEPT !.copy = copy, !.known = c, !.heard = Highest(mirror.heard, c)]
      BY <2>1, <2>4 DEF Learn
    <3> HIDE DEF copy
    <3>5. mirror.known+1..c = {c} /\ c+1..c = {}
      BY <1>1, <2>4
    <3>6. \A i \in Ids : \/ Latest(ledger, i, mirror.known, c, copy[i])
                         \/ copy[i] = mirror.copy[i] /\ \A d \in mirror.known+1..c : ledger[d].id # i
      BY <3>1, <3>3, <3>5 DEF Latest
    <3>7. Applied(copy, c, Highest(mirror.heard, c))
      BY <1>1, <2>1, <2>2, <2>4, <3>3, <3>4, <3>6 DEF Applied
    <3> QED BY <3>7
  <2> QED BY <2>3, <2>4
<1>6. CASE frame.type = "response"
  <2>1. frame.page \in Seq(Nat) /\ LearnPage(frame.page)
    BY <1>2, <1>6 DEF Frames, Deliver, frame
  <2>2. PICK since \in 0..mirror.known : since + Len(frame.page) <= Len(ledger) /\ Follows(frame.page, since)
    BY <1>2, <1>6 DEF Fits
  <2>3. mirror' = mirror \/ \E copy, known, heard : Applied(copy, known, heard)
    BY <2>1, <2>2, LearntPage
  <2> QED BY <1>1, <1>3, <2>3
<1>7. CASE frame.type = "ephemeral"
  BY <1>1, <1>3, <1>7 DEF Deliver, frame
<1> QED BY <1>2, <1>4, <1>5, <1>6, <1>7 DEF Frames

LEMMA TypeStep ==
  ASSUME TypeOK, TailInv, WireInv, MirrorInv, [Next]_vars
  PROVE  TypeOK'
<1> USE DEF Store, Line, Ephemeral, Console, OutboundOnly, PushOnly, Draining
<1>1. StoreOK /\ LoopOK /\ LineOK /\ QueueOK /\ ConsoleOK
  BY DEF TypeOK
<1>2. UNCHANGED Store => StoreOK'
  BY <1>1 DEF StoreOK
<1>3. UNCHANGED << loop, socket, stopped, active, missed, failures >> => LoopOK'
  BY <1>1 DEF LoopOK
<1>4. UNCHANGED << out, wire, tail >> => LineOK'
  BY <1>1 DEF LineOK
<1>5. UNCHANGED Ephemeral => QueueOK'
  BY <1>1 DEF QueueOK
<1>6. UNCHANGED Console => ConsoleOK'
  BY <1>1 DEF ConsoleOK
<1>7. Len(ledger) \in Nat
  BY <1>1 DEF StoreOK
<1>8. queue # << >> => Tail(queue) \in Seq(BOOLEAN) /\ Len(Tail(queue)) <= QueueSize
  <2>1. CASE queue # << >>
    <3>1. queue \in Seq(BOOLEAN) /\ Len(queue) <= QueueSize /\ Len(queue) \in Nat
      BY <1>1, LenProperties DEF QueueOK
    <3>2. Tail(queue) \in Seq(BOOLEAN) /\ Len(Tail(queue)) = Len(queue) - 1
      BY <2>1, <3>1, HeadTailProperties
    <3> QED BY <3>1, <3>2, TetherAssumption DEF TetherAssumption
  <2> QED BY <2>1
<1>9. ASSUME NEW i \in Ids, Write(i) PROVE TypeOK'
  <2>1. PICK v \in IF rows[i] > 0 THEN {0, rows[i] + 1} ELSE IF Mentioned(i) THEN {} ELSE {1} :
          rows' = [rows EXCEPT ![i] = v] /\ ledger' = Append(ledger, [id |-> i, version |-> v])
    BY <1>9 DEF Write
  <2>2. rows[i] \in Nat /\ v \in Nat
    BY <1>1 DEF StoreOK
  <2>3. StoreOK'
    BY <1>1, <2>1, <2>2 DEF StoreOK
  <2> QED BY <1>9, <2>3, <1>3, <1>4, <1>5, <1>6 DEF Write, TypeOK
<1>10. CASE Connect \/ Wake
  <2>1. LoopOK'
    BY <1>10, <1>1 DEF Connect, Wake, LoopOK
  <2> QED BY <1>10, <2>1, <1>2, <1>4, <1>5, <1>6 DEF Connect, Wake, TypeOK
<1>11. CASE ReadHead
  <2>1. LoopOK'
    BY <1>11, <1>1 DEF ReadHead, LoopOK
  <2>2. out' = [doing |-> "tail", cursor |-> Len(ledger), page |-> << >>]
    BY <1>11 DEF ReadHead, Quiet
  <2>3. << >> \in Seq(Nat) /\ wire' = wire /\ tail' = tail
    BY <1>11 DEF ReadHead
  <2>4. LineOK'
    BY <1>1, <1>7, <2>2, <2>3 DEF LineOK
  <2> QED BY <1>11, <2>1, <2>4, <1>2, <1>5, <1>6 DEF ReadHead, TypeOK
<1>12. CASE SendHello
  <2>1. LoopOK'
    BY <1>12, <1>1 DEF SendHello, LoopOK
  <2>2. [type |-> "hello", head |-> out.cursor] \in Frames /\ out.cursor \in Nat
    BY <1>1 DEF Frames, LineOK
  <2>3. LineOK'
    BY <1>12, <1>1, <2>2 DEF SendHello, LineOK
  <2> QED BY <1>12, <2>1, <2>3, <1>2, <1>5, <1>6 DEF SendHello, TypeOK
<1>13. CASE EnterConnected
  <2>1. /\ loop' = [loop EXCEPT !.at = "connected"] /\ active' = TRUE
        /\ UNCHANGED << socket, stopped, missed, failures >>
    BY <1>13 DEF EnterConnected
  <2>2. loop' \in [at : {"ready", "connecting", "handshaking", "welcomed", "connected", "backoff",
                         "ended", "dead"}, attempt : Nat]
    BY <1>1, <2>1 DEF LoopOK
  <2>3. active' \in BOOLEAN
    BY <2>1
  <2>4. LoopOK'
    BY <1>1, <2>1, <2>2, <2>3 DEF LoopOK
  <2>5. QueueOK'
    BY <1>13, <1>1, TetherAssumption DEF EnterConnected, QueueOK, TetherAssumption
  <2> QED BY <1>13, <2>4, <2>5, <1>2, <1>4, <1>6 DEF EnterConnected, TypeOK
<1>14. CASE Disconnect
  <2>1. LoopOK'
    <3>1. Retry.at \in {"backoff", "dead"} /\ Retry.attempt \in Nat
      BY <1>1 DEF Retry, LoopOK
    <3>2. loop' = [at |-> Retry.at, attempt |-> Retry.attempt]
      BY <1>14 DEF Disconnect, Retry
    <3>3. socket' = "none" /\ active' = FALSE /\ UNCHANGED << stopped, missed, failures >>
      BY <1>14 DEF Disconnect
    <3> QED BY <1>1, <3>1, <3>2, <3>3 DEF LoopOK
  <2>2. LineOK'
    BY <1>14, <1>1 DEF Disconnect, Quiet, LineOK
  <2>3. queue' \in [1..Len(queue) -> BOOLEAN]
    BY <1>14, <1>1, LenProperties DEF Disconnect, QueueOK
  <2>4. queue' \in Seq(BOOLEAN) /\ Len(queue') = Len(queue)
    BY <2>3, <1>1, SeqDef, LenProperties DEF QueueOK
  <2>5. QueueOK'
    BY <1>14, <1>1, <2>4 DEF Disconnect, QueueOK
  <2>6. ConsoleOK'
    BY <1>14, <1>1 DEF Disconnect, ConsoleOK
  <2> QED BY <1>14, <2>1, <2>2, <2>5, <2>6, <1>2 DEF Disconnect, TypeOK
<1>15. CASE FailConnect
  <2>1. LoopOK'
    BY <1>15, <1>1 DEF FailConnect, Retry, LoopOK
  <2>2. LineOK'
    BY <1>15, <1>1 DEF FailConnect, Quiet, LineOK
  <2> QED BY <1>15, <2>1, <2>2, <1>2, <1>5, <1>6 DEF FailConnect, TypeOK
<1>16. CASE Drop
  <2>1. LoopOK'
    BY <1>16, <1>1 DEF Drop, LoopOK
  <2>2. LineOK'
    BY <1>16, <1>1 DEF Drop, LineOK
  <2> QED BY <1>16, <2>1, <2>2, <1>2, <1>5, <1>6 DEF Drop, TypeOK
<1>17. CASE Stop
  <2>1. LoopOK'
    BY <1>17, <1>1 DEF Stop, LoopOK
  <2>2. wire' = wire \/ wire' = << >>
    BY <1>17 DEF Stop
  <2>3. << >> \in Seq(Frames)
    OBVIOUS
  <2>4. LineOK'
    BY <1>17, <1>1, <2>2, <2>3 DEF Stop, LineOK
  <2> QED BY <1>17, <2>1, <2>4, <1>2, <1>5, <1>6 DEF Stop, TypeOK
<1>18. CASE ReadPage
  <2>1. out.cursor \in 0..Len(ledger)
    BY <1>1, <1>7 DEF LineOK, TailInv
  <2>2. ChangesSince(out.cursor) \in Seq(Nat)
    BY <2>1, PageFollows
  <2>3. LineOK'
    BY <1>18, <1>1, <2>2 DEF ReadPage, LineOK
  <2> QED BY <1>18, <2>3, <1>2, <1>3, <1>5, <1>6 DEF ReadPage, TypeOK
<1>19. CASE SendEvent
  <2> DEFINE c == Head(out.page)
  <2>1. out.page \in Seq(Nat) /\ out.page # << >> /\ tail.sent \in Seq(Nat)
    BY <1>1, <1>19 DEF LineOK, TailInv, SendEvent
  <2>2. /\ c \in Nat /\ Tail(out.page) \in Seq(Nat) /\ Append(tail.sent, c) \in Seq(Nat)
        /\ << >> \in Seq(Nat) /\ [type |-> "event", cursor |-> c] \in Frames
    BY <2>1, HeadTailProperties, AppendProperties DEF Frames
  <2>3. /\ wire' = Append(wire, [type |-> "event", cursor |-> c])
        /\ tail' = [tail EXCEPT !.sent = Append(tail.sent, c)]
        /\ out' \in {[doing |-> "queue", cursor |-> c, page |-> << >>], [out EXCEPT !.page = Tail(out.page)]}
    BY <1>19 DEF SendEvent
  <2> HIDE DEF c
  <2>4. wire' \in Seq(Frames)
    BY <2>2, <2>3, <1>1 DEF LineOK
  <2>5. tail' \in [from : Nat, sent : Seq(Nat)]
    BY <2>2, <2>3, <1>1 DEF LineOK
  <2>6. ASSUME out' = [doing |-> "queue", cursor |-> c, page |-> << >>] PROVE LineOK'
    BY <2>2, <2>4, <2>5, <2>6 DEF LineOK
  <2>7. ASSUME out' = [out EXCEPT !.page = Tail(out.page)] PROVE LineOK'
    BY <2>2, <2>4, <2>5, <2>7, <1>1 DEF LineOK
  <2>8. LineOK'
    BY <2>3, <2>6, <2>7
  <2> QED BY <1>19, <2>8, <1>2, <1>3, <1>5, <1>6 DEF SendEvent, TypeOK
<1>20. CASE SendFrame
  <2>1. Head(queue) \in BOOLEAN /\ Tail(queue) \in Seq(BOOLEAN) /\ Len(Tail(queue)) <= QueueSize
    BY <1>20, <1>1, <1>8, HeadTailProperties DEF SendFrame, QueueOK
  <2>2. [type |-> "ephemeral", fresh |-> Head(queue)] \in Frames
    BY <2>1 DEF Frames
  <2>3. LineOK'
    BY <1>20, <1>1, <2>2 DEF SendFrame, LineOK
  <2>4. QueueOK'
    BY <1>20, <1>1, <2>1 DEF SendFrame, QueueOK
  <2> QED BY <1>20, <2>3, <2>4, <1>2, <1>3, <1>6 DEF SendFrame, TypeOK
<1>21. CASE Rest
  <2>1. LineOK'
    BY <1>21, <1>1 DEF Rest, LineOK
  <2> QED BY <1>21, <2>1, <1>2, <1>3, <1>5, <1>6 DEF Rest, TypeOK
<1>22. CASE FailSend
  <2>1. << >> \in Seq(Nat)
    OBVIOUS
  <2>2. LineOK'
    BY <1>22, <1>1, <2>1 DEF FailSend, LineOK
  <2>3. queue' = queue \/ (queue # << >> /\ queue' = Tail(queue))
    BY <1>22 DEF FailSend
  <2>4. queue' \in Seq(BOOLEAN) /\ Len(queue') <= QueueSize
    BY <1>1, <2>3, <1>8 DEF QueueOK
  <2>5. QueueOK'
    BY <1>22, <1>1, <2>4 DEF FailSend, QueueOK
  <2> QED BY <1>22, <2>2, <2>5, <1>2, <1>3, <1>6 DEF FailSend, TypeOK
<1>23. CASE Serve
  <2>1. PICK since \in asked :
          wire' = wire \/ wire' = Append(wire, [type |-> "response", page |-> ChangesSince(since)])
    BY <1>23 DEF Serve
  <2>2. since \in 0..Len(ledger)
    BY <1>1, <1>7 DEF MirrorInv, ConsoleOK
  <2>3. [type |-> "response", page |-> ChangesSince(since)] \in Frames
    BY <2>2, PageFollows DEF Frames
  <2>4. LineOK'
    BY <1>23, <1>1, <2>1, <2>3 DEF Serve, LineOK
  <2>5. ConsoleOK'
    BY <1>23, <1>1 DEF Serve, ConsoleOK
  <2> QED BY <1>23, <2>4, <2>5, <1>2, <1>3, <1>5 DEF Serve, TypeOK
<1>24. CASE Deliver
  <2>1. Head(wire) \in Frames /\ Tail(wire) \in Seq(Frames)
    BY <1>24, <1>1, HeadTailProperties DEF Deliver, LineOK
  <2>2. LineOK'
    BY <1>24, <1>1, <2>1 DEF Deliver, LineOK
  <2>3. mirror' \in [follows : BOOLEAN, copy : [Ids -> Nat], known : Nat, heard : Nat, listed : Nat]
    <3>1. CASE \E heard \in 0..Len(ledger) : mirror' = [mirror EXCEPT !.heard = heard]
      BY <3>1, <1>1, <1>7 DEF ConsoleOK
    <3>2. CASE \E copy, known, heard : Applied(copy, known, heard)
      <4>1. PICK copy, known, heard : Applied(copy, known, heard)
        BY <3>2
      <4>2. copy \in [Ids -> Nat] /\ known \in Nat /\ heard \in Nat
        BY <4>1, <1>1, <1>7 DEF Applied, ConsoleOK
      <4> QED BY <4>1, <4>2, <1>1 DEF Applied, ConsoleOK
    <3> QED BY <1>24, <3>1, <3>2, Learnt
  <2>4. ConsoleOK'
    BY <1>24, <1>1, <2>3 DEF Deliver, ConsoleOK
  <2> QED BY <1>24, <2>2, <2>4, <1>2, <1>3, <1>5 DEF Deliver, TypeOK
<1>25. CASE Ask
  <2>1. asked' = {mirror.known} /\ mirror' = mirror /\ repairs' = repairs /\ mirror.known \in Nat
    BY <1>25, <1>1 DEF Ask, ConsoleOK
  <2>2. asked' \subseteq Nat
    BY <2>1
  <2>3. ConsoleOK'
    BY <1>1, <2>1, <2>2 DEF ConsoleOK
  <2> QED BY <1>25, <2>3, <1>2, <1>3, <1>4, <1>5 DEF Ask, TypeOK
<1>26. CASE TakeHead
  <2>1. mirror' \in [follows : BOOLEAN, copy : [Ids -> Nat], known : Nat, heard : Nat, listed : Nat]
    BY <1>26, <1>1, <1>7 DEF TakeHead, ConsoleOK
  <2>2. ConsoleOK'
    BY <1>26, <1>1, <2>1 DEF TakeHead, ConsoleOK
  <2> QED BY <1>26, <2>2, <1>2, <1>3, <1>4, <1>5 DEF TakeHead, TypeOK
<1>27. CASE TakeInventory
  <2>1. Inventory \in [Ids -> Nat]
    BY <1>1 DEF StoreOK, Inventory
  <2>2. mirror.listed \in Nat /\ Highest(mirror.heard, mirror.listed) \in Nat
    BY <1>1 DEF Highest, ConsoleOK
  <2>3. mirror' \in [follows : BOOLEAN, copy : [Ids -> Nat], known : Nat, heard : Nat, listed : Nat]
    BY <1>27, <1>7, <2>1, <2>2 DEF TakeInventory
  <2>4. ConsoleOK'
    BY <1>27, <1>1, <2>3 DEF TakeInventory, ConsoleOK
  <2> QED BY <1>27, <2>4, <1>2, <1>3, <1>4, <1>5 DEF TakeInventory, TypeOK
<1>28. ASSUME NEW t \in Turns, Push(t) \/ PushAgain(t) PROVE TypeOK'
  <2> DEFINE added == Append(queue, loop.at = "connected")
  <2>1. Put(t)
    BY <1>28 DEF Push, PushAgain
  <2>2. (queue' = added /\ Len(queue) < QueueSize) \/ queue' = queue
    BY <2>1 DEF Put
  <2>3. added \in Seq(BOOLEAN) /\ Len(added) = Len(queue) + 1 /\ Len(queue) \in Nat
    BY <1>1, AppendProperties, LenProperties DEF QueueOK
  <2>4. Len(queue) < QueueSize => Len(queue) + 1 <= QueueSize
    BY <2>3, TetherAssumption DEF TetherAssumption
  <2> HIDE DEF added
  <2>5. queue' \in Seq(BOOLEAN) /\ Len(queue') <= QueueSize
    BY <2>2, <2>3, <2>4, <1>1 DEF QueueOK
  <2>6. turn' \in [Turns -> {"idle", "full", "room", "raised"}]
    BY <2>1, <1>1 DEF Put, QueueOK
  <2>7. QueueOK'
    BY <1>28, <1>1, <2>5, <2>6 DEF Push, PushAgain, QueueOK
  <2> QED BY <1>28, <2>7, <1>2, <1>3, <1>4, <1>6 DEF Push, PushAgain, TypeOK
<1>29. ASSUME NEW t \in Turns, MakeRoom(t) PROVE TypeOK'
  <2>1. queue' = queue \/ (queue # << >> /\ queue' = Tail(queue))
    BY <1>29 DEF MakeRoom
  <2>2. queue' \in Seq(BOOLEAN) /\ Len(queue') <= QueueSize
    BY <1>1, <2>1, <1>8 DEF QueueOK
  <2>3. turn' \in [Turns -> {"idle", "full", "room", "raised"}]
    BY <1>29, <1>1 DEF MakeRoom, QueueOK
  <2>4. QueueOK'
    BY <1>29, <1>1, <2>2, <2>3 DEF MakeRoom, QueueOK
  <2> QED BY <1>29, <2>4, <1>2, <1>3, <1>4, <1>6 DEF MakeRoom, TypeOK
<1>30. CASE UNCHANGED vars
  BY <1>30, <1>2, <1>3, <1>4, <1>5, <1>6 DEF vars, TypeOK
<1> QED
  BY <1>9, <1>10, <1>11, <1>12, <1>13, <1>14, <1>15, <1>16, <1>18, <1>19, <1>20, <1>21, <1>23,
     <1>24, <1>25, <1>27, <1>28, <1>29, <1>30, <1>17, <1>22, <1>26 DEF Next, Connection, Outbound

-----------------------------------------------------------------------------
(* The socket, the tail and the queue.                                     *)

LEMMA SocketStep ==
  ASSUME TypeOK, SocketInv, [Next]_vars
  PROVE  SocketInv'
<1> USE DEF Line, Draining, OutboundOnly, PushOnly
<1>1. loop = [at |-> loop.at, attempt |-> loop.attempt]
  BY DEF TypeOK, LoopOK
<1>2. CASE UNCHANGED << loop, socket, wire, active >>
  BY <1>2 DEF SocketInv
<1>3. CASE Connect \/ Wake \/ ReadHead
  BY <1>3, <1>1 DEF SocketInv, Connect, Wake, ReadHead
<1>4. CASE FailConnect
  BY <1>4, <1>1 DEF SocketInv, FailConnect, Retry
<1>5. CASE SendHello
  BY <1>5, <1>1 DEF SocketInv, SendHello
<1>6. CASE EnterConnected
  <2>1. loop'.at = "connected" /\ loop.at = "welcomed" /\ UNCHANGED << socket, wire >>
    BY <1>6, <1>1 DEF EnterConnected
  <2> QED BY <2>1 DEF SocketInv
<1>7. CASE Disconnect
  <2>1. loop'.at \in {"dead", "backoff"} /\ socket' = "none" /\ ~active' /\ wire' = wire
        /\ socket = "closed"
    BY <1>7 DEF Disconnect, Retry
  <2>2. wire' = << >>
    BY <2>1 DEF SocketInv
  <2> QED BY <2>1, <2>2 DEF SocketInv
<1>8. CASE Drop \/ Stop
  BY <1>8 DEF SocketInv, Drop, Stop
<1>9. CASE SendEvent \/ SendFrame
  BY <1>9 DEF SocketInv, SendEvent, SendFrame
<1>10. CASE Serve
  BY <1>10 DEF SocketInv, Serve
<1>11. CASE Deliver
  BY <1>11 DEF SocketInv, Deliver
<1>12. CASE ReadPage \/ Rest \/ FailSend \/ Ask \/ TakeHead \/ TakeInventory \/ UNCHANGED vars
            \/ (\E i \in Ids : Write(i)) \/ (\E t \in Turns : Push(t) \/ MakeRoom(t) \/ PushAgain(t))
  BY <1>12, <1>2 DEF ReadPage, Rest, FailSend, Ask, TakeHead, TakeInventory, Write, Push, MakeRoom,
     PushAgain, vars
<1> QED BY <1>3, <1>4, <1>5, <1>6, <1>7, <1>8, <1>9, <1>10, <1>11, <1>12 DEF Next, Connection, Outbound

LEMMA QueueStep ==
  ASSUME TypeOK, SocketInv, QueueInv, [Next]_vars
  PROVE  QueueInv'
<1> USE DEF Line, Ephemeral, Draining, OutboundOnly, PushOnly
<1>1. /\ loop = [at |-> loop.at, attempt |-> loop.attempt]
      /\ wire \in Seq(Frames) /\ queue \in Seq(BOOLEAN)
  BY DEF TypeOK, LoopOK, LineOK, QueueOK
<1>2. ASSUME wire' = wire \/ wire' = << >> PROVE NoLateDelta'
  BY <1>2 DEF QueueInv, NoLateDelta
<1>3. ASSUME NEW frame, wire' = Append(wire, frame), frame.type = "ephemeral" => frame.fresh
      PROVE  NoLateDelta'
  <2>1. /\ DOMAIN wire = 1..Len(wire) /\ DOMAIN wire' = 1..(Len(wire) + 1) /\ Len(wire) \in Nat
        /\ \A k \in DOMAIN wire : wire'[k] = wire[k]
        /\ wire'[Len(wire) + 1] = frame
    BY <1>1, <1>3
  <2> QED BY <1>3, <2>1 DEF QueueInv, NoLateDelta
<1>4. ASSUME loop'.at # "connected" \/ queue' = << >> \/ UNCHANGED << queue, loop >>,
             wire' = wire \/ wire' = << >>
      PROVE  QueueInv'
  BY <1>2, <1>4 DEF QueueInv
<1>5. CASE Connect \/ ReadHead \/ Wake \/ FailConnect
  BY <1>5, <1>1, <1>4 DEF Connect, ReadHead, Wake, FailConnect, Retry
<1>6. CASE SendHello
  <2>1. loop'.at = "welcomed" /\ wire' = << [type |-> "hello", head |-> out.cursor] >>
    BY <1>6, <1>1 DEF SendHello
  <2>2. NoLateDelta'
    BY <2>1 DEF NoLateDelta
  <2> QED BY <2>1, <2>2 DEF QueueInv
<1>7. CASE EnterConnected
  BY <1>7, <1>4 DEF EnterConnected
<1>8. CASE Disconnect
  <2>1. loop'.at \in {"dead", "backoff"} /\ wire' = wire
    BY <1>8 DEF Disconnect, Retry
  <2> QED BY <2>1, <1>4
<1>9. CASE Drop \/ Stop
  BY <1>9, <1>4 DEF Drop, Stop
<1>10. CASE SendEvent
  <2> DEFINE frame == [type |-> "event", cursor |-> Head(out.page)]
  <2>1. wire' = Append(wire, frame) /\ UNCHANGED << loop, queue >>
    BY <1>10 DEF SendEvent
  <2>2. NoLateDelta'
    BY <2>1, <1>3
  <2> QED BY <2>1, <2>2 DEF QueueInv
<1>11. CASE SendFrame
  <2>1. /\ wire' = Append(wire, [type |-> "ephemeral", fresh |-> Head(queue)])
        /\ queue # << >> /\ queue' = Tail(queue) /\ loop' = loop /\ loop.at = "connected"
    BY <1>11 DEF SendFrame
  <2>2. Head(queue)
    <3>1. 1 \in DOMAIN queue /\ Head(queue) = queue[1]
      BY <1>1, <2>1
    <3> QED BY <2>1, <3>1 DEF QueueInv
  <2>3. NoLateDelta'
    BY <2>1, <2>2, <1>3 DEF Frames
  <2>4. \A k \in DOMAIN queue' : queue'[k]
    BY <1>1, <2>1, HeadTailProperties, LenProperties DEF QueueInv
  <2> QED BY <2>1, <2>3, <2>4 DEF QueueInv
<1>12. CASE FailSend
  <2>1. /\ wire' = wire /\ loop' = loop /\ loop.at = "connected"
        /\ queue' = queue \/ (queue # << >> /\ queue' = Tail(queue))
    BY <1>12 DEF FailSend
  <2>2. \A k \in DOMAIN queue' : queue'[k]
    BY <1>1, <2>1, HeadTailProperties, LenProperties DEF QueueInv
  <2> QED BY <2>1, <2>2, <1>2 DEF QueueInv
<1>13. CASE Serve
  <2>1. PICK since \in asked :
          wire' = wire \/ wire' = Append(wire, [type |-> "response", page |-> ChangesSince(since)])
    BY <1>13 DEF Serve
  <2>2. NoLateDelta'
    BY <2>1, <1>2, <1>3
  <2> QED BY <1>13, <2>2 DEF Serve, QueueInv
<1>14. CASE Deliver
  <2>1. wire # << >> /\ wire' = Tail(wire) /\ UNCHANGED << loop, queue >>
    BY <1>14 DEF Deliver
  <2>2. NoLateDelta'
    BY <1>1, <2>1, HeadTailProperties, LenProperties DEF QueueInv, NoLateDelta
  <2> QED BY <2>1, <2>2 DEF QueueInv
<1>15. ASSUME NEW t \in Turns, Push(t) \/ PushAgain(t) PROVE QueueInv'
  <2> DEFINE now == loop.at = "connected"
  <2>1. UNCHANGED << wire, loop >> /\ Put(t)
    BY <1>15 DEF Push, PushAgain
  <2>2. queue' = Append(queue, now) \/ queue' = queue
    BY <2>1 DEF Put
  <2>3. now \in BOOLEAN
    OBVIOUS
  <2>4. ASSUME now PROVE \A k \in DOMAIN queue' : queue'[k]
    <3>1. CASE queue' = Append(queue, TRUE)
      BY <1>1, <3>1, <2>4, AppendProperties, LenProperties DEF QueueInv
    <3> QED BY <2>2, <2>4, <3>1 DEF QueueInv
  <2> QED BY <2>1, <2>4, <1>2 DEF QueueInv
<1>16. ASSUME NEW t \in Turns, MakeRoom(t) PROVE QueueInv'
  <2>1. /\ UNCHANGED << wire, loop >>
        /\ queue' = queue \/ (queue # << >> /\ queue' = Tail(queue))
    BY <1>16 DEF MakeRoom
  <2>2. ASSUME loop.at = "connected" PROVE \A k \in DOMAIN queue' : queue'[k]
    BY <1>1, <2>1, <2>2, HeadTailProperties, LenProperties DEF QueueInv
  <2> QED BY <2>1, <2>2, <1>2 DEF QueueInv
<1>17. CASE ReadPage \/ Rest \/ Ask \/ TakeHead \/ TakeInventory \/ UNCHANGED vars
            \/ \E i \in Ids : Write(i)
  BY <1>17, <1>4 DEF ReadPage, Rest, Ask, TakeHead, TakeInventory, Write, vars
<1> QED
  BY <1>5, <1>6, <1>7, <1>8, <1>9, <1>10, <1>11, <1>12, <1>13, <1>14, <1>15, <1>16, <1>17
     DEF Next, Connection, Outbound

(* The tail: what was sent and the page in hand follow the hello's head.   *)
LEMMA TailStep ==
  ASSUME TypeOK, SocketInv, TailInv, [Next]_vars
  PROVE  TailInv'
<1> USE DEF Store, Line, Draining, OutboundOnly, PushOnly
<1>1. /\ loop = [at |-> loop.at, attempt |-> loop.attempt]
      /\ out = [doing |-> out.doing, cursor |-> out.cursor, page |-> out.page]
      /\ tail = [from |-> tail.from, sent |-> tail.sent]
      /\ out.cursor \in Nat /\ out.page \in Seq(Nat) /\ tail.from \in Nat /\ tail.sent \in Seq(Nat)
      /\ Len(ledger) \in Nat /\ Len(out.page) \in Nat /\ Len(tail.sent) \in Nat
  BY LenProperties DEF TypeOK, StoreOK, LoopOK, LineOK
<1>2. CASE UNCHANGED << ledger, loop, socket, out, tail >>
  BY <1>2 DEF TailInv, NothingSkipped
<1>3. ASSUME NEW i \in Ids, Write(i) PROVE TailInv'
  <2>1. Len(ledger') = Len(ledger) + 1
    BY <1>3 DEF Write, TypeOK, StoreOK
  <2>2. UNCHANGED << loop, socket, out, tail >>
    BY <1>3 DEF Write
  <2> QED BY <1>1, <2>1, <2>2 DEF TailInv, NothingSkipped
<1>4. CASE Connect \/ Wake
  <2>1. loop'.at \in {"ended", "connecting", "ready"} /\ UNCHANGED << ledger, out, tail >>
    BY <1>4, <1>1 DEF Connect, Wake
  <2> QED BY <2>1 DEF TailInv, NothingSkipped
<1>5. CASE FailConnect \/ Disconnect
  <2>1. loop'.at \in {"dead", "backoff"} /\ out' = Quiet /\ UNCHANGED << ledger, tail >>
    BY <1>5 DEF FailConnect, Disconnect, Retry
  <2> QED BY <1>1, <2>1 DEF TailInv, NothingSkipped, Quiet
<1>6. CASE ReadHead
  <2>1. /\ loop'.at = "handshaking" /\ UNCHANGED << ledger, tail >>
        /\ out' = [doing |-> "tail", cursor |-> Len(ledger), page |-> << >>]
    BY <1>6, <1>1 DEF ReadHead, Quiet
  <2>2. NothingSkipped'
    BY <2>1 DEF TailInv, NothingSkipped
  <2>3. out' = [Quiet EXCEPT !.cursor = out'.cursor] /\ Len(out'.page) = 0
    BY <2>1 DEF Quiet
  <2> QED BY <1>1, <2>1, <2>2, <2>3 DEF TailInv
<1>7. CASE SendHello
  <2>1. /\ loop.at = "handshaking" /\ loop'.at = "welcomed" /\ UNCHANGED << ledger, out >>
        /\ tail' = [from |-> out.cursor, sent |-> << >>]
    BY <1>7, <1>1 DEF SendHello
  <2>2. NothingSkipped'
    BY <2>1 DEF NothingSkipped
  <2> QED BY <1>1, <2>1, <2>2 DEF TailInv, Quiet
<1>8. CASE EnterConnected
  <2>1. loop.at = "welcomed" /\ loop'.at = "connected" /\ UNCHANGED << ledger, out, tail >>
    BY <1>8, <1>1 DEF EnterConnected
  <2>2. out.page = << >> /\ out.cursor = tail.from /\ out.doing = "tail" /\ tail.sent = << >>
    BY <2>1 DEF TailInv, Quiet
  <2>3. Len(out.page) = 0 /\ Len(tail.sent) = 0 /\ Follows(out.page, tail.from)
    BY <2>2 DEF Follows
  <2> QED BY <1>1, <2>1, <2>2, <2>3 DEF TailInv, NothingSkipped
<1>9. CASE Drop \/ Stop
  BY <1>9, <1>2 DEF Drop, Stop, TailInv, NothingSkipped, SocketInv
<1>10. CASE ReadPage
  <2> DEFINE page == ChangesSince(out.cursor)
  <2>1. /\ loop.at = "connected" /\ out.doing = "tail" /\ UNCHANGED << ledger, loop, socket, tail >>
        /\ out' = [doing |-> IF page = << >> THEN "queue" ELSE "page", cursor |-> out.cursor, page |-> page]
    BY <1>10, <1>1 DEF ReadPage
  <2>2. out.cursor \in 0..Len(ledger)
    BY <1>1 DEF TailInv
  <2>3. page \in Seq(Nat) /\ Follows(page, out.cursor) /\ out.cursor + Len(page) <= Len(ledger)
    BY <2>2, PageFollows
  <2> HIDE DEF page
  <2> QED BY <1>1, <2>1, <2>3 DEF TailInv, NothingSkipped
<1>11. CASE SendEvent
  <2> DEFINE c == Head(out.page)
             at == tail.from + Len(tail.sent)
             sent == Append(tail.sent, c)
             rest == Tail(out.page)
  <2>1. /\ loop.at = "connected" /\ out.doing = "page" /\ socket = "open"
        /\ UNCHANGED << ledger, loop, socket >>
    BY <1>11 DEF SendEvent
  <2>2. tail' = [from |-> tail.from, sent |-> sent]
    BY <1>11, <1>1 DEF SendEvent
  <2>3. /\ Len(out.page) = 1 => out' = [doing |-> "queue", cursor |-> c, page |-> << >>]
        /\ Len(out.page) # 1 => out' = [doing |-> "page", cursor |-> out.cursor, page |-> rest]
    BY <1>11, <1>1, <2>1 DEF SendEvent
  <2>4. out.page # << >> /\ Follows(out.page, at) /\ at + Len(out.page) <= Len(ledger) /\ at \in Nat
    BY <1>1, <2>1 DEF TailInv
  <2>5. c = at + 1 /\ Follows(rest, at + 1)
    BY <1>1, <2>4, FollowsRest
  <2>6. Len(rest) = Len(out.page) - 1 /\ rest \in Seq(Nat) /\ Len(out.page) \in Nat \ {0}
    BY <1>1, <2>4, HeadTailProperties, EmptySeq
  <2>7. Len(sent) = Len(tail.sent) + 1 /\ Follows(sent, tail.from)
    <3>1. Follows(tail.sent, tail.from)
      BY DEF TailInv, NothingSkipped, Follows
    <3>2. Follows(Append(tail.sent, tail.from + Len(tail.sent) + 1), tail.from)
      BY <1>1, <3>1, FollowsOn
    <3> QED BY <1>1, <2>4, <2>5, <3>2, AppendProperties
  <2> HIDE DEF c, rest, sent
  <2>8. NothingSkipped'
    BY <2>2, <2>7 DEF NothingSkipped, Follows
  <2>9. CASE Len(out.page) = 1
    <3>1. Follows(<< >>, at + 1) /\ Len(<< >>) = 0
      BY DEF Follows
    <3> QED BY <1>1, <2>1, <2>2, <2>3, <2>4, <2>5, <2>7, <2>8, <2>9, <3>1 DEF TailInv
  <2>10. CASE Len(out.page) # 1
    <3>1. rest # << >>
      <4>1. Len(rest) # 0
        BY <2>6, <2>10
      <4>2. Len(<< >>) = 0
        OBVIOUS
      <4> QED BY <4>1, <4>2
    <3>2. out'.doing = "page" /\ out'.cursor = out.cursor /\ out'.page = rest
      BY <2>3, <2>10
    <3>3. tail'.from + Len(tail'.sent) = at + 1
      <4>1. tail'.from = tail.from /\ Len(tail'.sent) = Len(tail.sent) + 1
        BY <2>2, <2>7
      <4> QED BY <1>1, <4>1
    <3>4. out'.cursor + Len(out'.page) <= Len(ledger) /\ at + 1 + Len(out'.page) <= Len(ledger)
      <4>1. Len(out'.page) = Len(out.page) - 1 /\ out'.cursor = out.cursor
        BY <2>6, <3>2
      <4>2. out.cursor + Len(out.page) <= Len(ledger)
        BY DEF TailInv
      <4>3. out'.cursor + Len(out'.page) <= Len(ledger)
        BY <1>1, <2>6, <4>1, <4>2
      <4> HIDE DEF at
      <4>4. at + 1 + Len(out'.page) <= Len(ledger)
        BY <1>1, <2>4, <2>6, <4>1
      <4> QED BY <4>3, <4>4
    <3> HIDE DEF at
    <3> QED BY <2>1, <2>5, <2>8, <3>1, <3>2, <3>3, <3>4 DEF TailInv
  <2> QED BY <2>9, <2>10
<1>12. CASE Rest
  <2>1. /\ out.doing = "queue" /\ UNCHANGED << ledger, loop, socket, tail >>
        /\ out' = [doing |-> "tail", cursor |-> out.cursor, page |-> out.page]
        /\ loop.at = "connected"
    BY <1>12, <1>1 DEF Rest
  <2> QED BY <1>1, <2>1 DEF TailInv, NothingSkipped
<1>13. CASE FailSend
  <2>1. /\ socket = "closed" /\ loop.at = "connected" /\ UNCHANGED << ledger, loop, socket, tail >>
        /\ out' = [doing |-> "tail", cursor |-> out.cursor, page |-> << >>]
    BY <1>13, <1>1 DEF FailSend
  <2> QED BY <1>1, <2>1 DEF TailInv, NothingSkipped
<1>14. CASE SendFrame \/ Serve \/ Deliver \/ Ask \/ TakeHead \/ TakeInventory \/ UNCHANGED vars
            \/ (\E t \in Turns : Push(t) \/ MakeRoom(t) \/ PushAgain(t))
  BY <1>14, <1>2 DEF SendFrame, Serve, Deliver, Ask, TakeHead, TakeInventory, Push, MakeRoom,
     PushAgain, vars
<1> QED
  BY <1>3, <1>4, <1>5, <1>6, <1>7, <1>8, <1>9, <1>10, <1>11, <1>12, <1>13, <1>14
     DEF Next, Connection, Outbound

-----------------------------------------------------------------------------
(* The wire and the mirror.                                                *)

(* Only record_change touches the rows and the ledger.                     *)
Recorded(i, v) ==
  /\ rows' = [rows EXCEPT ![i] = v]
  /\ ledger' = Append(ledger, [id |-> i, version |-> v])
  /\ UNCHANGED << mirror, wire, asked, stopped >>

LEMMA LedgerStep ==
  ASSUME TypeOK, [Next]_vars
  PROVE  \/ UNCHANGED << rows, ledger >>
         \/ \E i \in Ids, v \in Nat : Recorded(i, v)
<1> USE DEF Store, Line, Console, OutboundOnly, PushOnly
<1>1. ASSUME NEW i \in Ids, Write(i) PROVE \E v \in Nat : Recorded(i, v)
  <2>1. PICK v \in IF rows[i] > 0 THEN {0, rows[i] + 1} ELSE IF Mentioned(i) THEN {} ELSE {1} :
          rows' = [rows EXCEPT ![i] = v] /\ ledger' = Append(ledger, [id |-> i, version |-> v])
    BY <1>1 DEF Write
  <2>2. v \in Nat
    BY DEF TypeOK, StoreOK
  <2>3. Recorded(i, v)
    BY <1>1, <2>1 DEF Write, Recorded
  <2> QED BY <2>2, <2>3
<1>2. CASE Connection \/ FailConnect \/ Drop \/ Stop
  BY <1>2 DEF Connection, Connect, ReadHead, SendHello, EnterConnected, Disconnect, Wake, FailConnect,
     Drop, Stop
<1>3. CASE Outbound \/ Serve \/ Deliver \/ Ask \/ TakeHead \/ TakeInventory \/ UNCHANGED vars
  BY <1>3 DEF Outbound, ReadPage, SendEvent, SendFrame, Rest, FailSend, Serve, Deliver, Ask, TakeHead,
     TakeInventory, vars
<1>4. ASSUME NEW t \in Turns, Push(t) \/ MakeRoom(t) \/ PushAgain(t) PROVE UNCHANGED << rows, ledger >>
  BY <1>4 DEF Push, MakeRoom, PushAgain
<1> QED BY <1>1, <1>2, <1>3, <1>4 DEF Next

(* What the mirror may do in a step.                                       *)
LEMMA MirrorMoves ==
  ASSUME TypeOK, WireInv, MirrorInv, [Next]_vars
  PROVE  \/ mirror' = mirror
         \/ \E heard \in 0..Len(ledger) : mirror' = [mirror EXCEPT !.heard = heard]
         \/ \E copy, known, heard : Applied(copy, known, heard)
         \/ TakeHead
         \/ TakeInventory
<1> USE DEF Store, Line, Console, OutboundOnly, PushOnly
<1>1. CASE Connection \/ FailConnect \/ Drop \/ Stop
  BY <1>1 DEF Connection, Connect, ReadHead, SendHello, EnterConnected, Disconnect, Wake, FailConnect,
     Drop, Stop
<1>2. CASE Outbound \/ Serve \/ Ask \/ UNCHANGED vars
  BY <1>2 DEF Outbound, ReadPage, SendEvent, SendFrame, Rest, FailSend, Serve, Ask, vars
<1>3. CASE Deliver
  BY <1>3, Learnt
<1>4. ASSUME NEW i \in Ids, Write(i) PROVE mirror' = mirror
  BY <1>4 DEF Write
<1>5. ASSUME NEW t \in Turns, Push(t) \/ MakeRoom(t) \/ PushAgain(t) PROVE mirror' = mirror
  BY <1>5 DEF Push, MakeRoom, PushAgain
<1> QED BY <1>1, <1>2, <1>3, <1>4, <1>5 DEF Next

(* The ledger and the mirror's cursor only grow.                           *)
LEMMA Grows ==
  ASSUME TypeOK, WireInv, MirrorInv, [Next]_vars
  PROVE  /\ Len(ledger) \in Nat /\ Len(ledger') \in Nat /\ Len(ledger) <= Len(ledger')
         /\ mirror.known \in Nat /\ mirror'.known \in Nat /\ mirror.known <= mirror'.known
<1>1. /\ ledger \in Seq([id : Ids, version : Nat]) /\ Len(ledger) \in Nat
      /\ mirror = [follows |-> mirror.follows, copy |-> mirror.copy, known |-> mirror.known,
                   heard |-> mirror.heard, listed |-> mirror.listed]
      /\ mirror.known \in Nat /\ mirror.listed \in Nat
  BY LenProperties DEF TypeOK, StoreOK, ConsoleOK
<1>2. Len(ledger') \in Nat /\ Len(ledger) <= Len(ledger')
  <2>1. ASSUME NEW i \in Ids, NEW v \in Nat, Recorded(i, v)
        PROVE  Len(ledger') = Len(ledger) + 1
    BY <1>1, <2>1, AppendProperties DEF Recorded
  <2> QED BY <1>1, <2>1, LedgerStep
<1>3. mirror'.known \in Nat /\ mirror.known <= mirror'.known
  <2>1. CASE mirror' = mirror
    BY <1>1, <2>1
  <2>2. CASE \E heard \in 0..Len(ledger) : mirror' = [mirror EXCEPT !.heard = heard]
    BY <1>1, <2>2
  <2>3. CASE \E copy, known, heard : Applied(copy, known, heard)
    <3>1. PICK copy, known, heard : Applied(copy, known, heard)
      BY <2>3
    <3>2. mirror'.known = known /\ known \in mirror.known+1..Len(ledger)
      BY <1>1, <3>1 DEF Applied
    <3> QED BY <1>1, <3>2
  <2>4. CASE TakeHead
    <3>1. mirror'.known = mirror.known
      BY <1>1, <2>4 DEF TakeHead
    <3> QED BY <1>1, <3>1
  <2>5. CASE TakeInventory
    BY <1>1, <2>5 DEF TakeInventory, MirrorInv
  <2> QED BY <2>1, <2>2, <2>3, <2>4, <2>5, MirrorMoves
<1> QED BY <1>1, <1>2, <1>3

LEMMA MirrorStep ==
  ASSUME TypeOK, WireInv, MirrorInv, [Next]_vars
  PROVE  MirrorInv'
<1> USE DEF Store, Line, Console, OutboundOnly, PushOnly
<1>1. /\ mirror.known \in Nat /\ mirror.heard \in Nat /\ mirror.listed \in Nat
      /\ mirror = [follows |-> mirror.follows, copy |-> mirror.copy, known |-> mirror.known,
                   heard |-> mirror.heard, listed |-> mirror.listed]
      /\ mirror'.known \in Nat /\ mirror.known <= mirror'.known
      /\ Len(ledger) \in Nat /\ Len(ledger') \in Nat /\ Len(ledger) <= Len(ledger')
  <2>1. /\ mirror.known \in Nat /\ mirror.heard \in Nat /\ mirror.listed \in Nat
        /\ mirror = [follows |-> mirror.follows, copy |-> mirror.copy, known |-> mirror.known,
                     heard |-> mirror.heard, listed |-> mirror.listed]
    BY DEF TypeOK, ConsoleOK
  <2> QED BY <2>1, Grows
<1>2. asked' \subseteq asked \cup {mirror.known}
  <2>1. CASE Connection \/ FailConnect \/ Drop \/ Stop
    BY <2>1 DEF Connection, Connect, ReadHead, SendHello, EnterConnected, Disconnect, Wake, FailConnect,
       Drop, Stop
  <2>2. CASE Outbound \/ Serve \/ Deliver \/ Ask \/ TakeHead \/ TakeInventory \/ UNCHANGED vars
    BY <2>2 DEF Outbound, ReadPage, SendEvent, SendFrame, Rest, FailSend, Serve, Deliver, Ask, TakeHead,
       TakeInventory, vars
  <2>3. ASSUME NEW i \in Ids, Write(i) PROVE asked' = asked
    BY <2>3 DEF Write
  <2>4. ASSUME NEW t \in Turns, Push(t) \/ MakeRoom(t) \/ PushAgain(t) PROVE asked' = asked
    BY <2>4 DEF Push, MakeRoom, PushAgain
  <2> QED BY <2>1, <2>2, <2>3, <2>4 DEF Next
<1>3. asked' \subseteq 0..mirror'.known
  BY <1>1, <1>2 DEF MirrorInv
<1>4. /\ mirror'.known <= Len(ledger') /\ mirror'.heard <= Len(ledger') /\ mirror'.listed <= Len(ledger')
      /\ ~mirror'.follows => mirror'.known <= mirror'.listed
  <2>1. CASE mirror' = mirror
    BY <1>1, <2>1 DEF MirrorInv
  <2>2. CASE \E heard \in 0..Len(ledger) : mirror' = [mirror EXCEPT !.heard = heard]
    <3>1. PICK heard \in 0..Len(ledger) : mirror' = [mirror EXCEPT !.heard = heard]
      BY <2>2
    <3>2. /\ mirror'.known = mirror.known /\ mirror'.heard = heard /\ mirror'.listed = mirror.listed
          /\ mirror'.follows = mirror.follows
      BY <1>1, <3>1
    <3> QED BY <1>1, <3>2 DEF MirrorInv
  <2>3. CASE \E copy, known, heard : Applied(copy, known, heard)
    <3>1. PICK copy, known, heard : Applied(copy, known, heard)
      BY <2>3
    <3>2. /\ mirror'.known = known /\ mirror'.heard = heard /\ mirror'.listed = mirror.listed
          /\ mirror'.follows = mirror.follows /\ mirror.follows
          /\ known \in mirror.known+1..Len(ledger) /\ heard \in 0..Len(ledger)
      BY <1>1, <3>1 DEF Applied
    <3> QED BY <1>1, <3>2 DEF MirrorInv
  <2>4. CASE TakeHead
    <3>1. /\ mirror'.known = mirror.known /\ mirror'.heard = mirror.heard
          /\ mirror'.listed = Len(ledger)
      BY <1>1, <2>4 DEF TakeHead
    <3> QED BY <1>1, <3>1 DEF MirrorInv
  <2>5. CASE TakeInventory
    <3>1. /\ mirror'.follows /\ mirror'.known = mirror.listed /\ mirror'.listed = Len(ledger)
          /\ mirror'.heard \in {mirror.heard, mirror.listed}
      BY <2>5 DEF TakeInventory, Highest
    <3> QED BY <1>1, <3>1 DEF MirrorInv
  <2> QED BY <2>1, <2>2, <2>3, <2>4, <2>5, MirrorMoves
<1> QED BY <1>3, <1>4 DEF MirrorInv

(* A frame that fits still does when there is more ledger and more known.  *)
LEMMA FitsMore ==
  ASSUME NEW frame, NEW len \in Nat, NEW more \in Nat, len <= more,
         NEW known \in Nat, NEW further \in Nat, known <= further,
         frame \in Frames, Fits(frame, len, known)
  PROVE  Fits(frame, more, further)
<1>1. CASE frame.type = "hello"
  <2>1. frame.head \in Nat
    BY <1>1 DEF Frames
  <2> QED BY <1>1, <2>1 DEF Fits
<1>2. CASE frame.type = "event"
  BY <1>2 DEF Fits
<1>3. CASE frame.type = "response"
  <2>1. frame.page \in Seq(Nat)
    BY <1>3 DEF Frames
  <2>2. Len(frame.page) \in Nat
    BY <2>1, LenProperties
  <2>3. PICK since \in 0..known : since + Len(frame.page) <= len /\ Follows(frame.page, since)
    BY <1>3 DEF Fits
  <2>4. since \in 0..further /\ since + Len(frame.page) <= more
    BY <2>2, <2>3
  <2> QED BY <1>3, <2>3, <2>4 DEF Fits
<1>4. CASE frame.type \notin {"hello", "event", "response"}
  BY <1>4 DEF Fits
<1> QED BY <1>1, <1>2, <1>3, <1>4

LEMMA WireStep ==
  ASSUME TypeOK, SocketInv, TailInv, WireInv, MirrorInv, [Next]_vars
  PROVE  WireInv'
<1> USE DEF Store, Line, Console, Draining, OutboundOnly, PushOnly
<1>1. /\ wire \in Seq(Frames) /\ Len(wire) \in Nat /\ DOMAIN wire = 1..Len(wire)
      /\ out.cursor \in Nat /\ out.page \in Seq(Nat) /\ Len(out.page) \in Nat
      /\ tail.from \in Nat /\ tail.sent \in Seq(Nat) /\ Len(tail.sent) \in Nat
      /\ loop = [at |-> loop.at, attempt |-> loop.attempt]
  BY LenProperties DEF TypeOK, LineOK, LoopOK
<1>2. /\ Len(ledger) \in Nat /\ Len(ledger') \in Nat /\ Len(ledger) <= Len(ledger')
      /\ mirror.known \in Nat /\ mirror'.known \in Nat /\ mirror.known <= mirror'.known
  BY Grows
<1>3. \A k \in DOMAIN wire : Fits(wire[k], Len(ledger'), mirror'.known)
  <2>1. ASSUME NEW k \in DOMAIN wire PROVE Fits(wire[k], Len(ledger'), mirror'.known)
    <3>1. wire[k] \in Frames /\ Fits(wire[k], Len(ledger), mirror.known)
      BY <1>1, ElementOfSeq DEF WireInv
    <3> QED BY <1>2, <3>1, FitsMore
  <2> QED BY <2>1
<1>4. ASSUME wire' = wire \/ wire' = << >> PROVE WireInv'
  BY <1>3, <1>4 DEF WireInv
<1>5. ASSUME NEW frame, wire' = Append(wire, frame), Fits(frame, Len(ledger'), mirror'.known)
      PROVE  WireInv'
  <2>1. /\ DOMAIN wire' = 1..(Len(wire) + 1)
        /\ \A k \in DOMAIN wire : wire'[k] = wire[k]
        /\ wire'[Len(wire) + 1] = frame
    BY <1>1, <1>5
  <2> QED BY <1>1, <1>3, <1>5, <2>1 DEF WireInv
<1>6. CASE Connect \/ ReadHead \/ EnterConnected \/ Disconnect \/ Wake \/ FailConnect \/ Drop \/ Stop
  BY <1>6, <1>4 DEF Connect, ReadHead, EnterConnected, Disconnect, Wake, FailConnect, Drop, Stop
<1>7. CASE SendHello
  <2> DEFINE hello == [type |-> "hello", head |-> out.cursor]
  <2>1. wire' = << hello >> /\ UNCHANGED << ledger, mirror >>
    BY <1>7 DEF SendHello
  <2>2. out.cursor <= Len(ledger)
    BY <1>1, <1>2 DEF TailInv
  <2>3. Fits(hello, Len(ledger'), mirror'.known)
    BY <2>1, <2>2 DEF Fits
  <2> HIDE DEF hello
  <2>4. DOMAIN wire' = {1} /\ wire'[1] = hello
    BY <2>1
  <2>5. \A k \in DOMAIN wire' : Fits(wire'[k], Len(ledger'), mirror'.known)
    BY <2>3, <2>4
  <2> QED BY <2>5 DEF WireInv
<1>8. CASE SendEvent
  <2> DEFINE c == Head(out.page)
             event == [type |-> "event", cursor |-> c]
             at == tail.from + Len(tail.sent)
  <2>1. /\ wire' = Append(wire, event) /\ UNCHANGED << ledger, mirror >>
        /\ loop.at = "connected" /\ socket = "open" /\ out.doing = "page"
    BY <1>8 DEF SendEvent
  <2>2. out.page # << >> /\ Follows(out.page, at) /\ at + Len(out.page) <= Len(ledger) /\ at \in Nat
    BY <1>1, <2>1 DEF TailInv
  <2>3. c = at + 1 /\ Len(out.page) \in Nat \ {0}
    BY <1>1, <2>2, FollowsRest, EmptySeq
  <2>4. c \in 1..Len(ledger)
    BY <1>2, <2>2, <2>3
  <2> HIDE DEF c
  <2>5. Fits(event, Len(ledger'), mirror'.known)
    BY <2>1, <2>4 DEF Fits
  <2> HIDE DEF event
  <2> QED BY <2>1, <2>5, <1>5
<1>9. CASE SendFrame
  <2> DEFINE frame == [type |-> "ephemeral", fresh |-> Head(queue)]
  <2>1. wire' = Append(wire, frame)
    BY <1>9 DEF SendFrame
  <2>2. Fits(frame, Len(ledger'), mirror'.known)
    BY DEF Fits
  <2> HIDE DEF frame
  <2> QED BY <2>1, <2>2, <1>5
<1>10. CASE Serve
  <2>1. PICK since \in asked :
          wire' = wire \/ wire' = Append(wire, [type |-> "response", page |-> ChangesSince(since)])
    BY <1>10 DEF Serve
  <2> DEFINE page == ChangesSince(since)
             response == [type |-> "response", page |-> page]
  <2>2. UNCHANGED << ledger, mirror >>
    BY <1>10 DEF Serve
  <2>3. since \in 0..mirror.known /\ since \in 0..Len(ledger)
    BY <1>2 DEF MirrorInv
  <2>4. Follows(page, since) /\ since + Len(page) <= Len(ledger)
    BY <2>3, PageFollows
  <2> HIDE DEF page
  <2>5. Fits(response, Len(ledger'), mirror'.known)
    BY <2>2, <2>3, <2>4 DEF Fits
  <2>6. wire' = wire \/ wire' = Append(wire, response)
    BY <2>1 DEF page
  <2> HIDE DEF response
  <2> QED BY <2>5, <2>6, <1>4, <1>5
<1>11. CASE Deliver
  <2>1. wire # << >> /\ wire' = Tail(wire)
    BY <1>11 DEF Deliver
  <2>2. DOMAIN wire' = 1..(Len(wire) - 1) /\ \A k \in DOMAIN wire' : wire'[k] = wire[k + 1]
    BY <1>1, <2>1, HeadTailProperties, LenProperties
  <2>3. ASSUME NEW k \in DOMAIN wire' PROVE Fits(wire'[k], Len(ledger'), mirror'.known)
    <3>1. k + 1 \in DOMAIN wire /\ wire'[k] = wire[k + 1]
      BY <1>1, <2>2
    <3> QED BY <1>3, <3>1
  <2> QED BY <2>3 DEF WireInv
<1>12. CASE ReadPage \/ Rest \/ FailSend \/ Ask \/ TakeHead \/ TakeInventory \/ UNCHANGED vars
            \/ (\E i \in Ids : Write(i)) \/ (\E t \in Turns : Push(t) \/ MakeRoom(t) \/ PushAgain(t))
  BY <1>12, <1>4 DEF ReadPage, Rest, FailSend, Ask, TakeHead, TakeInventory, Write, Push, MakeRoom,
     PushAgain, vars
<1> QED
  BY <1>6, <1>7, <1>8, <1>9, <1>10, <1>11, <1>12 DEF Next, Connection, Outbound

-----------------------------------------------------------------------------
(* The copies: the rows the box keeps, and the mirror's.                   *)

(* What was told of a resource stays true while none of the changes that   *)
(* come after is about it.                                                 *)
LEMMA ToldOn ==
  ASSUME NEW log, NEW more, NEW c \in Nat, NEW to \in Nat, c <= to, NEW i, NEW v,
         \A d \in 1..c : more[d] = log[d], \A d \in c+1..to : more[d].id # i,
         Told(log, i, c, v)
  PROVE  Told(more, i, to, v)
<1>1. CASE Latest(log, i, 0, c, v)
  <2>1. PICK d \in 1..c : log[d] = [id |-> i, version |-> v] /\ \A later \in d+1..c : log[later].id # i
    BY <1>1 DEF Latest
  <2>2. d \in 1..to /\ more[d] = [id |-> i, version |-> v]
    BY <2>1
  <2>3. ASSUME NEW later \in d+1..to PROVE more[later].id # i
    <3>1. CASE later <= c
      <4>1. later \in d+1..c /\ later \in 1..c
        BY <3>1
      <4> QED BY <4>1, <2>1
    <3>2. CASE later > c
      <4>1. later \in c+1..to
        BY <3>2
      <4> QED BY <4>1
    <3> QED BY <3>1, <3>2
  <2> QED BY <2>2, <2>3 DEF Told, Latest
<1>2. CASE v = 0 /\ \A d \in 1..c : log[d].id # i
  <2>1. ASSUME NEW d \in 1..to PROVE more[d].id # i
    <3>1. d \in 1..c \/ d \in c+1..to
      OBVIOUS
    <3> QED BY <3>1, <1>2
  <2> QED BY <2>1, <1>2 DEF Told
<1> QED BY <1>1, <1>2 DEF Told

(* A record_change tells of its own resource, and of nothing else.         *)
LEMMA RecordTells ==
  ASSUME NEW log \in Seq([id : Ids, version : Nat]), NEW i \in Ids, NEW v \in Nat
  PROVE  LET more == Append(log, [id |-> i, version |-> v]) IN
         /\ Len(more) = Len(log) + 1 /\ Len(log) \in Nat
         /\ \A d \in 1..Len(log) : more[d] = log[d]
         /\ more[Len(more)] = [id |-> i, version |-> v]
         /\ Told(more, i, Len(more), v)
<1> DEFINE entry == [id |-> i, version |-> v]
           more == Append(log, entry)
<1>1. entry \in [id : Ids, version : Nat] /\ entry.id = i
  OBVIOUS
<1> HIDE DEF entry
<1>2. /\ Len(more) = Len(log) + 1 /\ Len(log) \in Nat
      /\ \A d \in 1..Len(log) : more[d] = log[d]
      /\ more[Len(more)] = entry
  BY <1>1, AppendProperties, LenProperties
<1> HIDE DEF more
<1>3. Len(more) \in 0+1..Len(more) /\ Len(more)+1..Len(more) = {}
  BY <1>2
<1>4. Told(more, i, Len(more), v)
  BY <1>2, <1>3 DEF Told, Latest, entry
<1> QED BY <1>2, <1>4 DEF more, entry

LEMMA RowsStep ==
  ASSUME TypeOK, RowsInv, [Next]_vars
  PROVE  RowsInv'
<1>1. CASE UNCHANGED << rows, ledger >>
  BY <1>1 DEF RowsInv
<1>2. ASSUME NEW i \in Ids, NEW v \in Nat, Recorded(i, v) PROVE RowsInv'
  <2>1. /\ ledger \in Seq([id : Ids, version : Nat]) /\ rows \in [Ids -> Nat]
        /\ ledger' = Append(ledger, [id |-> i, version |-> v]) /\ rows' = [rows EXCEPT ![i] = v]
    BY <1>2 DEF Recorded, TypeOK, StoreOK
  <2>2. /\ Len(ledger') = Len(ledger) + 1 /\ Len(ledger) \in Nat
        /\ \A d \in 1..Len(ledger) : ledger'[d] = ledger[d]
        /\ ledger'[Len(ledger')] = [id |-> i, version |-> v]
        /\ Told(ledger', i, Len(ledger'), v)
    BY <2>1, RecordTells
  <2>3. ASSUME NEW j \in Ids, j # i PROVE Told(ledger', j, Len(ledger'), rows[j])
    <3>1. Told(ledger, j, Len(ledger), rows[j])
      BY DEF RowsInv
    <3>2. \A d \in Len(ledger)+1..Len(ledger') : ledger'[d].id # j
      BY <2>2, <2>3
    <3>3. Len(ledger') \in Nat /\ Len(ledger) <= Len(ledger')
      BY <2>2
    <3> QED BY <2>2, <3>1, <3>2, <3>3, ToldOn
  <2> QED BY <2>1, <2>2, <2>3 DEF RowsInv
<1> QED BY <1>1, <1>2, LedgerStep

LEMMA CopyStep ==
  ASSUME TypeOK, WireInv, MirrorInv, RowsInv, CopyInv, [Next]_vars
  PROVE  CopyInv'
<1>1. /\ mirror.known \in Nat /\ mirror.listed \in Nat /\ Len(ledger) \in Nat
      /\ mirror = [follows |-> mirror.follows, copy |-> mirror.copy, known |-> mirror.known,
                   heard |-> mirror.heard, listed |-> mirror.listed]
      /\ mirror.known <= Len(ledger) /\ mirror.listed <= Len(ledger)
      /\ Listed \subseteq Ids
  <2>1. /\ mirror.known \in Nat /\ mirror.listed \in Nat
        /\ mirror = [follows |-> mirror.follows, copy |-> mirror.copy, known |-> mirror.known,
                     heard |-> mirror.heard, listed |-> mirror.listed]
    BY DEF TypeOK, ConsoleOK
  <2>2. mirror.known <= Len(ledger) /\ mirror.listed <= Len(ledger)
    BY DEF MirrorInv
  <2> QED BY <2>1, <2>2, Grows, TetherAssumption DEF TetherAssumption
<1>2. ASSUME mirror'.follows => mirror.follows,
             mirror'.copy = mirror.copy, mirror'.known = mirror.known, mirror'.listed = mirror.listed
      PROVE  CopyInv'
  <2>1. \A d \in 1..Len(ledger) : ledger'[d] = ledger[d]
    <3>1. ASSUME NEW i \in Ids, NEW v \in Nat, Recorded(i, v)
          PROVE  \A d \in 1..Len(ledger) : ledger'[d] = ledger[d]
      BY <3>1, RecordTells DEF Recorded, TypeOK, StoreOK
    <3> QED BY <3>1, LedgerStep
  <2>2. ASSUME NEW c \in Nat, c <= Len(ledger), NEW i \in Ids, NEW v, Told(ledger, i, c, v)
        PROVE  Told(ledger', i, c, v)
    <3>1. \A d \in 1..c : ledger'[d] = ledger[d]
      BY <1>1, <2>1, <2>2
    <3>2. c+1..c = {} /\ c <= c
      BY <2>2
    <3>3. \A d \in c+1..c : ledger'[d].id # i
      BY <3>2
    <3>4. Told(ledger, i, c, v)
      BY <2>2
    <3> QED BY <3>1, <3>2, <3>3, <3>4, ToldOn
  <2> QED BY <1>1, <1>2, <2>2 DEF CopyInv
<1>3. CASE mirror' = mirror
  BY <1>3, <1>2
<1>4. CASE \E heard \in 0..Len(ledger) : mirror' = [mirror EXCEPT !.heard = heard]
  BY <1>1, <1>4, <1>2
<1>5. CASE \E copy, known, heard : Applied(copy, known, heard)
  <2>1. PICK copy, known, heard : Applied(copy, known, heard)
    BY <1>5
  <2>2. /\ mirror'.copy = copy /\ mirror'.known = known /\ mirror'.listed = mirror.listed
        /\ mirror.follows /\ known \in mirror.known+1..Len(ledger) /\ mirror.known < known
    BY <1>1, <2>1 DEF Applied
  <2>3. ledger' = ledger
    <3>1. ASSUME NEW i \in Ids, NEW v \in Nat, Recorded(i, v) PROVE FALSE
      <4>1. mirror'.known = mirror.known
        BY <3>1 DEF Recorded
      <4> QED BY <1>1, <2>2, <4>1
    <3> QED BY <3>1, LedgerStep
  <2>4. SUFFICES ASSUME NEW i \in Listed
                 PROVE  \/ Told(ledger, i, known, copy[i])
                        \/ known < mirror.listed /\ Told(ledger, i, mirror.listed, copy[i])
    BY <2>2, <2>3 DEF CopyInv
  <2>5. CASE Latest(ledger, i, mirror.known, known, copy[i])
    <3>1. Latest(ledger, i, 0, known, copy[i])
      BY <1>1, <2>2, <2>5 DEF Latest
    <3> QED BY <3>1 DEF Told
  <2>6. CASE copy[i] = mirror.copy[i] /\ \A d \in mirror.known+1..known : ledger[d].id # i
    <3>1. CASE Told(ledger, i, mirror.known, mirror.copy[i])
      BY <1>1, <2>2, <2>6, <3>1, ToldOn
    <3>2. CASE mirror.known < mirror.listed /\ Told(ledger, i, mirror.listed, mirror.copy[i])
      <4>1. CASE known < mirror.listed
        BY <4>1, <3>2, <2>6
      <4>2. CASE mirror.listed <= known
        <5>1. \A d \in mirror.listed+1..known : ledger[d].id # i
          BY <1>1, <2>6, <3>2
        <5> QED BY <1>1, <2>2, <2>6, <3>2, <4>2, <5>1, ToldOn
      <4> QED BY <1>1, <2>2, <4>1, <4>2
    <3> QED BY <2>2, <3>1, <3>2 DEF CopyInv
  <2> QED BY <1>1, <2>1, <2>5, <2>6 DEF Applied
<1>6. CASE TakeHead
  BY <1>1, <1>6 DEF TakeHead, CopyInv
<1>7. CASE TakeInventory
  <2>1. /\ mirror'.copy = Inventory /\ mirror'.known = mirror.listed /\ mirror'.listed = Len(ledger)
        /\ ledger' = ledger
    BY <1>7 DEF TakeInventory, Store
  <2>2. \A i \in Listed : Told(ledger, i, Len(ledger), Inventory[i])
    BY <1>1 DEF Inventory, RowsInv
  <2> QED BY <1>1, <2>1, <2>2 DEF CopyInv
<1> QED BY <1>3, <1>4, <1>5, <1>6, <1>7, MirrorMoves

-----------------------------------------------------------------------------
(* The theorems.                                                           *)

LEMMA InvInit == Init => IInv
<1> SUFFICES ASSUME Init PROVE IInv
  OBVIOUS
<1>1. Len(ledger) = 0
  BY DEF Init
<1>2. TypeOK
  BY TypeInit
<1>3. SocketInv
  BY DEF Init, SocketInv
<1>4. TailInv
  BY <1>1 DEF Init, TailInv, NothingSkipped, Quiet
<1>5. QueueInv /\ WireInv
  BY DEF Init, QueueInv, WireInv, NoLateDelta
<1>6. MirrorInv
  BY <1>1 DEF Init, MirrorInv
<1>7. RowsInv /\ CopyInv
  BY <1>1, TetherAssumption DEF Init, RowsInv, CopyInv, Absent, Told, TetherAssumption
<1> QED BY <1>2, <1>3, <1>4, <1>5, <1>6, <1>7 DEF IInv

LEMMA Inductive == Spec => []IInv
<1>1. Init => IInv
  BY InvInit
<1>2. IInv /\ [Next]_vars => IInv'
  BY TypeStep, SocketStep, TailStep, QueueStep, WireStep, MirrorStep, RowsStep, CopyStep DEF IInv
<1> QED BY <1>1, <1>2, PTL DEF Spec

(* Every variable keeps its type, the queue its bound, over any number of  *)
(* connections and changes.                                                *)
THEOREM TypeCorrect == Spec => []TypeOK
<1>1. IInv => TypeOK
  BY DEF IInv
<1> QED BY <1>1, Inductive, PTL

(* What a connection sends is its own: the changes after the head of its   *)
(* hello, in order, each once, however large the pages and wherever a send *)
(* failed before; and no frame that was pushed before it was made.         *)
THEOREM LineIsTrue == Spec => []LineTrue
<1>1. IInv => LineTrue
  BY DEF IInv, TailInv, QueueInv, LineTrue
<1> QED BY <1>1, Inductive, PTL

(* A mirror that follows and has caught up with what was there when it     *)
(* read the inventory holds of each listed resource exactly what the       *)
(* ledger says up to its cursor, by whichever mix of events, pages and     *)
(* starts from the inventory it came there.                                *)
THEOREM CopyIsTrue == Spec => []CopyTrue
<1>1. IInv => CopyTrue
  <2>1. ASSUME IInv PROVE mirror.known \in Nat /\ mirror.listed \in Nat
    BY <2>1 DEF IInv, TypeOK, ConsoleOK
  <2> QED BY <2>1 DEF IInv, CopyInv, CopyTrue
<1> QED BY <1>1, Inductive, PTL

(* stop() does nothing else that the feed shows.                           *)
LEMMA StopStep ==
  ASSUME [Next]_vars
  PROVE  stopped' = stopped \/ (stopped' = TRUE /\ UNCHANGED << ledger, mirror >>)
<1> USE DEF Store, Line, Console, OutboundOnly, PushOnly
<1>1. CASE Connection \/ FailConnect \/ Drop \/ Stop
  BY <1>1 DEF Connection, Connect, ReadHead, SendHello, EnterConnected, Disconnect, Wake, FailConnect,
     Drop, Stop
<1>2. CASE Outbound \/ Serve \/ Deliver \/ Ask \/ TakeHead \/ TakeInventory \/ UNCHANGED vars
  BY <1>2 DEF Outbound, ReadPage, SendEvent, SendFrame, Rest, FailSend, Serve, Deliver, Ask, TakeHead,
     TakeInventory, vars
<1>3. ASSUME NEW i \in Ids, Write(i) PROVE stopped' = stopped
  BY <1>3 DEF Write
<1>4. ASSUME NEW t \in Turns, Push(t) \/ MakeRoom(t) \/ PushAgain(t) PROVE stopped' = stopped
  BY <1>4 DEF Push, MakeRoom, PushAgain
<1> QED BY <1>1, <1>2, <1>3, <1>4 DEF Next

(* The box is a feed: the ledger only grows, at its end, and the mirror's  *)
(* cursor only moves forward and never past it.                            *)
THEOREM SafeFeed == Spec => Feed!Safety
<1>1. Init => Feed!Init
  BY DEF Init, Feed!Init
<1>2. IInv /\ [Next]_vars => [Feed!Next]_(Feed!vars)
  <2> SUFFICES ASSUME IInv, [Next]_vars PROVE [Feed!Next]_(Feed!vars)
    OBVIOUS
  <2> USE DEF Feed!Next, Feed!vars
  <2>1. /\ ledger \in Seq([id : Ids, version : Nat]) /\ Len(ledger) \in Nat
        /\ mirror.known \in Nat /\ mirror'.known \in Nat /\ mirror.known <= mirror'.known
        /\ mirror = [follows |-> mirror.follows, copy |-> mirror.copy, known |-> mirror.known,
                     heard |-> mirror.heard, listed |-> mirror.listed]
        /\ mirror'.known <= Len(ledger')
    <3>1. MirrorInv' /\ TypeOK
      BY MirrorStep DEF IInv
    <3> QED BY <3>1, Grows DEF IInv, TypeOK, StoreOK, ConsoleOK, MirrorInv
  <2>2. ASSUME NEW i \in Ids, NEW v \in Nat, Recorded(i, v) PROVE Feed!Record
    <3>1. ledger' = Append(ledger, [id |-> i, version |-> v]) /\ UNCHANGED << mirror, stopped >>
      BY <2>2 DEF Recorded
    <3>2. Len(ledger') = Len(ledger) + 1 /\ \A d \in 1..Len(ledger) : ledger'[d] = ledger[d]
      BY <2>1, <3>1, RecordTells
    <3>3. SubSeq(ledger', 1, Len(ledger)) = ledger
      <4>1. \A d \in 1..Len(ledger) : ledger'[d] \in [id : Ids, version : Nat]
        BY <2>1, <3>2, ElementOfSeq
      <4>2. /\ SubSeq(ledger', 1, Len(ledger)) \in Seq([id : Ids, version : Nat])
            /\ Len(SubSeq(ledger', 1, Len(ledger))) = Len(ledger)
            /\ \A d \in 1..Len(ledger) : SubSeq(ledger', 1, Len(ledger))[d] = ledger'[d]
        BY <2>1, <4>1, SubSeqProperties
      <4> QED BY <2>1, <3>2, <4>2, SeqEqual
    <3> QED BY <3>1, <3>2, <3>3 DEF Feed!Record
  <2>3. CASE UNCHANGED << rows, ledger >>
    <3>1. CASE mirror'.known = mirror.known
      BY <2>3, <3>1, StopStep DEF Feed!End
    <3>2. CASE mirror'.known # mirror.known
      <4>1. stopped' = stopped
        BY <3>2, StopStep
      <4>2. mirror'.known > mirror.known /\ mirror'.known <= Len(ledger)
        BY <2>1, <2>3, <3>2
      <4> QED BY <2>3, <4>1, <4>2 DEF Feed!Apply
    <3> QED BY <3>1, <3>2
  <2> QED BY <2>2, <2>3, LedgerStep DEF IInv
<1> QED BY <1>1, <1>2, Inductive, PTL DEF Spec, Feed!Safety
=============================================================================
