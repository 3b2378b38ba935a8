------------------------------ MODULE Enrolment ------------------------------
(***************************************************************************)
(* How a box becomes one of the console's and ceases to be: enroll.py asks *)
(* the relay to register a new public key, then writes tether/keys.py's    *)
(* key.pem and tether/identity.py's harness.toml; the gateway reads both   *)
(* when it starts, connects with them, and verifies with the console's     *)
(* keys the requests that come over the connection; one of these may be    *)
(* `deregister', which removes both files again.  One person enrols, and   *)
(* may be cut off at any step; so may the gateway; a relay's answer may be *)
(* lost.                                                                   *)
(***************************************************************************)
EXTENDS Verifier

CONSTANTS
  Harnesses,  \* ids a token may enrol the box as
  MaxKeys     \* bound of the model: key pairs made

ASSUME EnrolmentAssumption == MaxKeys \in Nat \ {0}

VARIABLES
  identity,   \* harness.toml
  keyFile,    \* key.pem
  registered, \* external: the key the relay has for each harness
  enrol,      \* the `sadana enroll' that runs
  made,       \* key pairs made
  gateway,    \* the process: where it stands and what it has read
  connected,  \* its tether
  stopped,    \* _stop_event
  sound       \* ghost: the harness of an enrolment that returned and stands

person  == << enrol, made >>
process == << gateway, connected, stopped >>
vars == << verifier, identity, keyFile, registered, person, process, sound >>

None == "none"
Torn == "torn"          \* harness.toml is there and holds no identity
NoKey == 0
TornKey == MaxKeys + 1  \* key.pem is there and holds no key
NoEnrol == [at |-> "idle"]
Removing == {"removing", "unlinking"}
Down == [at |-> "down"]

(* What an earlier enrolment, whose key pair was the first, left behind:   *)
(* nothing, or what it had come to when it was cut off, or its whole work. *)
Before(h) ==
  /\ registered = [g \in Harnesses |-> IF g = h THEN 1 ELSE NoKey]
  /\ \/ identity = None /\ keyFile \in {NoKey, TornKey, 1} /\ sound = None
     \/ identity = Torn /\ keyFile = 1 /\ sound = None
     \/ identity = h /\ keyFile = 1 /\ sound = h

Init ==
  /\ VerifierInit
  /\ \/ /\ identity = None /\ keyFile = NoKey /\ sound = None
        /\ registered = [h \in Harnesses |-> NoKey]
     \/ \E h \in Harnesses : Before(h)
  /\ enrol = NoEnrol /\ made = 1
  /\ gateway = Down /\ connected = FALSE /\ stopped = FALSE

Enrolling(point, next) == enrol.at = point /\ enrol' = [enrol EXCEPT !.at = next]
Reported == enrol' = NoEnrol

-----------------------------------------------------------------------------
(* enroll(): not over an identity unless told to replace it.  The refusals *)
(* before the POST change nothing.                                         *)
StartEnrol ==
  /\ enrol.at = "idle" /\ made < MaxKeys
  /\ \E h \in Harnesses, replace \in BOOLEAN :
       /\ identity = None \/ replace
       /\ enrol' = [at |-> "posting", harness |-> h, key |-> made + 1,
                    replace |-> replace, alone |-> TRUE]
  /\ made' = made + 1
  /\ UNCHANGED << verifier, identity, keyFile, registered, process, sound >>

(* The relay registers the key or does not; its answer comes or does not.  *)
Post ==
  /\ enrol.at = "posting"
  /\ \/ /\ registered' = [registered EXCEPT ![enrol.harness] = enrol.key] /\ sound' = None
        /\ \/ enrol' = [enrol EXCEPT !.at = IF enrol.replace THEN "unlinking" ELSE "creating"]
           \/ Reported
     \/ Reported /\ UNCHANGED << registered, sound >>
  /\ UNCHANGED << verifier, identity, keyFile, made, process >>

(* keys.save: with replace the old file goes first.                        *)
UnlinkKey ==
  /\ Enrolling("unlinking", "creating")
  /\ keyFile' = NoKey
  /\ UNCHANGED << verifier, identity, registered, made, process, sound >>

\* Mutant of CreateKey: a key that is there is kept, and the enrolment goes on.
CreateKeyUnless ==
  /\ enrol.at = "creating"
  /\ IF keyFile = NoKey
     THEN keyFile' = TornKey /\ enrol' = [enrol EXCEPT !.at = "writing"]
     ELSE enrol' = [enrol EXCEPT !.at = "truncating"] /\ UNCHANGED keyFile
  /\ UNCHANGED << verifier, identity, registered, made, process, sound >>

(* O_EXCL: over a key that is there it raises, and nobody catches it.      *)
CreateKey ==
  /\ enrol.at = "creating"
  /\ IF keyFile = NoKey
     THEN keyFile' = TornKey /\ enrol' = [enrol EXCEPT !.at = "writing"]
     ELSE Reported /\ UNCHANGED keyFile
  /\ UNCHANGED << verifier, identity, registered, made, process, sound >>

WriteKey ==
  /\ Enrolling("writing", "truncating")
  /\ keyFile' = enrol.key
  /\ UNCHANGED << verifier, identity, registered, made, process, sound >>

(* identity.save is a write_text, which empties the file and fills it.     *)
TruncateIdentity ==
  /\ Enrolling("truncating", "filling")
  /\ identity' = Torn
  /\ UNCHANGED << verifier, keyFile, registered, made, process, sound >>

(* Only an enrolment that no deregistration met is counted on.             *)
FillIdentity ==
  /\ enrol.at = "filling"
  /\ identity' = enrol.harness /\ Reported
  /\ sound' = IF enrol.alone /\ \A t \in Threads : thread[t].at \notin Removing
              THEN enrol.harness ELSE None
  /\ UNCHANGED << verifier, keyFile, registered, made, process >>

CutOff ==
  /\ enrol.at # "idle" /\ Reported
  /\ UNCHANGED << verifier, identity, keyFile, registered, made, process, sound >>

-----------------------------------------------------------------------------
(* cmd_gateway_run: no identity, no door for the console; a torn one, or a *)
(* key that cannot be read, and the gateway ends.                          *)
Boot ==
  /\ gateway.at = "down" /\ identity \in Harnesses
  /\ gateway' = [at |-> "loading", id |-> identity,
                 since |-> IF sound = None THEN NoKey ELSE registered[sound]]
  /\ UNCHANGED << verifier, identity, keyFile, registered, person, connected, stopped, sound >>

LoadKey ==
  /\ gateway.at = "loading"
  /\ gateway' = IF keyFile \in {NoKey, TornKey} THEN Down
                ELSE [at |-> "up", id |-> gateway.id, since |-> gateway.since, key |-> keyFile]
  /\ UNCHANGED << verifier, identity, keyFile, registered, person, connected, stopped, sound >>

(* run_forever, until stop(): the relay welcomes a signature it can check  *)
(* with the key it has for the harness.                                    *)
Connect ==
  /\ gateway.at = "up" /\ ~connected /\ ~stopped
  /\ registered[gateway.id] = gateway.key
  /\ connected' = TRUE
  /\ UNCHANGED << verifier, identity, keyFile, registered, person, gateway, stopped, sound >>

Drop ==
  /\ connected /\ connected' = FALSE
  /\ UNCHANGED << verifier, identity, keyFile, registered, person, gateway, stopped, sound >>

Die ==
  /\ gateway.at # "down"
  /\ gateway' = Down /\ connected' = FALSE /\ stopped' = FALSE
  /\ NewVerifier /\ thread' = [t \in Threads |-> Idle]
  /\ UNCHANGED << now, published, served, identity, keyFile, registered, person, sound >>

-----------------------------------------------------------------------------
(* A request that was let in does what it came for.                        *)
Answer(t) ==
  /\ At(t, "accepted")
  /\ To(t, Idle)
  /\ UNCHANGED << now, published, served, keys, refreshed, brought >>

Disturbed == enrol' = IF enrol.at = "idle" THEN enrol ELSE [enrol EXCEPT !.alone = FALSE]

(* deregister: stop(), identity.remove(), then the key.                    *)
StopTether(t) ==
  /\ At(t, "accepted")
  /\ stopped' = TRUE /\ Moved(t, "removing")
  /\ UNCHANGED << now, published, served, keys, refreshed, brought,
                  identity, keyFile, registered, person, gateway, connected, sound >>

RemoveIdentity(t) ==
  /\ At(t, "removing")
  /\ identity' = None /\ sound' = None /\ Disturbed /\ Moved(t, "unlinking")
  /\ UNCHANGED << now, published, served, keys, refreshed, brought, keyFile, registered, made, process >>

RemoveKey(t) ==
  /\ At(t, "unlinking")
  /\ keyFile' = NoKey /\ sound' = None /\ Disturbed /\ To(t, Idle)
  /\ UNCHANGED << now, published, served, keys, refreshed, brought, identity, registered, made, process >>

-----------------------------------------------------------------------------
Box == << identity, keyFile, registered, person, process, sound >>

Verify(t) ==
  \/ connected /\ Arrive(t)
  \/ Lookup(t) \/ Fetch(t) \/ Store(t) \/ Decode(t) \/ Answer(t)

Next ==
  \/ StartEnrol \/ Post \/ UnlinkKey \/ CreateKey \/ WriteKey \/ TruncateIdentity
  \/ FillIdentity \/ CutOff \/ Boot \/ LoadKey \/ Connect \/ Drop \/ Die
  \/ \E t \in Threads : \/ Verify(t) /\ UNCHANGED Box
                        \/ StopTether(t) \/ RemoveIdentity(t) \/ RemoveKey(t)
  \/ (Tick \/ \E k \in Kids : Publish(k) \/ Withdraw(k)) /\ UNCHANGED Box

Spec == Init /\ [][Next]_vars

-----------------------------------------------------------------------------
(* "Every token it could have signed has necessarily expired": a key that  *)
(* the console withdrew lets nobody in once it is MaxAge ago, though a     *)
(* refresh never drops one and the workers keep them for one another.      *)
Accepts(t) == At(t, "decode") /\ thread'[t].at = "accepted"

WithdrawnEnds ==
  [][\A t \in Threads : Accepts(t) => thread[t].asked <= served[thread[t].kid] + MaxAge]_vars

(* While the throttle refuses to ask again, what the last refresh brought  *)
(* is there: only a key that it did not bring is refused.                  *)
RefreshKept ==
  \A t \in Threads : At(t, "lookup") /\ thread[t].kid \in brought /\ thread[t].asked - refreshed < Throttle =>
    thread[t].kid \in DOMAIN Pruned(thread[t].asked)

(* When an enrolment has returned, and none reached the relay nor was the  *)
(* box deregistered since, the files and the relay agree, whatever earlier *)
(* ones left behind; and so does a gateway started since, so that it can   *)
(* connect.                                                                *)
EnrolledConnects ==
  sound # None =>
    /\ identity = sound /\ keyFile = registered[sound]
    /\ gateway.at = "up" /\ gateway.since = registered[sound] =>
         gateway.id = sound /\ gateway.key = registered[sound]
=============================================================================
