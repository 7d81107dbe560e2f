-------------------------- MODULE RelayQueueProofs --------------------------
(* What is proved of RelayQueue for any devices, offers, envelopes and      *)
(* bounds: an accepted envelope is in the relay's directory until it has    *)
(* expired or the device it is for has done what it asks, whatever crashes, *)
(* lost replies and failed syncs come between.                              *)
(* The relay takes a file away when it has expired, and when its device     *)
(* says so; a device says so only of the envelope it has dealt with         *)
(* (Working), and a deposit is accepted only when its file is there         *)
(* (Writing).                                                               *)
(* And its books are right: memory, count and directory differ by the one   *)
(* envelope the relay works on (Books), so that it can always start again.  *)
(* Last, the relay and its daemons implement Handoff (RelayHandsOff): what  *)
(* they hold can be traced to a deposit, an ack to a commit (Traced).       *)
EXTENDS RelayQueue, FiniteSetTheorems, TLAPS

Tables ==
  /\ put = [e \in Envelopes |-> put[e]]
  /\ \A e \in Envelopes : put[e] \in Nat \cup {Nothing}
  /\ batch = [d \in Devices |-> batch[d]]
  /\ step = [d \in Devices |-> step[d]]
  /\ day \in Nat

\* What the relay is writing down.
Writing ==
  /\ op = [kind |-> op.kind, envelope |-> op.envelope]
  /\ op.kind \in {"write", "publish"} => up /\ op.envelope \in Envelopes
  /\ op.kind = "publish" => op.envelope \in files

\* What a device is about: from its second step on it has dealt with the
\* first envelope of its batch.
DealtWith(d) == batch[d] # <<>> /\ Done(Head(batch[d]))
Working == \A d \in Devices : step[d] # "take" => DealtWith(d)

Survives ==
  /\ accepted \subseteq Envelopes
  /\ \A e \in accepted : e \in files \/ Expired(e) \/ Done(e)

QInv == Tables /\ Writing /\ Working /\ Survives

-----------------------------------------------------------------------------
(* Time only goes on: what has expired stays expired, unless its number is  *)
(* given to an envelope sealed anew.                                        *)
LEMMA StaysExpired ==
  ASSUME Tables, NEW e \in Envelopes, Expired(e), put'[e] = put[e],
         day' \in Nat, day' >= day
  PROVE  Expired(e)'
  <1>1. put[e] \in Nat /\ put[e] # Nothing BY DEF Tables, Expired
  <1>2. Retention \in Nat BY QueueAssumption
  <1>3. day \in Nat BY DEF Tables
  <1> QED BY <1>1, <1>2, <1>3 DEF Expired

(* What a device has done stays done.                                       *)
LEMMA StaysDone ==
  ASSUME NEW e, Done(e), received \subseteq received', fetched \subseteq fetched'
  PROVE  Done(e)'
  BY DEF Done

(* What survives, survives a step that takes away expired files only.       *)
LEMMA KeepsSurviving ==
  ASSUME Tables, Survives, accepted' \subseteq accepted,
         day' \in Nat, day' >= day,
         received \subseteq received', fetched \subseteq fetched',
         \A e \in accepted' : put'[e] = put[e],
         \A e \in accepted' : e \in files => e \in files' \/ Expired(e) \/ Done(e)
  PROVE  Survives'
  <1>1. ASSUME NEW e \in accepted' PROVE e \in files' \/ Expired(e)' \/ Done(e)'
    <2>1. e \in Envelopes /\ put'[e] = put[e] BY <1>1 DEF Survives
    <2>2. e \in files' \/ Expired(e) \/ Done(e) BY <1>1 DEF Survives
    <2>3. CASE Expired(e) BY <2>1, <2>3, StaysExpired
    <2>4. CASE Done(e) BY <2>4, StaysDone
    <2> QED BY <2>2, <2>3, <2>4
  <1>2. accepted' \subseteq Envelopes' BY DEF Survives, Envelopes, Kinds
  <1> QED BY <1>1, <1>2 DEF Survives

(* A device that works on the same envelope as before, or on none.          *)
LEMMA KeepsWorking ==
  ASSUME Working, received \subseteq received', fetched \subseteq fetched',
         \A d \in Devices : \/ step'[d] = "take"
                            \/ step[d] # "take" /\ batch'[d] = batch[d]
                            \/ DealtWith(d)'
  PROVE  Working'
  <1> SUFFICES ASSUME NEW d \in Devices, step'[d] # "take" PROVE DealtWith(d)'
    BY DEF Working
  <1>1. CASE step[d] # "take" /\ batch'[d] = batch[d]
    <2>1. batch[d] # <<>> /\ Done(Head(batch[d])) BY <1>1 DEF Working, DealtWith
    <2> QED BY <1>1, <2>1 DEF DealtWith, Done
  <1> QED BY <1>1

-----------------------------------------------------------------------------
(* What a reply, or its loss, does to the device that waits for it.         *)
LEMMA AbandonKeeps ==
  ASSUME Tables, NEW c, Abandon(c)
  PROVE  /\ batch' = [d \in Devices |-> batch'[d]] /\ step' = [d \in Devices |-> step'[d]]
         /\ \A d \in Devices : step'[d] = "take" \/ (step'[d] = step[d] /\ batch'[d] = batch[d])
  <1>1. batch' = [d \in Devices |-> IF d = c THEN <<>> ELSE batch[d]]
    BY DEF Abandon, Tables
  <1>2. step' = [d \in Devices |-> IF d = c THEN "take" ELSE step[d]]
    BY DEF Abandon, Tables
  <1> QED BY <1>1, <1>2

(* What a device has read or settled stays so, whether its poll goes on.    *)
LEMMA ReadStays ==
  ASSUME NEW c, Abandon(c) \/ GiveUp(c) \/ GoOn(c)
  PROVE  UNCHANGED <<fetched, settled>>
  BY DEF Abandon, GiveUp, GoOn, outboxes

(* The client that waits for the reply, if there is one, ends its poll.     *)
LEMMA GiveUpKeeps ==
  ASSUME Tables, NEW e, GiveUp(e)
  PROVE  /\ batch' = [d \in Devices |-> batch'[d]] /\ step' = [d \in Devices |-> step'[d]]
         /\ \A d \in Devices : step'[d] = "take" \/ (step'[d] = step[d] /\ batch'[d] = batch[d])
  <1> DEFINE c == From(e)
  <1>1. CASE Abandon(c)
    <2> HIDE DEF c
    <2> QED BY <1>1, AbandonKeeps
  <1>2. CASE UNCHANGED <<batch, step>> BY <1>2 DEF Tables
  <1> QED BY <1>1, <1>2 DEF GiveUp

(* A client that waited for the reply goes on with the same envelope.       *)
LEMMA GoOnKeeps ==
  ASSUME Tables, NEW e, GoOn(e)
  PROVE  /\ batch' = [d \in Devices |-> batch'[d]] /\ step' = [d \in Devices |-> step'[d]]
         /\ \A d \in Devices : \/ step'[d] = "take"
                               \/ step[d] # "take" /\ batch'[d] = batch[d]
  <1> DEFINE c == From(e)
  <1>1. CASE step' = step /\ batch' = batch BY <1>1 DEF Tables
  <1>2. CASE step' = [step EXCEPT ![c] = "delete"] /\ step[c] = "answering" /\ batch' = batch
    <2> HIDE DEF c
    <2>1. step' = [d \in Devices |-> IF d = c THEN "delete" ELSE step[d]]
      BY <1>2 DEF Tables
    <2> QED BY <1>2, <2>1 DEF Tables
  <1> QED BY <1>1, <1>2 DEF GoOn, Answering

(* A request to deposit e: expired items go, and e is written down if it    *)
(* fits.  Its number may have been another envelope's, accepted once.       *)
LEMMA RequestKeeps ==
  ASSUME QInv, NEW e \in Envelopes, Request(e), UNCHANGED <<up, received, fetched, day>>
  PROVE  /\ put' = [x \in Envelopes |-> put'[x]]
         /\ \A x \in Envelopes : put'[x] \in Nat \cup {Nothing}
         /\ Writing' /\ Survives'
  <1>1. /\ files' = files \ (items \ Kept) /\ put' = [put EXCEPT ![e] = day]
        /\ accepted' = accepted \ {e} /\ op = Idle
        /\ op' = op \/ op' = [kind |-> "write", envelope |-> e]
        /\ up /\ up' = up
    BY DEF Request
  <1>2. day \in Nat /\ accepted \subseteq Envelopes BY DEF QInv, Tables, Survives
  <1>3. put' = [x \in Envelopes |-> IF x = e THEN day ELSE put[x]]
    BY <1>1 DEF QInv, Tables
  <1>4. \A x \in accepted' : put'[x] = put[x] BY <1>1, <1>2, <1>3
  <1>5. \A x \in items \ Kept : Expired(x) BY DEF Kept
  <1>6. Survives'
    <2>1. \A x \in accepted' : x \in files => x \in files' \/ Expired(x) \/ Done(x)
      BY <1>1, <1>5
    <2>2. day' \in Nat /\ day' >= day BY <1>2
    <2>3. accepted' \subseteq accepted BY <1>1
    <2> QED BY <1>4, <2>1, <2>2, <2>3, KeepsSurviving DEF QInv
  <1>7. Writing'
    <2>1. CASE op' = op BY <1>1, <2>1 DEF Writing, Idle
    <2>2. CASE op' = [kind |-> "write", envelope |-> e]
      BY <1>1, <2>2 DEF Writing, Envelopes, Kinds
    <2> QED BY <1>1, <2>1, <2>2
  <1>8. \A x \in Envelopes : put'[x] \in Nat \cup {Nothing}
    BY <1>2, <1>3 DEF QInv, Tables
  <1> QED BY <1>3, <1>6, <1>7, <1>8

(* A step that takes no file away but expired ones, and no envelope up.     *)
LEMMA FilesStep ==
  ASSUME QInv, UNCHANGED <<put, accepted, received, fetched, day>>,
         \A e \in files : e \in files' \/ Expired(e) \/ Done(e)
  PROVE  Survives'
  <1>1. day' \in Nat /\ day' >= day BY DEF QInv, Tables
  <1> QED BY <1>1, KeepsSurviving DEF QInv

-----------------------------------------------------------------------------
(* The relay's steps.                                                       *)
LEMMA PublishStep == ASSUME QInv, Publish PROVE QInv'
  <1>1. /\ op.kind = "write" /\ files' = files \cup {op.envelope}
        /\ op' = [op EXCEPT !.kind = "publish"]
        /\ UNCHANGED <<up, put, accepted, batch, step, received, fetched, day>>
    BY DEF Publish, clientVars, outboxes
  <1>2. op' = [kind |-> "publish", envelope |-> op.envelope] BY <1>1 DEF QInv, Writing
  <1>3. Writing' BY <1>1, <1>2 DEF QInv, Writing, Envelopes, Kinds
  <1>4. Survives' BY <1>1, FilesStep
  <1>5. Tables' BY <1>1 DEF QInv, Tables, Envelopes, Kinds
  <1>6. Working' BY <1>1, KeepsWorking DEF QInv
  <1> QED BY <1>3, <1>4, <1>5, <1>6 DEF QInv

(* A deposit is accepted when its file is there.                            *)
LEMMA EnterStep == ASSUME QInv, Enter PROVE QInv'
  <1> DEFINE e == op.envelope
  <1>1. /\ op.kind = "publish" /\ op' = Idle
        /\ UNCHANGED <<files, put, received, fetched, day>>
        /\ \/ accepted' = accepted \cup {e} /\ GoOn(e)
           \/ GiveUp(e) /\ accepted' = accepted
    BY ReadStays DEF Enter, outboxes
  <1>2. e \in files /\ e \in Envelopes BY <1>1 DEF QInv, Writing
  <1> HIDE DEF e
  <1>3. /\ batch' = [d \in Devices |-> batch'[d]] /\ step' = [d \in Devices |-> step'[d]]
        /\ \A d \in Devices : \/ step'[d] = "take"
                              \/ step[d] # "take" /\ batch'[d] = batch[d]
    <2>1. CASE GoOn(e) BY <2>1, GoOnKeeps DEF QInv
    <2>2. CASE GiveUp(e) BY <2>2, GiveUpKeeps DEF QInv
    <2> QED BY <1>1, <2>1, <2>2
  <1>4. Working' BY <1>1, <1>3, KeepsWorking DEF QInv
  <1>5. Tables' BY <1>1, <1>3 DEF QInv, Tables, Envelopes, Kinds
  <1>6. Writing' BY <1>1 DEF Writing, Idle
  <1>7. Survives'
    <2>1. accepted' \subseteq Envelopes BY <1>1, <1>2 DEF QInv, Survives
    <2>2. ASSUME NEW x \in accepted' PROVE x \in files' \/ Expired(x)' \/ Done(x)'
      <3>1. x = e \/ x \in accepted BY <1>1
      <3>2. x \in files \/ Expired(x) \/ Done(x) BY <1>2, <3>1 DEF QInv, Survives
      <3> QED BY <1>1, <3>2 DEF Expired, Done
    <2> QED BY <2>1, <2>2 DEF Survives, Envelopes, Kinds
  <1> QED BY <1>4, <1>5, <1>6, <1>7 DEF QInv

(* A file that is not counted is a file all the same.                       *)
LEMMA SyncFailsStep == ASSUME QInv, SyncFails PROVE QInv'
  <1>1. /\ op' = Idle /\ GiveUp(op.envelope)
        /\ UNCHANGED <<files, put, accepted, received, fetched, day>>
    BY ReadStays DEF SyncFails, outboxes
  <1>2. /\ batch' = [d \in Devices |-> batch'[d]] /\ step' = [d \in Devices |-> step'[d]]
        /\ \A d \in Devices : step'[d] = "take" \/ (step'[d] = step[d] /\ batch'[d] = batch[d])
    BY <1>1, GiveUpKeeps DEF QInv
  <1>3. Working' BY <1>1, <1>2, KeepsWorking DEF QInv
  <1>4. Tables' BY <1>1, <1>2 DEF QInv, Tables, Envelopes, Kinds
  <1>5. Writing' BY <1>1 DEF Writing, Idle
  <1>6. Survives' BY <1>1, FilesStep
  <1> QED BY <1>3, <1>4, <1>5, <1>6 DEF QInv

(* The file has gone in the step before, the device goes to its next item.  *)
LEMMA ForgetStep == ASSUME QInv, Forget PROVE QInv'
  <1> DEFINE c == To(op.envelope)
  <1>1. /\ op' = Idle /\ UNCHANGED <<files, put, accepted, received, fetched, day>>
        /\ \/ /\ batch' = [batch EXCEPT ![c] = Tail(@)] /\ step' = [step EXCEPT ![c] = "take"]
           \/ Abandon(c)
    BY ReadStays DEF Forget, outboxes
  <1> HIDE DEF c
  <1>2. /\ batch' = [d \in Devices |-> batch'[d]] /\ step' = [d \in Devices |-> step'[d]]
        /\ \A d \in Devices : step'[d] = "take" \/ (step'[d] = step[d] /\ batch'[d] = batch[d])
    <2>1. CASE Abandon(c) BY <2>1, AbandonKeeps DEF QInv
    <2>2. CASE /\ batch' = [batch EXCEPT ![c] = Tail(@)]
               /\ step' = [step EXCEPT ![c] = "take"]
      <3> DEFINE rest == Tail(batch[c])
      <3>1. batch' = [batch EXCEPT ![c] = rest] BY <2>2
      <3> HIDE DEF rest
      <3>2. batch' = [d \in Devices |-> IF d = c THEN rest ELSE batch[d]]
        BY <3>1 DEF QInv, Tables
      <3>3. step' = [d \in Devices |-> IF d = c THEN "take" ELSE step[d]]
        BY <2>2 DEF QInv, Tables
      <3> QED BY <3>2, <3>3
    <2> QED BY <1>1, <2>1, <2>2
  <1>3. Working' BY <1>1, <1>2, KeepsWorking DEF QInv
  <1>4. Tables' BY <1>1, <1>2 DEF QInv, Tables, Envelopes, Kinds
  <1>5. Writing' BY <1>1 DEF Writing, Idle
  <1>6. Survives' BY <1>1, FilesStep
  <1> QED BY <1>3, <1>4, <1>5, <1>6 DEF QInv

(* A crash leaves the directory as it is.                                   *)
LEMMA CrashStep == ASSUME QInv, Crash PROVE QInv'
  <1>1. /\ op' = Idle /\ UNCHANGED <<files, put, accepted, received, fetched, day>>
        /\ batch' = [d \in Devices |-> IF Waiting(d) THEN <<>> ELSE batch[d]]
        /\ step' = [d \in Devices |-> IF Waiting(d) THEN "take" ELSE step[d]]
    BY DEF Crash
  <1>2. \A d \in Devices : step'[d] = "take" \/ (step'[d] = step[d] /\ batch'[d] = batch[d])
    BY <1>1
  <1>3. Working' BY <1>1, <1>2, KeepsWorking DEF QInv
  <1>4. batch' = [d \in Devices |-> batch'[d]] /\ step' = [d \in Devices |-> step'[d]]
    BY <1>1
  <1>5. Tables' BY <1>1, <1>4 DEF QInv, Tables, Envelopes, Kinds
  <1>6. Writing' BY <1>1 DEF Writing, Idle
  <1>7. Survives' BY <1>1, FilesStep
  <1> QED BY <1>3, <1>5, <1>6, <1>7 DEF QInv

(* What starts again is what is in the directory and has not expired; while *)
(* the relay was down it wrote nothing.                                     *)
LEMMA StartStep == ASSUME QInv, Start PROVE QInv'
  <1>1. /\ ~up /\ files' = Alive /\ op' = op
        /\ UNCHANGED <<put, accepted, batch, step, received, fetched, day>>
    BY DEF Start, clientVars, outboxes
  <1>2. \A e \in files : e \in files' \/ Expired(e) BY <1>1 DEF Alive
  <1>3. Survives' BY <1>1, <1>2, FilesStep
  <1>4. Tables' BY <1>1 DEF QInv, Tables, Envelopes, Kinds
  <1>5. Writing' BY <1>1 DEF QInv, Writing, Envelopes, Kinds
  <1>6. Working' BY <1>1, KeepsWorking DEF QInv
  <1> QED BY <1>3, <1>4, <1>5, <1>6 DEF QInv

(* A day more: what has expired stays so.                                   *)
LEMMA MidnightStep == ASSUME QInv, Midnight PROVE QInv'
  <1>1. day' = day + 1 /\ UNCHANGED <<up, op, files, put, accepted, batch, step, received, fetched>>
    BY DEF Midnight, relayVars, clientVars, outboxes
  <1>2. day' \in Nat /\ day' >= day BY <1>1 DEF QInv, Tables
  <1>3. Survives' BY <1>1, <1>2, KeepsSurviving DEF QInv
  <1>4. Tables' BY <1>1, <1>2 DEF QInv, Tables, Envelopes, Kinds
  <1>5. Writing' BY <1>1 DEF QInv, Writing, Envelopes, Kinds
  <1>6. Working' BY <1>1, KeepsWorking DEF QInv
  <1> QED BY <1>3, <1>4, <1>5, <1>6 DEF QInv

-----------------------------------------------------------------------------
(* The daemons' steps.                                                      *)
LEMMA DepositStep == ASSUME QInv, NEW e \in Envelopes, Deposit(e) PROVE QInv'
  <1>1. Request(e) /\ UNCHANGED <<up, batch, step, received, fetched, day>>
    BY DEF Deposit, outboxes
  <1>2. /\ put' = [x \in Envelopes |-> put'[x]]
        /\ \A x \in Envelopes : put'[x] \in Nat \cup {Nothing}
        /\ Writing' /\ Survives'
    BY <1>1, RequestKeeps
  <1>3. Tables' BY <1>1, <1>2 DEF QInv, Tables, Envelopes, Kinds
  <1>4. Working' BY <1>1, KeepsWorking DEF QInv
  <1> QED BY <1>2, <1>3, <1>4 DEF QInv

(* A poll takes away what has expired; a device without a batch has nothing *)
(* under way.                                                               *)
LEMMA PollStep == ASSUME QInv, NEW c \in Devices, Poll(c) PROVE QInv'
  <1> DEFINE new == Batched(c)
  <1>1. /\ files' = files \ PolledAway(c) /\ batch[c] = <<>>
        /\ batch' = [batch EXCEPT ![c] = new]
        /\ UNCHANGED <<up, op, put, accepted, step, received, fetched, day>>
    BY DEF Poll
  <1> HIDE DEF new
  <1>2. batch' = [d \in Devices |-> IF d = c THEN new ELSE batch[d]]
    BY <1>1 DEF QInv, Tables
  <1>3. \A e \in files : e \in files' \/ Expired(e) BY <1>1 DEF PolledAway, Kept
  <1>4. Survives' BY <1>1, <1>3, FilesStep
  <1>5. step'[c] = "take" BY <1>1 DEF QInv, Working, DealtWith
  <1>6. \A d \in Devices : \/ step'[d] = "take"
                           \/ step[d] # "take" /\ batch'[d] = batch[d]
    BY <1>1, <1>2, <1>5
  <1>7. Working' BY <1>1, <1>6, KeepsWorking DEF QInv
  <1>8. batch' = [d \in Devices |-> batch'[d]] BY <1>2
  <1>9. Tables' BY <1>1, <1>8 DEF QInv, Tables, Envelopes, Kinds
  <1>10. Writing' BY <1>1 DEF QInv, Writing, Envelopes, Kinds, PolledAway, Poll, Idle
  <1> QED BY <1>4, <1>7, <1>9, <1>10 DEF QInv

(* The first item of the batch is dealt with before anything else is done   *)
(* about it (relay::poll).                                                  *)
LEMMA TakeStep == ASSUME QInv, NEW c \in Devices, Take(c) PROVE QInv'
  <1> DEFINE e == Head(batch[c])
  <1>1. /\ batch[c] # <<>>
        /\ UNCHANGED <<up, op, files, put, accepted, day>>
        /\ received \subseteq received' /\ fetched \subseteq fetched'
    BY ReadStays DEF Take, Commit, relayVars, outboxes
  <1>2. \/ Abandon(c)
        \/ /\ e.kind = "delivery" /\ e.offer \in received' /\ batch' = batch
           /\ step' = [step EXCEPT ![c] = "answer"]
        \/ /\ e.kind = "ack" /\ e.offer \in fetched' /\ batch' = batch
           /\ step' = [step EXCEPT ![c] = "delete"]
    BY DEF Take, Commit
  <1>3. /\ batch' = [d \in Devices |-> batch'[d]] /\ step' = [d \in Devices |-> step'[d]]
        /\ \A d \in Devices : \/ step'[d] = "take"
                              \/ step'[d] = step[d] /\ batch'[d] = batch[d]
                              \/ DealtWith(d)'
    <2>1. CASE Abandon(c) BY <2>1, AbandonKeeps DEF QInv
    <2>2. CASE /\ e.kind = "delivery" /\ e.offer \in received' /\ batch' = batch
               /\ step' = [step EXCEPT ![c] = "answer"]
      <3>1. DealtWith(c)' BY <1>1, <2>2 DEF DealtWith, Done
      <3>2. step' = [d \in Devices |-> IF d = c THEN "answer" ELSE step[d]]
        BY <2>2 DEF QInv, Tables
      <3> QED BY <2>2, <3>1, <3>2 DEF QInv, Tables
    <2>3. CASE /\ e.kind = "ack" /\ e.offer \in fetched' /\ batch' = batch
               /\ step' = [step EXCEPT ![c] = "delete"]
      <3>1. DealtWith(c)' BY <1>1, <2>3 DEF DealtWith, Done
      <3>2. step' = [d \in Devices |-> IF d = c THEN "delete" ELSE step[d]]
        BY <2>3 DEF QInv, Tables
      <3> QED BY <2>3, <3>1, <3>2 DEF QInv, Tables
    <2> QED BY <1>2, <2>1, <2>2, <2>3
  <1>4. Working' BY <1>1, <1>3, KeepsWorking DEF QInv
  <1>5. Tables' BY <1>1, <1>3 DEF QInv, Tables, Envelopes, Kinds
  <1>6. Writing' BY <1>1 DEF QInv, Writing, Envelopes, Kinds
  <1>7. day' \in Nat /\ day' >= day BY <1>1 DEF QInv, Tables
  <1>8. Survives' BY <1>1, <1>7, KeepsSurviving DEF QInv
  <1> QED BY <1>4, <1>5, <1>6, <1>8 DEF QInv

(* What the poll carries over has been read before.                         *)
LEMMA CarryStep == ASSUME QInv, NEW c \in Devices, Carry(c) PROVE QInv'
  <1>1. UNCHANGED <<up, op, files, put, accepted, batch, step, received, fetched, day>>
    BY DEF Carry, relayVars
  <1>2. Survives' BY <1>1, FilesStep
  <1>3. Tables' BY <1>1 DEF QInv, Tables, Envelopes, Kinds
  <1>4. Writing' BY <1>1 DEF QInv, Writing, Envelopes, Kinds
  <1>5. Working' BY <1>1, KeepsWorking DEF QInv
  <1> QED BY <1>2, <1>3, <1>4, <1>5 DEF QInv

(* The ack is deposited like a delivery.                                    *)
LEMMA AnswerStep ==
  ASSUME QInv, NEW c \in Devices, NEW e \in Envelopes, Answer(c, e) PROVE QInv'
  <1>1. /\ Request(e) /\ UNCHANGED <<up, received, fetched, day>> /\ step[c] = "answer"
        /\ \/ step' = [step EXCEPT ![c] = "answering"] /\ batch' = batch
           \/ Abandon(c)
    BY ReadStays DEF Answer, outboxes
  <1>2. /\ put' = [x \in Envelopes |-> put'[x]]
        /\ \A x \in Envelopes : put'[x] \in Nat \cup {Nothing}
        /\ Writing' /\ Survives'
    BY <1>1, RequestKeeps
  <1>3. /\ batch' = [d \in Devices |-> batch'[d]] /\ step' = [d \in Devices |-> step'[d]]
        /\ \A d \in Devices : \/ step'[d] = "take"
                              \/ step'[d] = step[d] /\ batch'[d] = batch[d]
                              \/ step[d] # "take" /\ batch'[d] = batch[d]
    <2>1. CASE Abandon(c) BY <2>1, AbandonKeeps DEF QInv
    <2>2. CASE step' = [step EXCEPT ![c] = "answering"] /\ batch' = batch
      <3>1. step' = [d \in Devices |-> IF d = c THEN "answering" ELSE step[d]]
        BY <2>2 DEF QInv, Tables
      <3> QED BY <1>1, <2>2, <3>1 DEF QInv, Tables
    <2> QED BY <1>1, <2>1, <2>2
  <1>4. Working' BY <1>1, <1>3, KeepsWorking DEF QInv
  <1>5. Tables' BY <1>1, <1>2, <1>3 DEF QInv, Tables, Envelopes, Kinds
  <1> QED BY <1>2, <1>4, <1>5 DEF QInv

(* The item that is deleted is the one that was dealt with.                 *)
LEMMA DeleteStep == ASSUME QInv, NEW c \in Devices, Delete(c) PROVE QInv'
  <1> DEFINE e == Head(batch[c])
             rest == Tail(batch[c])
  <1>1. /\ step[c] = "delete" /\ batch[c] # <<>> /\ up /\ op = Idle
        /\ UNCHANGED <<up, put, accepted, received, fetched, day>>
        /\ \/ /\ files' = files \ {e} /\ op' = [kind |-> "unlink", envelope |-> e]
              /\ step' = [step EXCEPT ![c] = "deleting"] /\ batch' = batch
           \/ /\ batch' = [batch EXCEPT ![c] = rest] /\ step' = [step EXCEPT ![c] = "take"]
              /\ UNCHANGED <<files, op>>
    BY DEF Delete, outboxes
  <1>2. Done(e) BY <1>1 DEF QInv, Working, DealtWith
  <1>3. \A x \in files : x \in files' \/ Expired(x) \/ Done(x) BY <1>1, <1>2
  <1>4. Survives' BY <1>1, <1>3, FilesStep
  <1> HIDE DEF e, rest
  <1>5. Writing'
    <2>1. CASE op' = [kind |-> "unlink", envelope |-> e] BY <2>1 DEF Writing
    <2>2. CASE op' = op BY <1>1, <2>2 DEF Writing, Idle
    <2> QED BY <1>1, <2>1, <2>2
  <1>6. /\ batch' = [d \in Devices |-> batch'[d]] /\ step' = [d \in Devices |-> step'[d]]
        /\ \A d \in Devices : \/ step'[d] = "take"
                              \/ step'[d] = step[d] /\ batch'[d] = batch[d]
                              \/ step[d] # "take" /\ batch'[d] = batch[d]
    <2>1. CASE step' = [step EXCEPT ![c] = "deleting"] /\ batch' = batch
      <3>1. step' = [d \in Devices |-> IF d = c THEN "deleting" ELSE step[d]]
        BY <2>1 DEF QInv, Tables
      <3> QED BY <1>1, <2>1, <3>1 DEF QInv, Tables
    <2>2. CASE batch' = [batch EXCEPT ![c] = rest] /\ step' = [step EXCEPT ![c] = "take"]
      <3>1. batch' = [d \in Devices |-> IF d = c THEN rest ELSE batch[d]]
        BY <2>2 DEF QInv, Tables
      <3>2. step' = [d \in Devices |-> IF d = c THEN "take" ELSE step[d]]
        BY <2>2 DEF QInv, Tables
      <3> QED BY <3>1, <3>2
    <2> QED BY <1>1, <2>1, <2>2
  <1>7. Working' BY <1>1, <1>6, KeepsWorking DEF QInv
  <1>8. Tables' BY <1>1, <1>6 DEF QInv, Tables, Envelopes, Kinds
  <1> QED BY <1>4, <1>5, <1>7, <1>8 DEF QInv

(* A device that cannot reach the relay drops its batch.                    *)
LEMMA UnreachableStep == ASSUME QInv, NEW c \in Devices, Unreachable(c) PROVE QInv'
  <1>1. Abandon(c) /\ UNCHANGED <<up, op, files, put, accepted, received, fetched, day>>
    BY ReadStays DEF Unreachable, relayVars, outboxes
  <1>2. /\ batch' = [d \in Devices |-> batch'[d]] /\ step' = [d \in Devices |-> step'[d]]
        /\ \A d \in Devices : step'[d] = "take" \/ (step'[d] = step[d] /\ batch'[d] = batch[d])
    BY <1>1, AbandonKeeps DEF QInv
  <1>3. Working' BY <1>1, <1>2, KeepsWorking DEF QInv
  <1>4. Tables' BY <1>1, <1>2 DEF QInv, Tables, Envelopes, Kinds
  <1>5. Writing' BY <1>1 DEF QInv, Writing, Envelopes, Kinds
  <1>6. Survives' BY <1>1, FilesStep
  <1> QED BY <1>3, <1>4, <1>5, <1>6 DEF QInv

-----------------------------------------------------------------------------
(* The initial state.                                                       *)
LEMMA InitQInv == Init => QInv
  BY DEF Init, QInv, Tables, Writing, Working, Survives, Idle

(* Every step, by the actions.                                              *)
LEMMA NextQInv == QInv /\ [Next]_vars => QInv'
  <1> SUFFICES ASSUME QInv, [Next]_vars PROVE QInv' OBVIOUS
  <1>1. CASE Publish \/ Enter \/ SyncFails \/ Forget
    BY <1>1, PublishStep, EnterStep, SyncFailsStep, ForgetStep
  <1>2. CASE Crash \/ Start \/ Midnight BY <1>2, CrashStep, StartStep, MidnightStep
  <1>3. ASSUME NEW e \in Envelopes, Deposit(e) PROVE QInv' BY <1>3, DepositStep
  <1>4. ASSUME NEW d \in Devices, Poll(d) \/ Take(d) \/ Carry(d) PROVE QInv'
    BY <1>4, PollStep, TakeStep, CarryStep
  <1>5. ASSUME NEW d \in Devices, NEW e \in Envelopes, Answer(d, e) PROVE QInv'
    BY <1>5, AnswerStep
  <1>6. ASSUME NEW d \in Devices, Delete(d) \/ Unreachable(d) PROVE QInv'
    BY <1>6, DeleteStep, UnreachableStep
  <1>7. CASE UNCHANGED vars
    BY <1>7 DEF vars, relayVars, clientVars, outboxes, QInv, Tables, Writing, Working,
                DealtWith, Survives, Done, Expired, Envelopes, Kinds
  <1> QED BY <1>1, <1>2, <1>3, <1>4, <1>5, <1>6, <1>7 DEF Next

(* An accepted deposit is in the relay's directory until it expires or its  *)
(* recipient has dealt with it, through crashes between any two of the      *)
(* relay's writes, lost replies and failed syncs (persist_new and remove    *)
(* before memory, poll without delete, delete after the ack).               *)
THEOREM AcceptedStays == Spec => []AcceptedSurvives
  <1>1. Init => QInv BY InitQInv
  <1>2. QInv /\ [Next]_vars => QInv' BY NextQInv
  <1>3. QInv => AcceptedSurvives BY DEF QInv, Survives, AcceptedSurvives
  <1> QED BY <1>1, <1>2, <1>3, PTL DEF Spec

-----------------------------------------------------------------------------
(* What the relay counts.                                                   *)

(* There are finitely many envelopes.                                       *)
LEMMA FiniteEnvelopes == IsFiniteSet(Envelopes)
  <1> DEFINE n == Len(IdOrder)
  <1>1. IdOrder \in Seq(Envelopes) /\ ToSet(IdOrder) = Envelopes BY QueueAssumption
  <1>2. n \in Nat /\ IdOrder \in [1 .. n -> Envelopes] BY <1>1
  <1>3. \A e \in Envelopes : \E i \in 1 .. n : IdOrder[i] = e BY <1>1, <1>2 DEF ToSet
  <1>4. IdOrder \in Surjection(1 .. n, Envelopes) BY <1>2, <1>3 DEF Surjection
  <1>5. IsFiniteSet(1 .. n) BY <1>2, FS_Interval
  <1> QED BY <1>4, <1>5, FS_Surjection

LEMMA Sizes == Bulk \in Nat /\ Slip \in Nat /\ \A e \in Envelopes : SizeOf(e) \in Nat
  BY QueueAssumption DEF SizeOf

OfKind(es, k) == {e \in es : e.kind = k}
Count(es, k)  == Cardinality(OfKind(es, k))

LEMMA Counts ==
  ASSUME NEW es \in SUBSET Envelopes, NEW k
  PROVE  IsFiniteSet(OfKind(es, k)) /\ Count(es, k) \in Nat
  <1>1. OfKind(es, k) \in SUBSET Envelopes BY DEF OfKind
  <1>2. IsFiniteSet(OfKind(es, k)) BY <1>1, FiniteEnvelopes, FS_Subset
  <1> QED BY <1>2, FS_CardinalityType DEF Count

LEMMA TotalIs ==
  ASSUME NEW es \in SUBSET Envelopes
  PROVE  /\ Total(es) = Bulk * Count(es, "delivery") + Slip * Count(es, "ack")
         /\ Total(es) \in Nat
  <1>1. Total(es) = Bulk * Count(es, "delivery") + Slip * Count(es, "ack")
    BY DEF Total, Count, OfKind
  <1>2. Bulk \in Nat /\ Slip \in Nat BY Sizes
  <1>3. Count(es, "delivery") \in Nat /\ Count(es, "ack") \in Nat BY Counts
  <1>4. \A m, n \in Nat : m * n \in Nat OBVIOUS
  <1> QED BY <1>1, <1>2, <1>3, <1>4

(* An envelope more adds its size.                                          *)
LEMMA TotalAdds ==
  ASSUME NEW es \in SUBSET Envelopes, NEW e \in Envelopes \ es
  PROVE  Total(es \cup {e}) = Total(es) + SizeOf(e)
  <1> DEFINE more == es \cup {e}
             ds   == Count(es, "delivery")
             as   == Count(es, "ack")
  <1>1. e.kind \in Kinds BY DEF Envelopes
  <1>2. /\ IsFiniteSet(OfKind(es, "delivery")) /\ ds \in Nat
        /\ IsFiniteSet(OfKind(es, "ack")) /\ as \in Nat
    BY Counts
  <1>3. Bulk \in Nat /\ Slip \in Nat BY Sizes
  <1>0. \A m, n \in Nat : m * (n + 1) = m * n + m /\ m * n \in Nat OBVIOUS
  <1>4. Total(es) = Bulk * ds + Slip * as BY TotalIs
  <1>5. Total(more) = Bulk * Count(more, "delivery") + Slip * Count(more, "ack")
    BY TotalIs
  <1>6. CASE e.kind = "delivery"
    <2>1. OfKind(more, "delivery") = OfKind(es, "delivery") \cup {e} BY <1>6 DEF OfKind
    <2>2. e \notin OfKind(es, "delivery") BY DEF OfKind
    <2>3. Count(more, "delivery") = ds + 1 BY <1>2, <2>1, <2>2, FS_AddElement DEF Count
    <2>4. OfKind(more, "ack") = OfKind(es, "ack") BY <1>6 DEF OfKind
    <2>5. Count(more, "ack") = as BY <2>4 DEF Count
    <2>6. SizeOf(e) = Bulk BY <1>6 DEF SizeOf
    <2> HIDE DEF ds, as, more
    <2>7. Bulk * (ds + 1) = Bulk * ds + Bulk BY <1>2, <1>3, <1>0
    <2>8. Bulk * ds \in Nat /\ Slip * as \in Nat BY <1>2, <1>3, <1>0
    <2>9. Total(more) = (Bulk * ds + Bulk) + Slip * as BY <1>5, <2>3, <2>5, <2>7
    <2> DEFINE x == Bulk * ds
               y == Slip * as
    <2>10. Total(more) = (x + Bulk) + y /\ Total(es) = x + y /\ x \in Nat /\ y \in Nat
      BY <1>4, <2>8, <2>9
    <2> HIDE DEF x, y
    <2>11. Total(more) = Total(es) + Bulk BY <1>3, <2>10
    <2> QED BY <2>6, <2>11 DEF more
  <1>7. CASE e.kind = "ack"
    <2>1. OfKind(more, "ack") = OfKind(es, "ack") \cup {e} BY <1>7 DEF OfKind
    <2>2. e \notin OfKind(es, "ack") BY DEF OfKind
    <2>3. Count(more, "ack") = as + 1 BY <1>2, <2>1, <2>2, FS_AddElement DEF Count
    <2>4. OfKind(more, "delivery") = OfKind(es, "delivery") BY <1>7 DEF OfKind
    <2>5. Count(more, "delivery") = ds BY <2>4 DEF Count
    <2>6. SizeOf(e) = Slip BY <1>7 DEF SizeOf
    <2> HIDE DEF ds, as, more
    <2>7. Slip * (as + 1) = Slip * as + Slip BY <1>2, <1>3, <1>0
    <2>8. Bulk * ds \in Nat /\ Slip * as \in Nat BY <1>2, <1>3, <1>0
    <2>9. Total(more) = Bulk * ds + (Slip * as + Slip) BY <1>5, <2>3, <2>5, <2>7
    <2> DEFINE x == Bulk * ds
               y == Slip * as
    <2>10. Total(more) = x + (y + Slip) /\ Total(es) = x + y /\ x \in Nat /\ y \in Nat
      BY <1>4, <2>8, <2>9
    <2> HIDE DEF x, y
    <2>11. Total(more) = Total(es) + Slip BY <1>3, <2>10
    <2> QED BY <2>6, <2>11 DEF more
  <1> QED BY <1>1, <1>6, <1>7 DEF Kinds

(* Fewer envelopes do not count more.                                       *)
LEMMA TotalGrows ==
  ASSUME NEW es \in SUBSET Envelopes, NEW fs \in SUBSET es
  PROVE  Total(fs) <= Total(es)
  <1> DEFINE Fewer(k) == Count(fs, k) <= Count(es, k)
  <1>1. fs \in SUBSET Envelopes OBVIOUS
  <1>2. ASSUME NEW k PROVE Fewer(k)
    <2>1. OfKind(fs, k) \in SUBSET OfKind(es, k) BY DEF OfKind
    <2>2. IsFiniteSet(OfKind(es, k)) BY Counts
    <2> QED BY <2>1, <2>2, FS_Subset DEF Count
  <1>3. Fewer("delivery") /\ Fewer("ack") BY <1>2
  <1>4. /\ Count(es, "delivery") \in Nat /\ Count(es, "ack") \in Nat
        /\ Count(fs, "delivery") \in Nat /\ Count(fs, "ack") \in Nat
    BY <1>1, Counts
  <1>5. Bulk \in Nat /\ Slip \in Nat BY Sizes
  <1>6. /\ Total(es) = Bulk * Count(es, "delivery") + Slip * Count(es, "ack")
        /\ Total(fs) = Bulk * Count(fs, "delivery") + Slip * Count(fs, "ack")
    BY <1>1, TotalIs
  <1>7. \A c, m, n \in Nat : m <= n => c * m <= c * n /\ c * m \in Nat /\ c * n \in Nat
    OBVIOUS
  <1>8. /\ Bulk * Count(fs, "delivery") <= Bulk * Count(es, "delivery")
        /\ Slip * Count(fs, "ack") <= Slip * Count(es, "ack")
        /\ Bulk * Count(fs, "delivery") \in Nat /\ Bulk * Count(es, "delivery") \in Nat
        /\ Slip * Count(fs, "ack") \in Nat /\ Slip * Count(es, "ack") \in Nat
    BY <1>3, <1>4, <1>5, <1>7
  <1> QED BY <1>6, <1>8

-----------------------------------------------------------------------------
(* The relay's books.                                                       *)

\* The step of the relay: what it knows, and what its directory holds, differ
\* by the envelope it works on.
Booked ==
  /\ up => stored = Total(items)
  /\ ~up => op = Idle
  /\ op.kind = "idle" => op = Idle
  /\ op.kind = "write" =>
       /\ op.envelope \notin files /\ items = files
       /\ Total(items) + SizeOf(op.envelope) <= Cap
  /\ op.kind = "publish" => op.envelope \notin items /\ files = items \cup {op.envelope}
  /\ op.kind = "unlink"  => op.envelope \in items /\ files = items \ {op.envelope}
  /\ up /\ op = Idle => items = files

\* As long as no sync has failed the books are right, and within the cap.
Books ==
  /\ ioErrors \in Nat
  /\ files \subseteq Envelopes /\ items \subseteq Envelopes
  /\ op.kind \in {"idle", "write", "publish", "unlink"}
  /\ op.kind # "idle" => op.envelope \in Envelopes
  /\ ioErrors = 0 => Booked /\ Total(files) <= Cap

(* A step that leaves the relay alone.                                      *)
LEMMA BooksSame ==
  ASSUME Books, UNCHANGED <<up, files, items, stored, op, ioErrors>>
  PROVE  Books'
  BY DEF Books, Booked, Total, Envelopes, Kinds, SizeOf, Idle

(* A step after which the relay works on nothing, and its books are right   *)
(* if they were kept before.                                                *)
LEMMA BooksAtRest ==
  ASSUME Books, op' = Idle, ioErrors' \in Nat, ioErrors' = 0 => ioErrors = 0,
         files' \subseteq files, items' \subseteq Envelopes,
         ioErrors = 0 /\ up' => items' = files' /\ stored' = Total(items')
  PROVE  Books'
  <1>1. files \in SUBSET Envelopes /\ files' \in SUBSET files BY DEF Books
  <1>2. Total(files') <= Total(files) /\ Total(files) \in Nat /\ Total(files') \in Nat
    BY <1>1, TotalGrows, TotalIs
  <1>3. Cap \in Nat BY QueueAssumption
  <1>4. ioErrors' = 0 => Total(files)' <= Cap
    BY <1>2, <1>3 DEF Books, Total
  <1>5. ioErrors' = 0 => Booked'
    BY DEF Booked, Idle, Total
  <1>6. op'.kind = "idle" BY DEF Idle
  <1> QED BY <1>1, <1>4, <1>5, <1>6 DEF Books, Envelopes, Kinds

LEMMA BooksRequest ==
  ASSUME Books, NEW e \in Envelopes, e \notin files, Request(e), UNCHANGED <<up, ioErrors>>
  PROVE  Books'
  <1>1. /\ up /\ op = Idle /\ files' = files \ (items \ Kept) /\ items' = Kept
        /\ stored' = Total(Kept)
    BY DEF Request
  <1>2. Kept \in SUBSET items /\ items \in SUBSET Envelopes BY DEF Kept, Books
  <1>3. ioErrors = 0 => items = files BY <1>1 DEF Books, Booked
  <1>4. ioErrors = 0 => files' = Kept BY <1>1, <1>2, <1>3
  <1>5. CASE op' = Idle
    <2>1. files' \subseteq files /\ items' \subseteq Envelopes BY <1>1, <1>2
    <2>2. ioErrors' \in Nat BY DEF Books
    <2>3. ioErrors = 0 => items' = files' /\ stored' = Total(items') BY <1>1, <1>4
    <2> QED BY <1>5, <2>1, <2>2, <2>3, BooksAtRest
  <1>6. CASE op' = [kind |-> "write", envelope |-> e] /\ Fits(e)
    <2>1. op'.kind = "write" /\ op'.envelope = e BY <1>6
    <2>2. Total(Kept) + SizeOf(e) <= Cap BY <1>6 DEF Fits
    <2>3. Total(Kept) \in Nat /\ SizeOf(e) \in Nat /\ Cap \in Nat
      BY <1>2, TotalIs, Sizes, QueueAssumption
    <2>4. Total(Kept) <= Cap BY <2>2, <2>3
    <2>5. Total(items)' = Total(Kept) /\ (ioErrors = 0 => Total(files)' = Total(Kept))
      BY <1>1, <1>4 DEF Total
    <2>6. files' \subseteq Envelopes /\ items' \subseteq Envelopes /\ e \notin files'
      BY <1>1, <1>2 DEF Books
    <2>7. SizeOf(op.envelope)' = SizeOf(e) BY <2>1 DEF SizeOf
    <2>8. up' /\ op' # Idle BY <1>1, <2>1 DEF Idle
    <2>9. ioErrors = 0 => Booked'
      BY <1>1, <1>4, <2>1, <2>2, <2>5, <2>6, <2>7, <2>8 DEF Booked
    <2> QED BY <2>1, <2>4, <2>5, <2>6, <2>9 DEF Books, Envelopes, Kinds
  <1> QED BY <1>1, <1>5, <1>6 DEF Request

(* The file is there: within the cap, because there was room for it.        *)
LEMMA BooksPublish == ASSUME QInv, Books, Publish PROVE Books'
  <1> DEFINE e == op.envelope
  <1>1. /\ op.kind = "write" /\ files' = files \cup {e}
        /\ op' = [op EXCEPT !.kind = "publish"]
        /\ UNCHANGED <<up, items, stored, ioErrors>>
    BY DEF Publish, faults
  <1>2. op' = [kind |-> "publish", envelope |-> e] BY <1>1 DEF QInv, Writing
  <1>3. up /\ e \in Envelopes BY <1>1 DEF QInv, Writing
  <1>4. ioErrors = 0 =>
          /\ e \notin files /\ items = files /\ stored = Total(items)
          /\ Total(items) + SizeOf(e) <= Cap
    BY <1>1, <1>3 DEF Books, Booked
  <1> HIDE DEF e
  <1>5. ioErrors = 0 => Total(files \cup {e}) = Total(files) + SizeOf(e)
    BY <1>3, <1>4, TotalAdds DEF Books
  <1>6. ioErrors = 0 => Total(files)' <= Cap BY <1>1, <1>4, <1>5 DEF Total
  <1>7. op'.kind = "publish" /\ op'.envelope = e /\ op' # Idle BY <1>2 DEF Idle
  <1>8. Total(items)' = Total(items) BY <1>1 DEF Total
  <1>9. ioErrors = 0 => Booked'
    BY <1>1, <1>3, <1>4, <1>7, <1>8 DEF Booked
  <1>10. files' \subseteq Envelopes /\ items' \subseteq Envelopes
    BY <1>1, <1>3 DEF Books
  <1> QED BY <1>1, <1>3, <1>6, <1>7, <1>9, <1>10 DEF Books, Envelopes, Kinds

(* It is counted when it is entered.                                        *)
LEMMA BooksEnter == ASSUME QInv, Books, Enter PROVE Books'
  <1> DEFINE e == op.envelope
  <1>1. /\ op.kind = "publish" /\ op' = Idle /\ items' = items \cup {e}
        /\ stored' = stored + SizeOf(e)
        /\ UNCHANGED <<up, files, ioErrors>>
    BY ReadStays DEF Enter, outboxes
  <1>2. up /\ e \in Envelopes BY <1>1 DEF QInv, Writing
  <1>3. ioErrors = 0 =>
          /\ e \notin items /\ files = items \cup {e} /\ stored = Total(items)
    BY <1>1, <1>2 DEF Books, Booked
  <1> HIDE DEF e
  <1>4. ioErrors = 0 => Total(items \cup {e}) = Total(items) + SizeOf(e)
    BY <1>2, <1>3, TotalAdds DEF Books
  <1>5. ioErrors = 0 => items' = files' /\ stored' = Total(items') BY <1>1, <1>3, <1>4
  <1>6. items' \subseteq Envelopes /\ ioErrors' \in Nat BY <1>1, <1>2 DEF Books
  <1> QED BY <1>1, <1>5, <1>6, BooksAtRest

(* After a failed sync nothing is claimed.                                  *)
LEMMA BooksSyncFails == ASSUME Books, SyncFails PROVE Books'
  <1>1. /\ op' = Idle /\ ioErrors' = ioErrors + 1 /\ UNCHANGED <<up, files, items, stored>>
    BY ReadStays DEF SyncFails, outboxes
  <1>2. ioErrors' \in Nat /\ ioErrors' # 0 BY <1>1 DEF Books
  <1>3. files' \subseteq Envelopes /\ items' \subseteq Envelopes BY <1>1 DEF Books
  <1>4. op'.kind = "idle" BY <1>1 DEF Idle
  <1> QED BY <1>2, <1>3, <1>4 DEF Books, Envelopes, Kinds

(* What is removed is no longer counted.                                    *)
LEMMA BooksForget == ASSUME QInv, Books, Forget PROVE Books'
  <1> DEFINE e == op.envelope
             rest == items \ {e}
  <1>1. /\ op.kind = "unlink" /\ op' = Idle /\ items' = rest
        /\ stored' = stored - SizeOf(e)
        /\ UNCHANGED <<up, files, ioErrors>>
    BY DEF Forget, Freed
  <1>2. e \in Envelopes BY <1>1 DEF Books
  <1>3. ioErrors = 0 => e \in items /\ files = rest /\ (up => stored = Total(items))
    BY <1>1 DEF Books, Booked
  <1>4. rest \in SUBSET Envelopes /\ e \notin rest BY DEF Books
  <1>5. ioErrors = 0 => items = rest \cup {e} BY <1>3
  <1> HIDE DEF e, rest
  <1>6. ioErrors = 0 => Total(items) = Total(rest) + SizeOf(e)
    BY <1>2, <1>4, <1>5, TotalAdds
  <1>7. Total(rest) \in Nat /\ SizeOf(e) \in Nat BY <1>2, <1>4, TotalIs, Sizes
  <1>8. ioErrors = 0 /\ up' => items' = files' /\ stored' = Total(items')
    BY <1>1, <1>3, <1>6, <1>7
  <1>9. files' \subseteq files /\ items' \subseteq Envelopes /\ ioErrors' \in Nat
    BY <1>1, <1>4 DEF Books
  <1> QED BY <1>1, <1>8, <1>9, BooksAtRest

(* A crash forgets the books, and what starts is what is in the directory.  *)
LEMMA BooksCrash == ASSUME Books, Crash PROVE Books'
  <1>1. /\ op' = Idle /\ ~up' /\ items' = {} /\ UNCHANGED <<files, ioErrors>>
    BY DEF Crash
  <1> QED BY <1>1, BooksAtRest DEF Books

LEMMA BooksStart == ASSUME QInv, Books, Start PROVE Books'
  <1>1. /\ ~up /\ files' = Alive /\ items' = Alive /\ stored' = Total(Alive)
        /\ op' = op /\ ioErrors' = ioErrors /\ up'
    BY DEF Start, faults
  <1>2. Alive \subseteq files BY DEF Alive
  <1>3. CASE op = Idle
    <2>1. files' \subseteq files /\ items' \subseteq Envelopes /\ ioErrors' \in Nat
      BY <1>1, <1>2 DEF Books
    <2> QED BY <1>1, <1>3, <2>1, BooksAtRest
  <1>4. CASE op # Idle
    <2>1. ioErrors # 0 BY <1>1, <1>4 DEF Books, Booked
    <2> QED BY <1>1, <1>2, <2>1 DEF Books, Envelopes, Kinds
  <1> QED BY <1>3, <1>4

(* A poll drops what has expired from directory and books alike.            *)
LEMMA BooksPoll == ASSUME Books, NEW c \in Devices, Poll(c) PROVE Books'
  <1>1. /\ up /\ op = Idle /\ op' = op /\ ioErrors' = ioErrors
        /\ files' = files \ (items \ Kept) /\ items' = Kept /\ stored' = Total(Kept)
    BY DEF Poll, PolledAway, faults
  <1>2. Kept \subseteq items BY DEF Kept
  <1>3. ioErrors = 0 => items = files BY <1>1 DEF Books, Booked
  <1>4. ioErrors = 0 => items' = files' /\ stored' = Total(items') BY <1>1, <1>2, <1>3
  <1>5. files' \subseteq files /\ items' \subseteq Envelopes /\ ioErrors' \in Nat
    BY <1>1, <1>2 DEF Books
  <1> QED BY <1>1, <1>4, <1>5, BooksAtRest

(* The file goes before the item and its size.                              *)
LEMMA BooksDelete == ASSUME QInv, Books, NEW c \in Devices, Delete(c) PROVE Books'
  <1> DEFINE e == Head(batch[c])
  <1>1. /\ up /\ op = Idle /\ UNCHANGED <<up, items, stored, ioErrors>>
        /\ \/ /\ e \in items /\ files' = files \ {e}
              /\ op' = [kind |-> "unlink", envelope |-> e]
           \/ UNCHANGED <<files, op>>
    BY DEF Delete, faults
  <1> HIDE DEF e
  <1>2. CASE UNCHANGED <<files, op>> BY <1>1, <1>2, BooksSame
  <1>3. CASE /\ e \in items /\ files' = files \ {e}
             /\ op' = [kind |-> "unlink", envelope |-> e]
    <2>1. ioErrors = 0 => items = files /\ stored = Total(items) BY <1>1 DEF Books, Booked
    <2>2. files \in SUBSET Envelopes /\ files' \in SUBSET files BY <1>3 DEF Books
    <2>3. Total(files') <= Total(files) /\ Total(files) \in Nat /\ Total(files') \in Nat
      BY <2>2, TotalGrows, TotalIs
    <2>4. Cap \in Nat BY QueueAssumption
    <2>5. ioErrors = 0 => Total(files)' <= Cap BY <2>3, <2>4 DEF Books, Total
    <2>6. op'.kind = "unlink" /\ op'.envelope = e /\ op' # Idle BY <1>3 DEF Idle
    <2>7. Total(items)' = Total(items) BY <1>1 DEF Total
    <2>8. ioErrors = 0 => Booked' BY <1>1, <1>3, <2>1, <2>6, <2>7 DEF Booked
    <2>9. e \in Envelopes /\ files' \subseteq Envelopes /\ items' \subseteq Envelopes
      BY <1>1, <1>3, <2>2 DEF Books
    <2> QED BY <1>1, <2>5, <2>6, <2>8, <2>9 DEF Books, Envelopes, Kinds
  <1> QED BY <1>1, <1>2, <1>3

-----------------------------------------------------------------------------
LEMMA InitBooks == Init => Books
  <1> SUFFICES ASSUME Init PROVE Books OBVIOUS
  <1>1. /\ up /\ files = {} /\ items = {} /\ stored = 0 /\ op = Idle /\ ioErrors = 0
    BY DEF Init
  <1>2. op.kind = "idle" BY <1>1 DEF Idle
  <1>3. \A k : OfKind({}, k) = {} BY DEF OfKind
  <1>4. \A k : Count({}, k) = 0 BY <1>3, FS_EmptySet DEF Count
  <1>5. Total({}) = Bulk * 0 + Slip * 0 BY <1>4, TotalIs
  <1>6. Total({}) = 0 /\ Cap \in Nat BY <1>5, QueueAssumption
  <1> QED BY <1>1, <1>2, <1>6 DEF Books, Booked

LEMMA NextBooks == QInv /\ Books /\ [Next]_vars => Books'
  <1> SUFFICES ASSUME QInv, Books, [Next]_vars PROVE Books' OBVIOUS
  <1>1. CASE Publish \/ Enter \/ SyncFails \/ Forget
    BY <1>1, BooksPublish, BooksEnter, BooksSyncFails, BooksForget
  <1>2. CASE Crash \/ Start BY <1>2, BooksCrash, BooksStart
  <1>3. CASE Midnight BY <1>3, BooksSame DEF Midnight, relayVars, faults
  <1>4. ASSUME NEW e \in Envelopes, Deposit(e) PROVE Books'
    <2>1. e \notin files /\ Request(e) /\ UNCHANGED <<up, ioErrors>>
      BY <1>4 DEF Deposit, Fresh, Gone, faults
    <2> QED BY <2>1, BooksRequest
  <1>5. ASSUME NEW d \in Devices, NEW e \in Envelopes, Answer(d, e) PROVE Books'
    <2>1. e \notin files /\ Request(e) /\ UNCHANGED <<up, ioErrors>>
      BY <1>5 DEF Answer, Fresh, Gone, faults
    <2> QED BY <2>1, BooksRequest
  <1>6. ASSUME NEW d \in Devices, Poll(d) \/ Delete(d) PROVE Books'
    BY <1>6, BooksPoll, BooksDelete
  <1>7. ASSUME NEW d \in Devices, Take(d) \/ Carry(d) \/ Unreachable(d) PROVE Books'
    BY <1>7, BooksSame DEF Take, Carry, Unreachable, relayVars, faults
  <1>8. CASE UNCHANGED vars BY <1>8, BooksSame DEF vars, relayVars, faults
  <1> QED BY <1>1, <1>2, <1>3, <1>4, <1>5, <1>6, <1>7, <1>8 DEF Next

LEMMA BooksAlways == Spec => [](QInv /\ Books)
  <1>1. Init => QInv /\ Books BY InitQInv, InitBooks
  <1>2. QInv /\ Books /\ [Next]_vars => (QInv /\ Books)' BY NextQInv, NextBooks
  <1> QED BY <1>1, <1>2, PTL DEF Spec

(* Between requests the relay's memory and its count are what its directory *)
(* holds, whatever was interrupted, lost or refused before, as long as no   *)
(* sync has failed (storage_bytes in enqueue, remove and open).             *)
THEOREM BooksAreRight == Spec => []Accounted
  <1>1. QInv /\ Books => Accounted BY DEF Books, Booked, Accounted
  <1> QED BY <1>1, BooksAlways, PTL

(* What is in the directory never exceeds the cap, so a relay that stopped, *)
(* wherever it was, is not refused when it opens its directory again.       *)
THEOREM StartsAgain == Spec => []CanStart
  <1>1. QInv /\ Books => CanStart
    <2> SUFFICES ASSUME Books, ioErrors = 0 PROVE Total(Alive) <= Cap BY DEF CanStart
    <2>1. files \in SUBSET Envelopes /\ Alive \in SUBSET files BY DEF Books, Alive
    <2>2. Total(Alive) <= Total(files) /\ Total(files) \in Nat /\ Total(Alive) \in Nat
      BY <2>1, TotalGrows, TotalIs
    <2>3. Total(files) <= Cap /\ Cap \in Nat BY QueueAssumption DEF Books
    <2> QED BY <2>2, <2>3
  <1> QED BY <1>1, BooksAlways, PTL

-----------------------------------------------------------------------------
(***************************************************************************)
(* The relay and the daemons that share it implement Handoff.              *)
(*                                                                         *)
(* Whatever a directory, the relay's memory, its request or a poll holds   *)
(* is genuine (Genuine): it has been sealed, and an ack is of an offer its *)
(* recipient has committed.  A poll holds what is for its device alone     *)
(* (Ours), what the relay takes away is what a device waits for, an ack    *)
(* that was read is of an offer received, and what is received has been    *)
(* deposited (Traced).  The acks a poll has recorded, and those carried    *)
(* over into the outbox file, were read before (Carried).                  *)
(***************************************************************************)

Genuine == {e \in Envelopes : /\ put[e] # Nothing
                              /\ e.kind = "ack" => e.offer \in received}
Ours(d) == {e \in Genuine : To(e) = d}

Traced ==
  /\ files \subseteq Genuine /\ items \subseteq Genuine
  /\ op # Idle => op.envelope \in Genuine
  /\ op.kind = "unlink" => step[To(op.envelope)] = "deleting"
  /\ \A d \in Devices : batch[d] \in Seq(Ours(d))
  /\ fetched \subseteq received
  /\ received \subseteq Offers /\ \A o \in received : Sealed(o)

(* An envelope is of an offer, for a device and from one.                   *)
LEMMA EnvelopeIs ==
  /\ \A e \in Envelopes :
       /\ e.offer \in Offers /\ e.kind \in {"delivery", "ack"}
       /\ e.n \in 1 .. Attempts[e.kind]
       /\ e = [offer |-> e.offer, kind |-> e.kind, n |-> e.n]
       /\ To(e) \in Devices /\ From(e) \in Devices
  /\ \A o \in Offers : \A n \in 1 .. Attempts["delivery"] :
       [offer |-> o, kind |-> "delivery", n |-> n] \in Envelopes
  <1>1. ASSUME NEW e \in Envelopes
        PROVE  \E k \in Kinds : e \in [offer : Offers, kind : {k}, n : 1 .. Attempts[k]]
    BY DEF Envelopes
  <1>2. ASSUME NEW e \in Envelopes
        PROVE  /\ e.offer \in Offers /\ e.kind \in {"delivery", "ack"}
               /\ e.n \in 1 .. Attempts[e.kind]
               /\ e = [offer |-> e.offer, kind |-> e.kind, n |-> e.n]
    BY <1>1, <1>2 DEF Kinds
  <1>3. ASSUME NEW e \in Envelopes PROVE To(e) \in Devices /\ From(e) \in Devices
    BY <1>2, <1>3, QueueAssumption DEF To, From
  <1>4. ASSUME NEW o \in Offers, NEW n \in 1 .. Attempts["delivery"]
        PROVE  [offer |-> o, kind |-> "delivery", n |-> n] \in Envelopes
    <2>1. [offer |-> o, kind |-> "delivery", n |-> n]
            \in [offer : Offers, kind : {"delivery"}, n : 1 .. Attempts["delivery"]]
      OBVIOUS
    <2> QED BY <2>1 DEF Envelopes, Kinds
  <1> QED BY <1>2, <1>3, <1>4

(* A sequence of some things is one of more things; its head is one of      *)
(* them, and so is all that follows.                                        *)
LEMMA PartOfSequence ==
  ASSUME NEW S, NEW T, S \subseteq T, NEW s \in Seq(S)
  PROVE  s \in Seq(T) /\ (s # <<>> => Head(s) \in S /\ Tail(s) \in Seq(T))
  <1>1. Len(s) \in Nat /\ s \in [1 .. Len(s) -> S] OBVIOUS
  <1>2. s \in [1 .. Len(s) -> T] BY <1>1
  <1>3. s \in Seq(T) BY <1>1, <1>2
  <1> QED BY <1>3

-----------------------------------------------------------------------------
(* What a poll returns.                                                     *)

(* What holds of a set whenever it holds of the set less any one element    *)
(* holds of every subset of a finite set.                                   *)
LEMMA SetInduction ==
  ASSUME NEW S, IsFiniteSet(S), NEW F,
         \A T \in SUBSET S : (\A x \in T : T \ {x} \in F) => T \in F
  PROVE  \A T \in SUBSET S : T \in F
  <1> DEFINE bad == {T \in SUBSET S : T \notin F}
  <1>1. SUFFICES ASSUME bad # {} PROVE FALSE OBVIOUS
  <1>2. FiniteSubsetsOf(S) = SUBSET S BY FS_FiniteSubsetsOfFinite
  <1>3. IsWellFoundedOn(StrictSubsetOrdering(S), SUBSET S)
    BY <1>2, FS_StrictSubsetOrderingWellFounded
  <1>4. bad \subseteq SUBSET S OBVIOUS
  <1> HIDE DEF bad
  <1>5. PICK T \in bad : \A U \in bad : ~(<<U, T>> \in StrictSubsetOrdering(S))
    BY <1>1, <1>3, <1>4, WFMin
  <1>6. T \in SUBSET S /\ T \notin F BY DEF bad
  <1>7. PICK x \in T : T \ {x} \notin F BY <1>6
  <1>8. T \ {x} \in bad BY <1>6, <1>7 DEF bad
  <1>9. <<T \ {x}, T>> \in StrictSubsetOrdering(S)
    <2>1. T \ {x} \in SUBSET S /\ T \in SUBSET S /\ T \ {x} # T BY <1>6, <1>7
    <2> QED BY <2>1 DEF StrictSubsetOrdering
  <1> QED BY <1>5, <1>8, <1>9

(* A finite set of numbers has a place for every rank.                      *)
LEMMA Ranks ==
  ASSUME NEW N \in Nat
  PROVE  \A S \in SUBSET (1 .. N) : \A n \in 1 .. Cardinality(S) :
           \E i \in S : Cardinality({j \in S : j < i}) = n - 1
  <1> DEFINE Ranked(S) == \A n \in 1 .. Cardinality(S) :
                            \E i \in S : Cardinality({j \in S : j < i}) = n - 1
             bad == {m \in 0 .. N : \E S \in SUBSET (1 .. m) : ~Ranked(S)}
  <1>1. ASSUME NEW m \in 0 .. N, m > 0, m \in bad PROVE m - 1 \in bad
    <2>1. PICK S \in SUBSET (1 .. m) : ~Ranked(S) BY <1>1
    <2>2. PICK n \in 1 .. Cardinality(S) :
            \A i \in S : Cardinality({j \in S : j < i}) # n - 1
      BY <2>1
    <2> DEFINE R == S \ {m}
    <2>3. IsFiniteSet(1 .. m) BY <1>1, FS_Interval
    <2>4. IsFiniteSet(S) BY <2>3, FS_Subset
    <2>5. /\ Cardinality(S) \in Nat
          /\ Cardinality(R) = IF m \in S THEN Cardinality(S) - 1 ELSE Cardinality(S)
      BY <2>4, FS_CardinalityType, FS_RemoveElement
    <2>6. \A i \in S : i <= m /\ i \in Int BY <1>1
    <2>7. m \in S => n # Cardinality(S)
      <3>1. SUFFICES ASSUME m \in S PROVE Cardinality(S) # n OBVIOUS
      <3>2. {j \in S : j < m} = R
        <4>1. m \in Int BY <1>1
        <4>2. \A j \in S : j < m <=> j # m BY <2>6, <4>1
        <4> QED BY <4>2
      <3>3. Cardinality(R) # n - 1 BY <2>2, <3>1, <3>2
      <3>4. Cardinality(R) = Cardinality(S) - 1 BY <2>5, <3>1
      <3> QED BY <3>3, <3>4
    <2>8. n \in 1 .. Cardinality(R) BY <2>5, <2>7
    <2>9. \A i \in R : {j \in S : j < i} = {j \in R : j < i}
      BY <2>6
    <2>10. \A i \in R : Cardinality({j \in R : j < i}) # n - 1 BY <2>2, <2>9
    <2> HIDE DEF R
    <2>11. ~Ranked(R) BY <2>8, <2>10
    <2>12. R \in SUBSET (1 .. m - 1) BY <1>1, <2>6 DEF R
    <2> QED BY <1>1, <2>11, <2>12
  <1>2. 0 \notin bad
    <2>1. \A S \in SUBSET (1 .. 0) : S = {} OBVIOUS
    <2>2. Ranked({}) BY FS_EmptySet
    <2> QED BY <2>1, <2>2
  <1> HIDE DEF bad
  <1>3. N \notin bad
    <2> DEFINE F == {T \in SUBSET (1 .. N) : \A m \in 0 .. N : T = 1 .. m => m \notin bad}
    <2>1. IsFiniteSet(1 .. N) BY FS_Interval
    <2>2. ASSUME NEW T \in SUBSET (1 .. N), \A x \in T : T \ {x} \in F PROVE T \in F
      <3> SUFFICES ASSUME NEW m \in 0 .. N, T = 1 .. m PROVE m \notin bad OBVIOUS
      <3>1. CASE m = 0 BY <1>2, <3>1
      <3>2. CASE m > 0
        <4>1. m \in T /\ T \ {m} = 1 .. m - 1 /\ m - 1 \in 0 .. N BY <3>2
        <4>2. m - 1 \notin bad BY <2>2, <4>1
        <4> QED BY <1>1, <3>2, <4>2
      <3> QED BY <3>1, <3>2
    <2> HIDE DEF F
    <2>3. \A T \in SUBSET (1 .. N) : T \in F BY <2>1, <2>2, SetInduction
    <2>4. 1 .. N \in F BY <2>3
    <2>5. \A m \in 0 .. N : 1 .. N = 1 .. m => m \notin bad BY <2>4 DEF F
    <2>6. N \in 0 .. N OBVIOUS
    <2> QED BY <2>5, <2>6
  <1> QED BY <1>3 DEF bad

(* A poll returns items the relay keeps, that are for the device and in its *)
(* window (poll_bounded).                                                   *)
LEMMA BatchedIs ==
  ASSUME NEW d
  PROVE  Batched(d) \in Seq({e \in Kept : To(e) = d /\ InWindow(e)})
  <1> DEFINE N == Len(IdOrder)
             mine == Polled(d)
             E == {e \in Kept : To(e) = d /\ InWindow(e)}
             Nth(n) == CHOOSE i \in mine : Cardinality({j \in mine : j < i}) = n - 1
             D == {m \in 1 .. Batch : m <= Cardinality(mine)}
  <1>1. N \in Nat /\ DOMAIN IdOrder = 1 .. N BY QueueAssumption
  <1>2. mine \in SUBSET (1 .. N) BY <1>1 DEF Polled
  <1>3. \A i \in mine : IdOrder[i] \in E BY DEF Polled
  <1>4. Batched(d) = [n \in D |-> IdOrder[Nth(n)]] BY DEF Batched
  <1>5. IsFiniteSet(mine)
    <2>1. IsFiniteSet(1 .. N) BY <1>1, FS_Interval
    <2> QED BY <1>2, <2>1, FS_Subset
  <1>6. Cardinality(mine) \in Nat BY <1>5, FS_CardinalityType
  <1>7. PICK k \in Nat : D = 1 .. k /\ k <= Cardinality(mine)
    <2>1. Batch \in Nat BY QueueAssumption
    <2>2. CASE Batch <= Cardinality(mine)
      <3>1. D = 1 .. Batch BY <1>6, <2>1, <2>2
      <3> QED BY <2>1, <2>2, <3>1
    <2>3. CASE ~(Batch <= Cardinality(mine))
      <3>1. D = 1 .. Cardinality(mine) BY <1>6, <2>1, <2>3
      <3> QED BY <1>6, <3>1
    <2> QED BY <2>2, <2>3
  <1> HIDE DEF mine, E, D
  <1>8. \A n \in 1 .. k : Nth(n) \in mine
    <2> SUFFICES ASSUME NEW n \in 1 .. k PROVE Nth(n) \in mine OBVIOUS
    <2>1. n \in 1 .. Cardinality(mine) BY <1>6, <1>7
    <2>2. \E i \in mine : Cardinality({j \in mine : j < i}) = n - 1
      BY <1>1, <1>2, <2>1, Ranks
    <2> QED BY <2>2
  <1> HIDE DEF Nth
  <1>9. [n \in 1 .. k |-> IdOrder[Nth(n)]] \in [1 .. k -> E] BY <1>3, <1>8
  <1>10. Batched(d) \in Seq(E) BY <1>4, <1>7, <1>9
  <1> QED BY <1>10 DEF E

-----------------------------------------------------------------------------
(* Traced, step by step.                                                    *)

(* What was genuine stays so, as long as no envelope is unsealed, and what  *)
(* was deposited stays deposited.                                           *)
LEMMA GenuineStays ==
  ASSUME \A e \in Envelopes : put[e] # Nothing => put'[e] # Nothing,
         received \subseteq received'
  PROVE  /\ Genuine \subseteq Genuine' /\ \A d : Ours(d) \subseteq Ours(d)'
         /\ \A o \in Offers : Sealed(o) => Sealed(o)'
  <1>1. Genuine \subseteq Genuine' BY DEF Genuine, Envelopes, Kinds
  <1>2. \A d : Ours(d) \subseteq Ours(d)' BY <1>1 DEF Ours, To
  <1>3. \A o \in Offers : Sealed(o) => Sealed(o)' BY EnvelopeIs DEF Sealed
  <1> QED BY <1>1, <1>2, <1>3

(* A step that seals nothing.                                               *)
LEMMA TracedGrows ==
  ASSUME Traced, UNCHANGED put, received \subseteq received',
         fetched' \subseteq received', received' \subseteq Offers,
         \A o \in received' : Sealed(o),
         files' \subseteq Genuine, items' \subseteq Genuine,
         op' # Idle => op'.envelope \in Genuine,
         op'.kind = "unlink" => step'[To(op'.envelope)] = "deleting",
         \A d \in Devices : \/ batch'[d] = batch[d] \/ batch'[d] = <<>>
                            \/ batch[d] # <<>> /\ batch'[d] = Tail(batch[d])
                            \/ batch'[d] \in Seq(Ours(d))
  PROVE  Traced'
  <1>1. /\ Genuine \subseteq Genuine' /\ \A d : Ours(d) \subseteq Ours(d)'
        /\ \A o \in Offers : Sealed(o) => Sealed(o)'
    BY GenuineStays
  <1>2. files' \subseteq Genuine' /\ items' \subseteq Genuine' BY <1>1
  <1>3. op' # Idle' => op'.envelope \in Genuine' BY <1>1 DEF Idle
  <1>4. op'.kind = "unlink" => step'[To(op'.envelope)] = "deleting" OBVIOUS
  <1>5. ASSUME NEW d \in Devices PROVE batch'[d] \in Seq(Ours(d)')
    <2>1. batch[d] \in Seq(Ours(d)) BY DEF Traced
    <2> DEFINE S == Ours(d)
               T == Ours(d)'
    <2>2. S \subseteq T BY <1>1
    <2>3. batch'[d] \in {batch[d], <<>>}
             \/ (batch[d] # <<>> /\ batch'[d] = Tail(batch[d])) \/ batch'[d] \in Seq(S)
      OBVIOUS
    <2> HIDE DEF S, T
    <2>4. batch[d] \in Seq(S) BY <2>1 DEF S
    <2>5. batch[d] \in Seq(T) /\ (batch[d] # <<>> => Tail(batch[d]) \in Seq(T))
      BY <2>2, <2>4, PartOfSequence
    <2>6. \A s \in Seq(S) : s \in Seq(T) BY <2>2, PartOfSequence
    <2>7. <<>> \in Seq(T) OBVIOUS
    <2>8. batch'[d] \in Seq(T) BY <2>3, <2>5, <2>6, <2>7
    <2> QED BY <2>8 DEF T
  <1>6. fetched' \subseteq received' /\ received' \subseteq Offers'
        /\ \A o \in received' : Sealed(o)'
    BY <1>1 DEF Traced
  <1> QED BY <1>2, <1>3, <1>4, <1>5, <1>6 DEF Traced

(* A step that seals nothing and settles nothing.                           *)
LEMMA TracedStep ==
  ASSUME Traced, UNCHANGED <<put, received, fetched>>,
         files' \subseteq Genuine, items' \subseteq Genuine,
         op' # Idle => op'.envelope \in Genuine,
         op'.kind = "unlink" => step'[To(op'.envelope)] = "deleting",
         \A d \in Devices : \/ batch'[d] = batch[d] \/ batch'[d] = <<>>
                            \/ batch[d] # <<>> /\ batch'[d] = Tail(batch[d])
                            \/ batch'[d] \in Seq(Ours(d))
  PROVE  Traced'
  <1>1. /\ received \subseteq received' /\ fetched' \subseteq received'
        /\ received' \subseteq Offers /\ \A o \in received' : Sealed(o)
    BY DEF Traced
  <1> QED BY <1>1, TracedGrows

(* A request to deposit e seals it.                                         *)
LEMMA TracedRequest ==
  ASSUME QInv, Traced, NEW e \in Envelopes, Request(e), UNCHANGED <<received, fetched>>,
         e.kind = "ack" => e.offer \in received,
         \A d \in Devices : batch'[d] = batch[d] \/ batch'[d] = <<>>
  PROVE  Traced'
  <1>1. /\ files' \subseteq files /\ items' \subseteq items /\ op = Idle
        /\ op' = op \/ op' = [kind |-> "write", envelope |-> e]
        /\ put' = [put EXCEPT ![e] = day]
    BY DEF Request, Kept
  <1>2. put' = [x \in Envelopes |-> IF x = e THEN day ELSE put[x]] /\ day # Nothing
    BY <1>1, QueueAssumption DEF QInv, Tables
  <1>3. /\ Genuine \subseteq Genuine' /\ \A d : Ours(d) \subseteq Ours(d)'
        /\ \A o \in Offers : Sealed(o) => Sealed(o)'
    BY <1>2, GenuineStays
  <1>4. e \in Genuine' BY <1>2 DEF Genuine, Envelopes, Kinds
  <1>5. files' \subseteq Genuine' /\ items' \subseteq Genuine' BY <1>1, <1>3 DEF Traced
  <1>6. op' # Idle' => op'.envelope \in Genuine' BY <1>1, <1>4 DEF Idle
  <1>7. op'.kind # "unlink" BY <1>1 DEF Idle
  <1>8. ASSUME NEW d \in Devices PROVE batch'[d] \in Seq(Ours(d)')
    <2> DEFINE S == Ours(d)
               T == Ours(d)'
    <2>1. batch[d] \in Seq(S) BY DEF Traced
    <2>2. S \subseteq T BY <1>3
    <2> HIDE DEF S, T
    <2>3. batch[d] \in Seq(T) /\ <<>> \in Seq(T) BY <2>1, <2>2, PartOfSequence
    <2>4. batch'[d] \in Seq(T) BY <2>3
    <2> QED BY <2>4 DEF T
  <1>9. fetched' \subseteq received' /\ received' \subseteq Offers'
        /\ \A o \in received' : Sealed(o)'
    BY <1>3 DEF Traced
  <1> QED BY <1>5, <1>6, <1>7, <1>8, <1>9 DEF Traced

(* A poll that ends lets go of its batch.                                   *)
LEMMA AbandonEmpties ==
  ASSUME Tables, NEW c, Abandon(c)
  PROVE  /\ \A d \in Devices : batch'[d] = batch[d] \/ batch'[d] = <<>>
         /\ \A d \in Devices : d # c => step'[d] = step[d]
         /\ c \in Devices => step'[c] = "take"
  <1>1. batch' = [d \in Devices |-> IF d = c THEN <<>> ELSE batch[d]]
    BY DEF Abandon, Tables
  <1>2. step' = [d \in Devices |-> IF d = c THEN "take" ELSE step[d]]
    BY DEF Abandon, Tables
  <1> QED BY <1>1, <1>2

LEMMA GiveUpEmpties ==
  ASSUME Tables, NEW e, GiveUp(e)
  PROVE  \A d \in Devices : batch'[d] = batch[d] \/ batch'[d] = <<>>
  BY AbandonEmpties DEF GiveUp

(* The relay's own steps.                                                   *)
LEMMA TracedPublish == ASSUME QInv, Traced, Publish PROVE Traced'
  <1>1. /\ op.kind = "write" /\ files' = files \cup {op.envelope}
        /\ op' = [op EXCEPT !.kind = "publish"]
        /\ UNCHANGED <<items, put, batch, step, received, fetched>>
    BY DEF Publish, clientVars, outboxes
  <1>2. op # Idle /\ op.envelope \in Genuine BY <1>1 DEF Traced, Idle
  <1>3. op'.kind = "publish" /\ op'.envelope = op.envelope
    BY <1>1 DEF QInv, Writing
  <1> QED BY <1>1, <1>2, <1>3, TracedStep DEF Traced

LEMMA TracedEnter == ASSUME QInv, Traced, Enter PROVE Traced'
  <1>1. /\ op.kind = "publish" /\ op' = Idle /\ items' = items \cup {op.envelope}
        /\ UNCHANGED <<files, put, received, fetched>>
        /\ GoOn(op.envelope) \/ GiveUp(op.envelope)
    BY ReadStays DEF Enter, outboxes
  <1>2. op.envelope \in Genuine BY <1>1 DEF Traced, Idle
  <1>3. \A d \in Devices : batch'[d] = batch[d] \/ batch'[d] = <<>>
    <2>1. CASE GoOn(op.envelope) BY <2>1 DEF GoOn
    <2>2. CASE GiveUp(op.envelope) BY <2>2, GiveUpEmpties DEF QInv
    <2> QED BY <1>1, <2>1, <2>2
  <1>4. op'.kind # "unlink" BY <1>1 DEF Idle
  <1> QED BY <1>1, <1>2, <1>3, <1>4, TracedStep DEF Traced

LEMMA TracedSyncFails == ASSUME QInv, Traced, SyncFails PROVE Traced'
  <1>1. /\ op' = Idle /\ GiveUp(op.envelope)
        /\ UNCHANGED <<files, items, put, received, fetched>>
    BY ReadStays DEF SyncFails, outboxes
  <1>2. \A d \in Devices : batch'[d] = batch[d] \/ batch'[d] = <<>>
    BY <1>1, GiveUpEmpties DEF QInv
  <1>3. op'.kind # "unlink" BY <1>1 DEF Idle
  <1> QED BY <1>1, <1>2, <1>3, TracedStep DEF Traced

(* The device whose item is gone has it at the head of its batch.           *)
LEMMA TracedForget == ASSUME QInv, Traced, Forget PROVE Traced'
  <1> DEFINE c == To(op.envelope)
  <1>1. /\ op.kind = "unlink" /\ op' = Idle /\ items' \subseteq items
        /\ UNCHANGED <<files, put, received, fetched>>
        /\ batch' = [batch EXCEPT ![c] = Tail(@)] \/ Abandon(c)
    BY ReadStays DEF Forget, outboxes
  <1>2. step[c] = "deleting" BY <1>1 DEF Traced
  <1>3. op # Idle BY <1>1 DEF Idle
  <1>4. c \in Devices BY <1>3, EnvelopeIs DEF Traced, Genuine
  <1>5. batch[c] # <<>> BY <1>2, <1>4 DEF QInv, Working, DealtWith
  <1> HIDE DEF c
  <1>6. \A d \in Devices : \/ batch'[d] = batch[d] \/ batch'[d] = <<>>
                           \/ batch[d] # <<>> /\ batch'[d] = Tail(batch[d])
    <2>1. CASE batch' = [batch EXCEPT ![c] = Tail(@)]
      <3>1. batch' = [d \in Devices |-> IF d = c THEN Tail(batch[c]) ELSE batch[d]]
        BY <2>1 DEF QInv, Tables
      <3> QED BY <1>5, <3>1
    <2>2. CASE Abandon(c) BY <2>2, AbandonEmpties DEF QInv
    <2> QED BY <1>1, <2>1, <2>2
  <1>7. op'.kind # "unlink" BY <1>1 DEF Idle
  <1> QED BY <1>1, <1>6, <1>7, TracedStep DEF Traced

LEMMA TracedCrash == ASSUME QInv, Traced, Crash PROVE Traced'
  <1>1. /\ op' = Idle /\ items' = {} /\ UNCHANGED <<files, put, received, fetched>>
        /\ batch' = [d \in Devices |-> IF Waiting(d) THEN <<>> ELSE batch[d]]
    BY DEF Crash
  <1>2. op'.kind # "unlink" BY <1>1 DEF Idle
  <1> QED BY <1>1, <1>2, TracedStep DEF Traced

LEMMA TracedStart == ASSUME QInv, Traced, Start PROVE Traced'
  <1>1. /\ files' \subseteq files /\ items' \subseteq files
        /\ UNCHANGED <<op, put, batch, step, received, fetched>>
    BY DEF Start, Alive, clientVars, outboxes
  <1> QED BY <1>1, TracedStep DEF Traced

(* The daemons' steps.                                                      *)
LEMMA TracedDeposit ==
  ASSUME QInv, Traced, NEW e \in Envelopes, Deposit(e) PROVE Traced'
  BY TracedRequest DEF Deposit, outboxes

LEMMA TracedPoll == ASSUME QInv, Traced, NEW c \in Devices, Poll(c) PROVE Traced'
  <1> DEFINE b == Batched(c)
  <1>1. /\ op = Idle /\ files' \subseteq files /\ items' \subseteq items
        /\ batch' = [batch EXCEPT ![c] = b]
        /\ UNCHANGED <<op, put, step, received, fetched>>
    BY DEF Poll, Kept
  <1>2. {e \in Kept : To(e) = c /\ InWindow(e)} \subseteq Ours(c)
    BY DEF Kept, Traced, Ours
  <1>3. b \in Seq(Ours(c))
    <2>1. b \in Seq({e \in Kept : To(e) = c /\ InWindow(e)}) BY BatchedIs
    <2> HIDE DEF b
    <2> QED BY <1>2, <2>1, PartOfSequence
  <1> HIDE DEF b
  <1>4. \A d \in Devices : batch'[d] = batch[d] \/ batch'[d] \in Seq(Ours(d))
    <2>1. batch' = [d \in Devices |-> IF d = c THEN b ELSE batch[d]]
      BY <1>1 DEF QInv, Tables
    <2> QED BY <1>3, <2>1
  <1>5. op'.kind # "unlink" BY <1>1 DEF Idle
  <1> QED BY <1>1, <1>4, <1>5, TracedStep DEF Traced

(* What is taken up was deposited before, and its ack comes after it was    *)
(* committed.                                                               *)
LEMMA HeadIs ==
  ASSUME Traced, NEW d \in Devices, batch[d] # <<>>
  PROVE  /\ Head(batch[d]) \in Genuine /\ To(Head(batch[d])) = d
         /\ Head(batch[d]) \in Envelopes /\ Head(batch[d]).offer \in Offers
         /\ Sealed(Head(batch[d]).offer)
  <1> DEFINE S == Ours(d)
             s == batch[d]
             e == Head(s)
  <1>1. e \in S
    <2>1. s \in Seq(S) /\ s # <<>> BY DEF Traced
    <2> HIDE DEF S, s
    <2> QED BY <2>1, PartOfSequence
  <1>2. e \in Genuine /\ To(e) = d /\ e \in Envelopes BY <1>1 DEF Ours, Genuine
  <1> HIDE DEF e
  <1>3. /\ e.offer \in Offers /\ e.kind \in {"delivery", "ack"}
        /\ e.n \in 1 .. Attempts[e.kind]
        /\ e = [offer |-> e.offer, kind |-> e.kind, n |-> e.n]
    BY <1>2, EnvelopeIs
  <1>4. Sealed(e.offer)
    <2>1. CASE e.kind = "ack" BY <1>2, <2>1 DEF Genuine, Traced
    <2>2. CASE e.kind = "delivery" BY <1>2, <1>3, <2>2 DEF Genuine, Sealed
    <2> QED BY <1>3, <2>1, <2>2
  <1> QED BY <1>2, <1>3, <1>4 DEF e

LEMMA TracedTake == ASSUME QInv, Traced, NEW c \in Devices, Take(c) PROVE Traced'
  <1> DEFINE e == Head(batch[c])
  <1>1. /\ batch[c] # <<>> /\ step[c] = "take" /\ UNCHANGED <<files, items, op, put>>
        /\ \/ /\ Abandon(c) /\ UNCHANGED <<received, fetched>>
           \/ /\ received' = received \cup {e.offer} /\ UNCHANGED fetched
              /\ step' = [step EXCEPT ![c] = "answer"] /\ batch' = batch
           \/ /\ e.kind = "ack" /\ fetched' = fetched \cup {e.offer} /\ UNCHANGED received
              /\ step' = [step EXCEPT ![c] = "delete"] /\ batch' = batch
    BY ReadStays DEF Take, Commit, relayVars, outboxes
  <1>2. /\ e \in Genuine /\ e.offer \in Offers /\ Sealed(e.offer) BY <1>1, HeadIs
  <1> HIDE DEF e
  <1>3. /\ \A d \in Devices : batch'[d] = batch[d] \/ batch'[d] = <<>>
        /\ \A d \in Devices : d # c => step'[d] = step[d]
    <2>1. CASE Abandon(c) BY <2>1, AbandonEmpties DEF QInv
    <2>2. CASE batch' = batch /\ \E x : step' = [step EXCEPT ![c] = x]
      BY <2>2 DEF QInv, Tables
    <2> QED BY <1>1, <2>1, <2>2
  <1>4. op'.kind = "unlink" => step'[To(op'.envelope)] = "deleting"
    <2> SUFFICES ASSUME op.kind = "unlink" PROVE step'[To(op.envelope)] = "deleting"
      BY <1>1
    <2>1. op # Idle BY DEF Idle
    <2>2. To(op.envelope) \in Devices /\ step[To(op.envelope)] = "deleting"
      BY <2>1, EnvelopeIs DEF Traced, Genuine
    <2> QED BY <1>1, <1>3, <2>2
  <1>5. /\ received \subseteq received' /\ fetched' \subseteq received'
        /\ received' \subseteq Offers /\ \A o \in received' : Sealed(o)
    BY <1>1, <1>2 DEF Traced, Genuine
  <1>6. /\ files' \subseteq Genuine /\ items' \subseteq Genuine
        /\ op' # Idle => op'.envelope \in Genuine
    BY <1>1 DEF Traced
  <1> QED BY <1>1, <1>3, <1>4, <1>5, <1>6, TracedGrows

(* The ack of an offer is sealed by the device that has committed it.       *)
LEMMA TracedAnswer ==
  ASSUME QInv, Traced, NEW c \in Devices, NEW e \in Envelopes, Answer(c, e) PROVE Traced'
  <1>1. /\ Request(e) /\ UNCHANGED <<received, fetched>> /\ step[c] = "answer"
        /\ e.offer = Head(batch[c]).offer
        /\ batch' = batch \/ Abandon(c)
    BY ReadStays DEF Answer, outboxes
  <1>2. Done(Head(batch[c])) BY <1>1 DEF QInv, Working, DealtWith
  <1>3. e.offer \in received BY <1>1, <1>2 DEF Done, Traced
  <1>4. \A d \in Devices : batch'[d] = batch[d] \/ batch'[d] = <<>>
    BY <1>1, AbandonEmpties DEF QInv
  <1> QED BY <1>1, <1>3, <1>4, TracedRequest

LEMMA TracedDelete == ASSUME QInv, Traced, NEW c \in Devices, Delete(c) PROVE Traced'
  <1> DEFINE e == Head(batch[c])
  <1>1. /\ batch[c] # <<>> /\ op = Idle
        /\ UNCHANGED <<items, put, received, fetched>>
        /\ \/ /\ files' = files \ {e} /\ op' = [kind |-> "unlink", envelope |-> e]
              /\ step' = [step EXCEPT ![c] = "deleting"] /\ batch' = batch
           \/ /\ batch' = [batch EXCEPT ![c] = Tail(@)] /\ UNCHANGED <<files, op>>
    BY DEF Delete, outboxes
  <1>2. e \in Genuine /\ To(e) = c BY <1>1, HeadIs
  <1> HIDE DEF e
  <1>3. CASE /\ files' = files \ {e} /\ op' = [kind |-> "unlink", envelope |-> e]
             /\ step' = [step EXCEPT ![c] = "deleting"] /\ batch' = batch
    <2>1. step'[c] = "deleting" BY <1>3 DEF QInv, Tables
    <2>2. op'.envelope = e BY <1>3
    <2>3. step'[To(op'.envelope)] = "deleting" BY <1>2, <2>1, <2>2
    <2> QED BY <1>1, <1>2, <1>3, <2>2, <2>3, TracedStep DEF Traced
  <1>4. CASE batch' = [batch EXCEPT ![c] = Tail(@)] /\ UNCHANGED <<files, op>>
    <2>1. batch' = [d \in Devices |-> IF d = c THEN Tail(batch[c]) ELSE batch[d]]
      BY <1>4 DEF QInv, Tables
    <2>2. op'.kind # "unlink" BY <1>1, <1>4 DEF Idle
    <2> QED BY <1>1, <1>4, <2>1, <2>2, TracedStep DEF Traced
  <1> QED BY <1>1, <1>3, <1>4

LEMMA TracedUnreachable ==
  ASSUME QInv, Traced, NEW c \in Devices, Unreachable(c) PROVE Traced'
  <1>1. /\ step[c] \in {"answer", "delete"} /\ Abandon(c)
        /\ UNCHANGED <<files, items, op, put, received, fetched>>
    BY ReadStays DEF Unreachable, relayVars, outboxes
  <1>2. /\ \A d \in Devices : batch'[d] = batch[d] \/ batch'[d] = <<>>
        /\ \A d \in Devices : d # c => step'[d] = step[d]
    BY <1>1, AbandonEmpties DEF QInv
  <1>3. op'.kind = "unlink" => step'[To(op'.envelope)] = "deleting"
    <2> SUFFICES ASSUME op.kind = "unlink" PROVE step'[To(op.envelope)] = "deleting"
      BY <1>1
    <2>1. op # Idle BY DEF Idle
    <2>2. To(op.envelope) \in Devices /\ step[To(op.envelope)] = "deleting"
      BY <2>1, EnvelopeIs DEF Traced, Genuine
    <2> QED BY <1>1, <1>2, <2>2
  <1> QED BY <1>1, <1>2, <1>3, TracedStep DEF Traced

LEMMA InitTraced == Init => Traced
  <1> SUFFICES ASSUME Init PROVE Traced OBVIOUS
  <1>1. \A d \in Devices : batch[d] = <<>> BY DEF Init
  <1>2. \A S : <<>> \in Seq(S) OBVIOUS
  <1>3. \A d \in Devices : batch[d] \in Seq(Ours(d)) BY <1>1, <1>2
  <1> QED BY <1>3 DEF Init, Traced, Idle

LEMMA NextTraced == QInv /\ Traced /\ [Next]_vars => Traced'
  <1> SUFFICES ASSUME QInv, Traced, [Next]_vars PROVE Traced' OBVIOUS
  <1>1. ASSUME Publish \/ Enter \/ SyncFails \/ Forget \/ Crash \/ Start PROVE Traced'
    BY <1>1, TracedPublish, TracedEnter, TracedSyncFails, TracedForget, TracedCrash,
       TracedStart
  <1>2. ASSUME Midnight \/ UNCHANGED vars \/ \E d \in Devices : Carry(d) PROVE Traced'
    <2>1. UNCHANGED <<files, items, op, put, batch, step, received, fetched>>
      BY <1>2 DEF Midnight, Carry, vars, relayVars, clientVars, outboxes
    <2> QED BY <2>1, TracedStep DEF Traced
  <1>3. ASSUME NEW e \in Envelopes, Deposit(e) PROVE Traced' BY <1>3, TracedDeposit
  <1>4. ASSUME NEW d \in Devices, Poll(d) \/ Take(d) \/ Delete(d) \/ Unreachable(d)
        PROVE Traced'
    BY <1>4, TracedPoll, TracedTake, TracedDelete, TracedUnreachable
  <1>5. ASSUME NEW d \in Devices, NEW e \in Envelopes, Answer(d, e) PROVE Traced'
    BY <1>5, TracedAnswer
  <1> QED BY <1>1, <1>2, <1>3, <1>4, <1>5 DEF Next

-----------------------------------------------------------------------------
(* What a poll records of the acks it has read, and what it carries over.   *)
Carried ==
  /\ acks = [d \in Devices |-> acks[d]]
  /\ \A d \in Devices : acks[d] \subseteq fetched
  /\ settled \subseteq fetched

(* A step that carries nothing over, in which a poll goes on or ends.       *)
LEMMA CarriedStep ==
  ASSUME Carried, settled' = settled, fetched \subseteq fetched',
         acks' = [d \in Devices |-> acks'[d]],
         \A d \in Devices : acks'[d] \subseteq acks[d] \/ acks'[d] \subseteq fetched'
  PROVE  Carried'
  BY DEF Carried

(* A poll that ends takes its outbox with it.                               *)
LEMMA CarriedAbandon ==
  ASSUME Carried, NEW c, Abandon(c) \/ GiveUp(c) \/ GoOn(c) PROVE Carried'
  <1>1. ASSUME NEW d, Abandon(d) PROVE Carried'
    <2>1. acks' = [x \in Devices |-> IF x = d THEN {} ELSE acks[x]]
      BY <1>1 DEF Abandon, Carried
    <2> QED BY <1>1, <2>1, CarriedStep DEF Abandon
  <1>2. CASE UNCHANGED outboxes BY <1>2 DEF outboxes, Carried
  <1> QED BY <1>1, <1>2 DEF GiveUp, GoOn

LEMMA CarriedTake == ASSUME Carried, NEW c \in Devices, Take(c) PROVE Carried'
  <1> DEFINE o == Head(batch[c]).offer
             new == acks[c] \cup ({o} \cap copy[c])
  <1>1. \/ Abandon(c)
        \/ UNCHANGED outboxes
        \/ /\ fetched' = fetched \cup {o} /\ settled' = settled
           /\ acks' = [acks EXCEPT ![c] = new]
    BY DEF Take
  <1>2. CASE UNCHANGED outboxes BY <1>2 DEF outboxes, Carried
  <1>3. CASE /\ fetched' = fetched \cup {o} /\ settled' = settled
             /\ acks' = [acks EXCEPT ![c] = new]
    <2>1. new \subseteq fetched' BY <1>3 DEF Carried
    <2> HIDE DEF new
    <2>2. acks' = [d \in Devices |-> IF d = c THEN new ELSE acks[d]] BY <1>3 DEF Carried
    <2> QED BY <1>3, <2>1, <2>2, CarriedStep
  <1> QED BY <1>1, <1>2, <1>3, CarriedAbandon

LEMMA CarriedCarry == ASSUME Carried, NEW c \in Devices, Carry(c) PROVE Carried'
  <1>1. acks' = [d \in Devices |-> IF d = c THEN {} ELSE acks[d]] BY DEF Carry, Carried
  <1>2. settled' \subseteq settled \cup acks[c] /\ fetched' = fetched
    BY DEF Carry, Settled
  <1> QED BY <1>1, <1>2 DEF Carried

LEMMA CarriedCrash == ASSUME Carried, Crash PROVE Carried'
  <1>1. /\ acks' = [d \in Devices |-> IF Waiting(d) THEN {} ELSE acks[d]]
        /\ UNCHANGED <<fetched, settled>>
    BY DEF Crash
  <1> QED BY <1>1, CarriedStep

LEMMA InitCarried == Init => Carried
  BY DEF Init, Carried

LEMMA NextCarried == Carried /\ [Next]_vars => Carried'
  <1> SUFFICES ASSUME Carried, [Next]_vars PROVE Carried' OBVIOUS
  <1>1. ASSUME UNCHANGED <<acks, fetched, settled>> PROVE Carried' BY <1>1 DEF Carried
  <1>2. CASE Publish \/ Start \/ Midnight \/ UNCHANGED vars
    BY <1>1, <1>2 DEF Publish, Start, Midnight, vars, clientVars, outboxes
  <1>3. ASSUME Enter \/ SyncFails \/ Forget PROVE Carried'
    <2>1. UNCHANGED outboxes
          \/ \E c : Abandon(c) \/ GiveUp(c) \/ GoOn(c)
      BY <1>3 DEF Enter, SyncFails, Forget
    <2> QED BY <1>1, <2>1, CarriedAbandon DEF outboxes
  <1>4. ASSUME NEW d \in Devices, NEW e \in Envelopes, Answer(d, e) PROVE Carried'
    <2>1. UNCHANGED <<acks, fetched, settled>> \/ Abandon(d) BY <1>4 DEF Answer, outboxes
    <2> QED BY <1>1, <2>1, CarriedAbandon
  <1>5. ASSUME NEW e \in Envelopes, Deposit(e) PROVE Carried'
    BY <1>1, <1>5 DEF Deposit, outboxes
  <1>6. ASSUME NEW d \in Devices, Poll(d) \/ Delete(d) \/ Unreachable(d) PROVE Carried'
    <2>1. UNCHANGED <<acks, fetched, settled>> \/ Abandon(d)
      BY <1>6 DEF Poll, Delete, Unreachable, outboxes
    <2> QED BY <1>1, <2>1, CarriedAbandon
  <1> QED BY <1>2, <1>3, <1>4, <1>5, <1>6, CarriedTake, CarriedCarry, CarriedCrash DEF Next

-----------------------------------------------------------------------------
(* Steps of the promise.                                                    *)

(* duty is a function, before a step and after it.                          *)
LEMMA DutyTable ==
  /\ duty = [o \in Offers |-> duty[o]] /\ duty' = [o \in Offers |-> duty'[o]]
  /\ \A o \in Offers :
       duty[o] = IF o \in settled THEN "cleared" ELSE IF Sealed(o) THEN "owed" ELSE "absent"
  /\ \A o \in Offers :
       duty'[o] = IF o \in settled' THEN "cleared"
                  ELSE IF Sealed(o)' THEN "owed" ELSE "absent"
  BY DEF duty

(* A step that seals no delivery, commits nothing and settles nothing.      *)
LEMMA NoMove ==
  ASSUME UNCHANGED <<received, settled>>, \A o \in Offers : Sealed(o)' <=> Sealed(o)
  PROVE  UNCHANGED Promise!vars
  <1>1. \A o \in Offers : duty'[o] = duty[o] BY DutyTable
  <1>2. duty' = duty BY <1>1, DutyTable
  <1> QED BY <1>2 DEF Promise!vars

LEMMA SameSeals == ASSUME UNCHANGED put, NEW o PROVE Sealed(o)' <=> Sealed(o)
  BY DEF Sealed

(* A deposit takes on the duty, if it is the first of its offer.            *)
LEMMA DepositMoves ==
  ASSUME QInv, NEW e \in Envelopes, Deposit(e) PROVE [Promise!Next]_Promise!vars
  <1> DEFINE o == e.offer
  <1>1. /\ e.kind = "delivery" /\ o \notin settled /\ UNCHANGED <<received, settled>>
        /\ put' = [put EXCEPT ![e] = day]
    BY DEF Deposit, Request, outboxes
  <1>2. /\ o \in Offers /\ e.n \in 1 .. Attempts["delivery"]
        /\ e = [offer |-> o, kind |-> "delivery", n |-> e.n]
    BY <1>1, EnvelopeIs
  <1>3. put' = [x \in Envelopes |-> IF x = e THEN day ELSE put[x]] /\ day # Nothing
    BY <1>1, QueueAssumption DEF QInv, Tables
  <1>4. Sealed(o)'
    <2>1. put'[[offer |-> o, kind |-> "delivery", n |-> e.n]] # Nothing BY <1>2, <1>3
    <2> QED BY <1>2, <2>1 DEF Sealed
  <1>5. \A p \in Offers \ {o} : Sealed(p)' <=> Sealed(p)
    <2> SUFFICES ASSUME NEW p \in Offers \ {o} PROVE Sealed(p)' <=> Sealed(p) OBVIOUS
    <2>1. \A n \in 1 .. Attempts["delivery"] :
            LET x == [offer |-> p, kind |-> "delivery", n |-> n] IN put'[x] = put[x]
      BY <1>3, EnvelopeIs
    <2> QED BY <2>1 DEF Sealed
  <1> HIDE DEF o
  <1>6. CASE Sealed(o)
    <2>1. \A p \in Offers : Sealed(p)' <=> Sealed(p) BY <1>4, <1>5, <1>6
    <2> QED BY <1>1, <2>1, NoMove
  <1>7. CASE ~Sealed(o)
    <2>1. duty[o] = "absent" /\ duty'[o] = "owed" BY <1>1, <1>2, <1>4, <1>7, DutyTable
    <2>2. \A p \in Offers \ {o} : duty'[p] = duty[p] BY <1>1, <1>5, DutyTable
    <2>3. duty' = [duty EXCEPT ![o] = "owed"]
      <3> DEFINE f == duty
                 g == duty'
      <3>1. f = [p \in Offers |-> f[p]] /\ g = [p \in Offers |-> g[p]] BY DutyTable
      <3>2. g[o] = "owed" /\ \A p \in Offers \ {o} : g[p] = f[p] BY <2>1, <2>2
      <3> HIDE DEF f, g
      <3>3. g = [f EXCEPT ![o] = "owed"] BY <3>1, <3>2
      <3> QED BY <3>3 DEF f, g
    <2>4. Promise!Accept(o) BY <1>1, <2>1, <2>3 DEF Promise!Accept
    <2> QED BY <1>2, <2>4 DEF Promise!Next
  <1> QED BY <1>6, <1>7

(* The seal of an ack changes no duty.                                      *)
LEMMA AnswerMoves ==
  ASSUME QInv, NEW c \in Devices, NEW e \in Envelopes, Answer(c, e)
  PROVE  UNCHANGED Promise!vars
  <1>1. e.kind = "ack" /\ UNCHANGED <<received, settled>> /\ put' = [put EXCEPT ![e] = day]
    BY ReadStays DEF Answer, Request, outboxes
  <1>2. put' = [x \in Envelopes |-> IF x = e THEN day ELSE put[x]]
    BY <1>1 DEF QInv, Tables
  <1>3. ASSUME NEW o \in Offers, NEW n \in 1 .. Attempts["delivery"]
        PROVE  LET x == [offer |-> o, kind |-> "delivery", n |-> n] IN put'[x] = put[x]
    <2> DEFINE x == [offer |-> o, kind |-> "delivery", n |-> n]
    <2>1. x \in Envelopes BY EnvelopeIs
    <2>2. x # e BY <1>1
    <2> HIDE DEF x
    <2>3. put'[x] = put[x] BY <1>2, <2>1, <2>2
    <2> QED BY <2>3 DEF x
  <1>4. \A o \in Offers : Sealed(o)' <=> Sealed(o) BY <1>3 DEF Sealed
  <1> QED BY <1>1, <1>4, NoMove

(* A delivery that is taken up is received; an ack is only read.            *)
LEMMA TakeMoves ==
  ASSUME QInv, Traced, NEW c \in Devices, Take(c) PROVE [Promise!Next]_Promise!vars
  <1> DEFINE e == Head(batch[c])
             o == e.offer
  <1>1. /\ batch[c] # <<>> /\ UNCHANGED <<put, settled>>
        /\ received' = received \/ received' = received \cup {o}
    BY ReadStays DEF Take, Commit, relayVars, outboxes
  <1>2. o \in Offers /\ Sealed(o) BY <1>1, HeadIs
  <1>3. \A p \in Offers : Sealed(p)' <=> Sealed(p) BY <1>1, SameSeals
  <1> HIDE DEF o
  <1>4. CASE received' = received BY <1>1, <1>3, <1>4, NoMove
  <1>5. CASE received' = received \cup {o}
    <2>1. duty[o] # "absent" BY <1>2, DutyTable
    <2>2. duty' = duty
      <3>1. \A p \in Offers : duty'[p] = duty[p] BY <1>1, <1>3, DutyTable
      <3> QED BY <3>1, DutyTable
    <2>3. Promise!Receive(o) BY <1>5, <2>1, <2>2 DEF Promise!Receive
    <2> QED BY <1>2, <2>3 DEF Promise!Next
  <1> QED BY <1>1, <1>4, <1>5

(* The acks a poll carries over clear the duties of offers that have been   *)
(* received.                                                                *)
LEMMA CarryMoves ==
  ASSUME Traced, Carried, NEW c \in Devices, Carry(c) PROVE [Promise!Next]_Promise!vars
  <1> DEFINE S == acks[c] \ settled
  <1>1. /\ UNCHANGED <<put, received>>
        /\ settled' = settled \cup S \/ settled' = settled
    BY DEF Carry, Settled
  <1>2. S \subseteq received BY DEF Carried, Traced
  <1>3. S \subseteq Offers /\ \A o \in S : Sealed(o) BY <1>2 DEF Traced
  <1>4. \A p \in Offers : Sealed(p)' <=> Sealed(p) BY <1>1, SameSeals
  <1>5. \A o \in S : o \notin settled OBVIOUS
  <1> HIDE DEF S
  <1>6. CASE settled' = settled BY <1>1, <1>4, <1>6, NoMove
  <1>7. CASE settled' = settled \cup S
    <2>1. \A o \in S : duty[o] = "owed" /\ duty'[o] = "cleared"
      BY <1>3, <1>5, <1>7, DutyTable
    <2>2. \A o \in Offers \ S : duty'[o] = duty[o] BY <1>4, <1>7, DutyTable
    <2>3. duty' = [o \in Offers |-> IF o \in S THEN "cleared" ELSE duty[o]]
      <3> DEFINE f == duty
                 g == duty'
      <3>1. g = [o \in Offers |-> g[o]] BY DutyTable
      <3>2. \A o \in Offers : g[o] = IF o \in S THEN "cleared" ELSE f[o] BY <2>1, <2>2
      <3> HIDE DEF f, g
      <3>3. g = [o \in Offers |-> IF o \in S THEN "cleared" ELSE f[o]] BY <3>1, <3>2
      <3> QED BY <3>3 DEF f, g
    <2>4. Promise!Clear(S) BY <1>1, <1>2, <2>1, <2>3 DEF Promise!Clear
    <2>5. S \in SUBSET Offers BY <1>3
    <2> QED BY <2>4, <2>5 DEF Promise!Next
  <1> QED BY <1>1, <1>6, <1>7

(* The relay and the daemons that share it keep the promise of Handoff, for *)
(* any devices, offers, caps and faults: what a sender is told arrived has  *)
(* been committed by its recipient, and a settled duty is not taken up      *)
(* again, whatever crashed, was lost, expired or found the relay full       *)
(* (relay::poll: commit, ack, delete).                                      *)
THEOREM RelayHandsOff == Spec => RelayKeepsPromise
  <1>1. Init => QInv /\ Traced /\ Carried BY InitQInv, InitTraced, InitCarried
  <1>2. QInv /\ Traced /\ Carried /\ [Next]_vars => (QInv /\ Traced /\ Carried)'
    BY NextQInv, NextTraced, NextCarried
  <1>3. Init => Promise!Init
    <2> SUFFICES ASSUME Init PROVE Promise!Init OBVIOUS
    <2>1. \A o \in Offers : ~Sealed(o) BY EnvelopeIs DEF Init, Sealed
    <2>2. \A o \in Offers : duty[o] = "absent" BY <2>1, DutyTable DEF Init
    <2>3. duty = [o \in Offers |-> "absent"] BY <2>2, DutyTable
    <2> QED BY <2>3 DEF Init, Promise!Init
  <1>4. QInv /\ Traced /\ Carried /\ [Next]_vars => [Promise!Next]_Promise!vars
    <2> SUFFICES ASSUME QInv, Traced, Carried, [Next]_vars PROVE [Promise!Next]_Promise!vars
      OBVIOUS
    <2>1. ASSUME UNCHANGED <<put, received, settled>> PROVE UNCHANGED Promise!vars
      BY <2>1, SameSeals, NoMove
    <2>2. CASE Publish \/ Crash \/ Start \/ Midnight \/ UNCHANGED vars
      BY <2>1, <2>2 DEF Publish, Crash, Start, Midnight, vars, clientVars, outboxes
    <2>3. ASSUME Enter \/ SyncFails \/ Forget PROVE UNCHANGED Promise!vars
      BY <2>1, <2>3, ReadStays DEF Enter, SyncFails, Forget, outboxes
    <2>4. ASSUME NEW d \in Devices, Poll(d) \/ Delete(d) \/ Unreachable(d)
          PROVE UNCHANGED Promise!vars
      BY <2>1, <2>4, ReadStays DEF Poll, Delete, Unreachable, outboxes
    <2> QED BY <2>2, <2>3, <2>4, DepositMoves, TakeMoves, CarryMoves, AnswerMoves DEF Next
  <1> QED BY <1>1, <1>2, <1>3, <1>4, PTL DEF Spec, RelayKeepsPromise, Promise!Spec
=============================================================================
