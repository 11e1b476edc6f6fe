-------------------------- MODULE ConsumingProofs ---------------------------
(***************************************************************************)
(* Proofs about Consuming, for any members, messages and configurations:   *)
(* what the group commits is settled, an answered message has taken effect *)
(* once the checker guards it, and at most once when the checker is asked  *)
(* first and strictly.                                                     *)
(***************************************************************************)
EXTENDS Consuming, TLAPS

Handling == {"begin", "process", "mark", "ok", "failed"}

(* A member handles a message that is there, and leaves to be committed    *)
(* nothing but the offset it has come to.                                  *)
Positions ==
    \A m \in Member :
        /\ claim[m] \in Handling => pos[m] < produced
        /\ mark[m] \in {NoOffset, pos[m]}

(* All the messages before it are settled.                                 *)
Behind ==
    config.initial = "oldest" =>
        \A m \in Member : claim[m] # "none" => \A o \in Message : o < pos[m] => o \in Settled

(* Check and Mark: a key says that the work was done.                      *)
MarkedTookEffect ==
    config.usage = "check" =>
        /\ \A o \in marked : runs[o] > 0
        /\ \A m \in Member : claim[m] \in {"mark", "ok"} => runs[pos[m]] > 0

(* CheckAndMark: a key says that one member may do the work, or has.       *)
MarkedIsTaken ==
    config.usage = "checkAndMark" /\ mode = "required" =>
        /\ \A o \in Message : runs[o] > 0 => o \in marked
        /\ \A m \in Member : claim[m] = "process" => pos[m] \in marked /\ runs[pos[m]] = 0
        /\ \A m, n \in Member :
                claim[m] = "process" /\ claim[n] = "process" /\ pos[m] = pos[n] => m = n

IInv ==
    /\ TypeOK /\ Positions /\ Behind /\ NothingPassedOver
    /\ MarkedTookEffect /\ AnsweredTookEffect /\ MarkedIsTaken /\ RunsAtMostOnce

-----------------------------------------------------------------------------
(* At first the group has nothing and nobody.                              *)
LEMMA InitIInv == Init => IInv
<1> SUFFICES ASSUME Init PROVE IInv
  OBVIOUS
<1> USE ConsumingAssumption DEF Init, NoOffset, Message
<1>1. TypeOK
  BY DEF TypeOK
<1>2. Positions /\ Behind /\ NothingPassedOver
  BY DEF Positions, Behind, NothingPassedOver, Handling
<1>3. MarkedTookEffect /\ AnsweredTookEffect /\ MarkedIsTaken /\ RunsAtMostOnce
  BY DEF MarkedTookEffect, AnsweredTookEffect, MarkedIsTaken, RunsAtMostOnce
<1> QED
  BY <1>1, <1>2, <1>3 DEF IInv

-----------------------------------------------------------------------------
(* A message comes to the partition.                                       *)
LEMMA ProduceKeeps == ASSUME IInv, Produce PROVE IInv'
<1> USE ConsumingAssumption DEF IInv, claimVars, histVars, checkerVars
<1>0. TypeOK /\ Last \in Nat /\ produced \in 0..Last /\ committed \in -1..produced
  BY DEF TypeOK
<1>1. /\ produced' = produced + 1 /\ produced' \in 0..Last /\ UNCHANGED <<committed, owner>>
      /\ UNCHANGED <<config, claim, pos, retry, ended, mark>>
      /\ UNCHANGED <<answered, skipped, refused, runs, marked, mode, client>>
  BY <1>0 DEF Produce
<1>2. TypeOK'
  BY <1>0, <1>1 DEF TypeOK
<1>3. Positions'
  BY <1>0, <1>1 DEF TypeOK, Positions, Handling
<1>4. Behind' /\ NothingPassedOver'
  BY <1>0, <1>1 DEF Behind, NothingPassedOver, Settled
<1>5. MarkedTookEffect' /\ AnsweredTookEffect' /\ MarkedIsTaken' /\ RunsAtMostOnce'
  BY <1>1 DEF MarkedTookEffect, AnsweredTookEffect, MarkedIsTaken, RunsAtMostOnce
<1> QED
  BY <1>0, <1>1, <1>2, <1>3, <1>4, <1>5

(* The group, and the ends of sessions.                                    *)
LEMMA GroupKeeps ==
    ASSUME IInv, NEW m \in Member,
           \/ Join(m) \/ SessionEnds(m) \/ Crash(m) \/ AutoCommit(m) \/ Release(m)
    PROVE  IInv'
<1>1. UNCHANGED <<config, answered, skipped, refused, runs, marked, mode, client>>
  BY DEF Join, SessionEnds, Crash, AutoCommit, Release, histVars, checkerVars
<1>2. \A n \in Member : claim'[n] \in Handling => claim'[n] = claim[n] /\ pos'[n] = pos[n]
  BY DEF Join, SessionEnds, Crash, AutoCommit, Release, claimVars, IInv, TypeOK, Handling
<1>3. MarkedTookEffect' /\ AnsweredTookEffect' /\ MarkedIsTaken' /\ RunsAtMostOnce'
  BY <1>1, <1>2 DEF IInv, MarkedTookEffect, AnsweredTookEffect, MarkedIsTaken, RunsAtMostOnce,
                    Handling
<1>4. TypeOK' /\ Positions' /\ Behind' /\ NothingPassedOver'
  <2> USE <1>1, ConsumingAssumption DEF IInv, logVars, claimVars
  <2>0. TypeOK /\ Last \in Nat /\ produced \in 0..Last /\ committed \in -1..produced
        /\ pos[m] \in 0..Last /\ pos[m] <= produced /\ mark[m] \in {-1, pos[m]}
    BY DEF TypeOK, Positions, NoOffset
  <2>1. CASE Join(m)
    <3>1. /\ owner' = m /\ claim' = [claim EXCEPT ![m] = "select"]
          /\ pos' = [pos EXCEPT ![m] = StartAt] /\ mark' = [mark EXCEPT ![m] = NoOffset]
          /\ ended' = [ended EXCEPT ![m] = FALSE]
          /\ UNCHANGED <<produced, committed, retry>>
      BY <2>1 DEF Join
    <3>2. /\ StartAt \in 0..produced
          /\ config.initial = "oldest" => StartAt = committed \/ StartAt = 0
      BY <2>0 DEF StartAt, NoOffset
    <3>3. TypeOK'
      BY <2>0, <3>1, <3>2 DEF TypeOK, NoOffset
    <3>4. Positions'
      BY <2>0, <3>1 DEF Positions, Handling, TypeOK
    <3>5. Behind' /\ NothingPassedOver'
      BY <2>0, <3>1, <3>2 DEF Behind, NothingPassedOver, Settled, Message, TypeOK
    <3> QED
      BY <2>0, <3>1, <3>3, <3>4, <3>5
  <2>2. CASE SessionEnds(m)
    BY <2>0, <2>2 DEF SessionEnds, TypeOK, Positions, Behind, NothingPassedOver, Settled
  <2>3. CASE Crash(m)
    BY <2>0, <2>3 DEF Crash, TypeOK, Positions, Behind, NothingPassedOver, Settled, Handling, NoOffset
  <2>4. CASE AutoCommit(m)
    <3>1. Commit(m, mark[m]) /\ claim[m] # "none" /\ UNCHANGED <<produced, owner, claimVars>>
      BY <2>4 DEF AutoCommit, Commit
    <3>2. committed' \in {committed, pos[m]}
      BY <2>0, <3>1 DEF NoOffset, Commit
    <3> QED
      BY <2>0, <3>1, <3>2 DEF TypeOK, Positions, Behind, NothingPassedOver, Settled
  <2>5. CASE Release(m)
    <3>1. /\ claim[m] = "returned" /\ Commit(m, mark[m])
          /\ claim' = [claim EXCEPT ![m] = "none"] /\ pos' = [pos EXCEPT ![m] = 0]
          /\ ended' = [ended EXCEPT ![m] = TRUE] /\ mark' = [mark EXCEPT ![m] = NoOffset]
          /\ UNCHANGED <<produced, owner, retry>>
      BY <2>5 DEF Release, Commit
    <3>2. committed' \in {committed, pos[m]}
      BY <2>0, <3>1 DEF NoOffset, Commit
    <3>3. TypeOK' /\ Positions'
      BY <2>0, <3>1, <3>2 DEF TypeOK, Positions, Handling, NoOffset
    <3>4. Behind' /\ NothingPassedOver'
      BY <2>0, <3>1, <3>2 DEF TypeOK, Behind, NothingPassedOver, Settled
    <3> QED
      BY <3>2, <3>3, <3>4
  <2> QED
    BY <2>1, <2>2, <2>3, <2>4, <2>5
<1> QED
  BY <1>3, <1>4 DEF IInv

(* ConsumeClaim and its handler, on the message they are at.               *)
LEMMA HandlerKeeps ==
    ASSUME IInv, NEW m \in Member,
           \/ Receive(m) \/ SelectEnds(m) \/ CheckStep(m) \/ Process(m) \/ ProcessFails(m)
           \/ MarkStep(m) \/ Retry(m) \/ BackoffEnds(m) \/ StopClaim(m)
    PROVE  IInv'
<1> USE DEF logVars, claimVars, histVars, checkerVars, Goto
<1>1. UNCHANGED <<config, mode, client, produced, committed, owner, pos, ended, mark, answered, skipped>>
  BY DEF Receive, SelectEnds, CheckStep, Check, CheckAndMark, Process, ProcessFails, MarkStep, Mark,
         Retry, BackoffEnds, StopClaim
<1>2. PICK w \in {"begin", "process", "mark", "ok", "failed", "returned"} :
        claim' = [claim EXCEPT ![m] = w]
  BY DEF Receive, SelectEnds, CheckStep, Process, ProcessFails, MarkStep, Retry, BackoffEnds, StopClaim
<1>3. /\ claim \in [Member -> {"none", "select", "begin", "process", "mark", "ok", "failed", "returned"}]
      /\ pos \in [Member -> 0..Last] /\ retry \in [Member -> 0..MaxRetries]
      /\ Last \in Nat /\ MaxRetries \in Nat \ {0} /\ MaxRuns \in Nat \ {0}
      /\ produced \in 0..Last /\ committed \in -1..produced
      /\ TypeOK /\ marked \in SUBSET Message /\ runs \in [Message -> 0..MaxRuns]
  BY ConsumingAssumption DEF IInv, TypeOK
<1>4. claim[m] # "none" /\ (claim[m] \in Handling \/ w = "returned" \/ (claim[m] = "select" /\ pos[m] < produced))
  BY <1>2, <1>3 DEF Receive, SelectEnds, CheckStep, Process, ProcessFails, MarkStep, Retry, BackoffEnds,
                    StopClaim, Handling
<1>5. /\ claim[m] \in Handling \/ claim[m] = "select"
      /\ w # "returned" => pos[m] < produced /\ pos[m] \in Message
  BY <1>2, <1>3, <1>4 DEF IInv, Positions, Handling, Message, Receive, SelectEnds, CheckStep, Process,
                    ProcessFails, MarkStep, Retry, BackoffEnds, StopClaim
<1>6. retry' \in [Member -> 0..MaxRetries]
  <2>1. ASSUME NEW r \in 0..MaxRetries, retry' = [retry EXCEPT ![m] = r]
        PROVE  retry' \in [Member -> 0..MaxRetries]
    BY <1>3, <2>1
  <2>2. CASE Receive(m)
    BY <1>3, <2>1, <2>2 DEF Receive
  <2>3. CASE Retry(m)
    BY <1>3, <2>1, <2>3 DEF Retry, MayRetry
  <2>4. CASE BackoffEnds(m) \/ StopClaim(m)
    BY <1>3, <2>1, <2>4 DEF BackoffEnds, StopClaim
  <2>5. CASE UNCHANGED retry
    BY <1>3, <2>5
  <2> QED
    BY <2>2, <2>3, <2>4, <2>5 DEF SelectEnds, CheckStep, Process, ProcessFails, MarkStep
<1>7. /\ marked' \in SUBSET Message /\ runs' \in [Message -> 0..MaxRuns]
      /\ refused' \in SUBSET Message
  <2>1. marked' \in SUBSET Message
    BY <1>3, <1>4, <1>5 DEF Receive, SelectEnds, CheckStep, Check, CheckAndMark, Process, ProcessFails,
           MarkStep, Mark, Retry, BackoffEnds, StopClaim, IInv, Positions, Message, Handling
  <2>2. runs' \in [Message -> 0..MaxRuns]
    BY <1>3 DEF Receive, SelectEnds, CheckStep, Process, ProcessFails, MarkStep, Retry, BackoffEnds,
           StopClaim
  <2>3. refused' \in SUBSET Message
    <3>1. refused \in SUBSET Message
      BY <1>3 DEF TypeOK
    <3>2. CASE StopClaim(m)
      <4>1. pos[m] \in Message
        BY <1>3, <3>2 DEF StopClaim, IInv, Positions, Handling, Message
      <4> QED
        BY <3>1, <3>2, <4>1 DEF StopClaim
    <3>3. CASE UNCHANGED refused
      BY <3>1, <3>3
    <3> QED
      BY <3>2, <3>3 DEF Receive, SelectEnds, CheckStep, Process, ProcessFails, MarkStep, Retry, BackoffEnds
  <2> QED
    BY <2>1, <2>2, <2>3
<1>10. TypeOK'
  BY <1>1, <1>2, <1>3, <1>6, <1>7 DEF TypeOK
<1>8. Positions' /\ Behind' /\ NothingPassedOver'
  BY <1>1, <1>2, <1>3, <1>4, <1>5, <1>6 DEF IInv, Positions, Behind, NothingPassedOver, Settled, Handling
<1>9. MarkedTookEffect' /\ AnsweredTookEffect' /\ MarkedIsTaken' /\ RunsAtMostOnce'
  <2> USE <1>1, <1>2, <1>3 DEF IInv, MarkedTookEffect, AnsweredTookEffect, MarkedIsTaken, RunsAtMostOnce
  <2>1. CASE w \in {"begin", "failed", "returned"} /\ UNCHANGED <<marked, runs>>
    BY <2>1
  <2>2. CASE CheckStep(m)
    <3>1. UNCHANGED runs /\ marked \subseteq marked' /\ pos[m] \in Message
      BY <2>2 DEF CheckStep, Check, CheckAndMark, Positions, Handling, Message
    <3>2. CASE config.usage = "check"
      <4>1. UNCHANGED marked /\ (w = "ok" => pos[m] \in marked) /\ w # "mark"
        BY <2>2, <3>2 DEF CheckStep, Check
      <4> QED
        BY <3>1, <3>2, <4>1
    <3>3. CASE config.usage # "check"
      <4>1. /\ marked' \subseteq marked \union {pos[m]}
            /\ w = "process" /\ mode = "required" => pos[m] \notin marked /\ pos[m] \in marked'
        BY <2>2, <3>3 DEF CheckStep, CheckAndMark, Strict
      <4> QED
        BY <3>1, <3>3, <4>1
    <3> QED
      BY <3>2, <3>3
  <2>3. CASE Process(m)
    <3>1. /\ claim[m] = "process" /\ UNCHANGED marked /\ pos[m] \in Message
          /\ runs'[pos[m]] > 0 /\ w = IF config.usage = "check" THEN "mark" ELSE "ok"
          /\ runs'[pos[m]] <= runs[pos[m]] + 1
          /\ \A o \in Message : runs'[o] >= runs[o] /\ (o # pos[m] => runs'[o] = runs[o])
      BY <2>3 DEF Process, Positions, Handling, Message
    <3>2. CASE config.usage = "check"
      <4>1. /\ answered \in SUBSET Message
            /\ \A n \in Member : claim[n] \in {"mark", "ok"} => pos[n] \in Message
        BY DEF TypeOK, Positions, Handling, Message
      <4>2. \A o \in Message : runs[o] > 0 => runs'[o] > 0
        BY <3>1
      <4>3. MarkedTookEffect' /\ AnsweredTookEffect'
        BY <3>1, <3>2, <4>1, <4>2
      <4> QED
        BY <3>2, <4>3
    <3>3. CASE config.usage = "checkAndMark" /\ mode = "required"
      <4>1. /\ runs[pos[m]] = 0 /\ pos[m] \in marked /\ w = "ok"
            /\ \A n \in Member : claim[n] = "process" /\ n # m => pos[n] # pos[m] /\ pos[n] \in Message
        BY <3>1, <3>3 DEF Positions, Handling, Message
      <4>2. \A n \in Member : claim'[n] = "process" => n # m /\ claim[n] = "process"
        BY <4>1
      <4>3. RunsAtMostOnce'
        BY <3>1, <3>3, <4>1
      <4>4. MarkedIsTaken'
        BY <3>1, <3>3, <4>1, <4>2
      <4> QED
        BY <3>3, <4>3, <4>4
    <3>4. CASE config.usage # "check" /\ ~(config.usage = "checkAndMark" /\ mode = "required")
      BY <3>4
    <3> QED
      BY <3>2, <3>3, <3>4
  <2>4. CASE MarkStep(m)
    <3>1. /\ claim[m] = "mark" /\ w = "ok" /\ UNCHANGED runs
          /\ marked \subseteq marked' /\ marked' \subseteq marked \union {pos[m]}
      BY <2>4 DEF MarkStep, Mark
    <3> QED
      BY <3>1
  <2> QED
    BY <2>1, <2>2, <2>3, <2>4 DEF Receive, SelectEnds, ProcessFails, Retry, BackoffEnds, StopClaim
<1> QED
  BY <1>1, <1>3, <1>8, <1>9, <1>10 DEF IInv

(* The message is answered, or given up: the member goes to the next one.  *)
LEMMA NextMessageKeeps ==
    ASSUME IInv, NEW m \in Member, Succeed(m) \/ Skip(m)
    PROVE  IInv'
<1> USE DEF logVars, claimVars, histVars, checkerVars, Goto
<1>1. /\ claim \in [Member -> {"none", "select", "begin", "process", "mark", "ok", "failed", "returned"}]
      /\ pos \in [Member -> 0..Last] /\ retry \in [Member -> 0..MaxRetries]
      /\ Last \in Nat /\ MaxRetries \in Nat \ {0} /\ produced \in 0..Last /\ committed \in -1..produced
      /\ TypeOK
  BY ConsumingAssumption DEF IInv, TypeOK
<1>2. claim[m] \in {"ok", "failed"} /\ pos[m] < produced /\ pos[m] \in Message
  BY <1>1 DEF Succeed, Skip, IInv, Positions, Handling, Message
<1>3. /\ UNCHANGED <<config, mode, client, produced, owner, ended, refused, runs, marked>>
      /\ claim' = [claim EXCEPT ![m] = "select"] /\ pos' = [pos EXCEPT ![m] = pos[m] + 1]
      /\ mark' = [mark EXCEPT ![m] = pos[m] + 1] /\ retry' = [retry EXCEPT ![m] = 0]
  BY DEF Succeed, Skip
<1>4. /\ answered' \in SUBSET Message /\ skipped' \in SUBSET Message
      /\ answered' \subseteq answered \union {pos[m]} /\ Settled \union {pos[m]} \subseteq Settled'
      /\ claim[m] = "failed" => answered' = answered
  BY <1>1, <1>2 DEF Succeed, Skip, Skips, Settled, TypeOK
<1>5. committed' \in {committed, pos[m] + 1}
  BY DEF Succeed, Skip, Commit
<1>6. TypeOK'
  BY <1>1, <1>2, <1>3, <1>4, <1>5 DEF TypeOK
<1>7. Positions'
  BY <1>1, <1>2, <1>3 DEF IInv, TypeOK, Positions, Handling, NoOffset
<1>8. Behind' /\ NothingPassedOver'
  <2>1. config.initial = "oldest" => \A o \in Message : o < pos[m] + 1 => o \in Settled'
    BY <1>1, <1>2, <1>4 DEF IInv, Behind, Message
  <2>2. NothingPassedOver'
    BY <1>1, <1>3, <1>4, <1>5, <2>1 DEF IInv, NothingPassedOver
  <2>3. config.initial = "oldest" =>
            \A n \in Member : claim'[n] # "none" => \A o \in Message : o < pos'[n] => o \in Settled'
    BY <1>1, <1>2, <1>3, <1>4, <2>1 DEF IInv, Behind
  <2> QED
    BY <1>3, <2>2, <2>3 DEF Behind
<1>9. MarkedTookEffect' /\ AnsweredTookEffect' /\ MarkedIsTaken' /\ RunsAtMostOnce'
  <2>1. \A n \in Member : claim'[n] \in {"process", "mark", "ok"} => claim'[n] = claim[n] /\ pos'[n] = pos[n]
    BY <1>1, <1>3
  <2>2. AnsweredTookEffect'
    BY <1>1, <1>2, <1>3, <1>4 DEF IInv, AnsweredTookEffect, MarkedTookEffect
  <2> QED
    BY <1>3, <2>1, <2>2 DEF IInv, MarkedTookEffect, MarkedIsTaken, RunsAtMostOnce
<1> QED
  BY <1>5, <1>6, <1>7, <1>8, <1>9 DEF IInv

-----------------------------------------------------------------------------
(* Every step keeps the invariant.                                         *)
LEMMA StepKeeps == IInv /\ [Next]_vars => IInv'
<1> SUFFICES ASSUME IInv, [Next]_vars PROVE IInv'
  OBVIOUS
<1>1. CASE UNCHANGED vars
  BY <1>1 DEF vars, logVars, claimVars, histVars, checkerVars, IInv, TypeOK, Positions, Behind,
              NothingPassedOver, Settled, MarkedTookEffect, AnsweredTookEffect, MarkedIsTaken,
              RunsAtMostOnce
<1>2. CASE \E m \in Member :
        Join(m) \/ SessionEnds(m) \/ Crash(m) \/ AutoCommit(m) \/ Release(m)
  BY <1>2, GroupKeeps
<1>3. CASE \E m \in Member :
        \/ Receive(m) \/ SelectEnds(m) \/ CheckStep(m) \/ Process(m) \/ ProcessFails(m)
        \/ MarkStep(m) \/ Retry(m) \/ BackoffEnds(m) \/ StopClaim(m)
  BY <1>3, HandlerKeeps
<1>4. CASE \E m \in Member : Succeed(m) \/ Skip(m)
  BY <1>4, NextMessageKeeps
<1>5. CASE Produce
  BY <1>5, ProduceKeeps
<1> QED
  BY <1>1, <1>2, <1>3, <1>4, <1>5 DEF Next, Assign, Evict, ClaimStep, Disturb

(* Every reachable state satisfies the invariant.                          *)
THEOREM Invariance == Spec => []IInv
<1> QED
  BY InitIInv, StepKeeps, PTL DEF Spec

(* At least once (ConsumeClaim): what a group that starts at the oldest    *)
(* message has committed was answered, or skipped as configured.           *)
THEOREM CommittedIsSettled == Spec => []NothingPassedOver
<1>1. IInv => NothingPassedOver
  BY DEF IInv
<1> QED
  BY <1>1, Invariance, PTL

(* Check and Mark around the work: an answered message has taken effect.   *)
THEOREM AnsweredIsDone == Spec => []AnsweredTookEffect
<1>1. IInv => AnsweredTookEffect
  BY DEF IInv
<1> QED
  BY <1>1, Invariance, PTL

(* CheckAndMark in mode required: the work is done at most once.           *)
THEOREM WorkIsDoneOnce == Spec => []Inv
<1>1. IInv => Inv
  BY DEF IInv, Inv
<1> QED
  BY <1>1, Invariance, PTL

(* Once the key is there only who had checked before it was written does   *)
(* the work again, once (checker.go:149-196, consumer.go:335-364).         *)
THEOREM OnlyRacersRepeat == Spec => RepeatsAreRaces
<1> DEFINE NoMore == mode = "required" => \A o \in marked : NobodyStarts(o)
<1>1. IInv /\ [Next]_vars => [NoMore]_vars
  <2> SUFFICES ASSUME IInv, [Next]_vars, mode = "required", NEW o \in marked
               PROVE  NobodyStarts(o) \/ UNCHANGED vars
    OBVIOUS
  <2> USE DEF NobodyStarts, Working, histVars, claimVars
  <2>0. /\ claim \in [Member -> {"none", "select", "begin", "process", "mark", "ok", "failed", "returned"}]
        /\ pos \in [Member -> 0..Last] /\ runs \in [Message -> 0..MaxRuns] /\ o \in Message
    BY DEF IInv, TypeOK
  <2>1. ASSUME UNCHANGED runs, \A m \in Member : claim'[m] = "process" => claim[m] = "process" /\ pos'[m] = pos[m]
        PROVE  NobodyStarts(o)
    BY <2>1
  <2>2. ASSUME NEW m \in Member, CheckStep(m) PROVE NobodyStarts(o)
    <3>1. UNCHANGED <<runs, pos>> /\ \A n \in Member : n # m => claim'[n] = claim[n]
      BY <2>0, <2>2 DEF CheckStep, Goto
    <3>2. claim'[m] = "process" => pos[m] \notin marked
      BY <2>0, <2>2 DEF CheckStep, Check, CheckAndMark, Strict, Goto
    <3> QED
      BY <3>1, <3>2
  <2>3. ASSUME NEW m \in Member, Process(m) PROVE NobodyStarts(o)
    <3>1. /\ claim[m] = "process" /\ claim'[m] # "process" /\ UNCHANGED pos
          /\ \A n \in Member : n # m => claim'[n] = claim[n]
          /\ o # pos[m] => runs'[o] = runs[o]
      BY <2>0, <2>3 DEF Process, Goto
    <3> QED
      BY <3>1
  <2>4. ASSUME NEW m \in Member, Join(m) \/ AutoCommit(m) \/ SessionEnds(m) \/ Crash(m) \/ Release(m)
        PROVE  NobodyStarts(o)
    <3>1. UNCHANGED runs /\ \A n \in Member : claim'[n] = "process" => claim[n] = "process" /\ pos'[n] = pos[n]
      BY <2>0, <2>4 DEF Join, AutoCommit, SessionEnds, Crash, Release
    <3> QED
      BY <2>1, <3>1
  <2>5. ASSUME NEW m \in Member,
               \/ Receive(m) \/ SelectEnds(m) \/ ProcessFails(m) \/ MarkStep(m) \/ Succeed(m)
               \/ Retry(m) \/ BackoffEnds(m) \/ Skip(m) \/ StopClaim(m)
        PROVE  NobodyStarts(o)
    <3>1. UNCHANGED runs /\ \A n \in Member : claim'[n] = "process" => claim[n] = "process" /\ pos'[n] = pos[n]
      BY <2>0, <2>5 DEF Receive, SelectEnds, ProcessFails, MarkStep, Succeed, Retry, BackoffEnds,
                        Skip, StopClaim, Goto
    <3> QED
      BY <2>1, <3>1
  <2>6. CASE Produce
    BY <2>1, <2>6 DEF Produce
  <2> QED
    BY <2>2, <2>3, <2>4, <2>5, <2>6 DEF Next, Assign, Evict, ClaimStep, Disturb
<1> QED
  BY <1>1, Invariance, PTL DEF Spec, RepeatsAreRaces

-----------------------------------------------------------------------------
(* Nothing is skipped unless skipping is configured.                       *)
SkipsAsConfigured == ~config.skipOnError => skipped = {}

(* The consumer and the checker together: from the oldest message, without *)
(* SkipOnError, no message is committed whose work has not been done.      *)
CommittedTookEffect ==
    config.initial = "oldest" /\ ~config.skipOnError /\ config.usage = "check" =>
        \A o \in Message : o < committed => runs[o] > 0

(* Skip is the only step that adds to skipped, and looks at the setting.   *)
LEMMA SkipsStayConfigured == SkipsAsConfigured /\ [Next]_vars => SkipsAsConfigured'
<1> SUFFICES ASSUME SkipsAsConfigured, [Next]_vars PROVE SkipsAsConfigured'
  OBVIOUS
<1> USE DEF SkipsAsConfigured, histVars
<1>1. CASE UNCHANGED vars
  BY <1>1 DEF vars
<1>2. ASSUME NEW m \in Member, Join(m) \/ AutoCommit(m) \/ SessionEnds(m) \/ Crash(m) \/ Release(m)
      PROVE  SkipsAsConfigured'
  BY <1>2 DEF Join, AutoCommit, SessionEnds, Crash, Release
<1>3. ASSUME NEW m \in Member,
             \/ Receive(m) \/ SelectEnds(m) \/ CheckStep(m) \/ Process(m) \/ ProcessFails(m) \/ MarkStep(m)
             \/ Succeed(m) \/ Retry(m) \/ BackoffEnds(m) \/ Skip(m) \/ StopClaim(m)
      PROVE  SkipsAsConfigured'
  BY <1>3 DEF Receive, SelectEnds, CheckStep, Process, ProcessFails, MarkStep, Succeed, Retry, BackoffEnds,
              Skip, StopClaim
<1>4. CASE Produce
  BY <1>4 DEF Produce
<1> QED
  BY <1>1, <1>2, <1>3, <1>4 DEF Next, Assign, Evict, ClaimStep, Disturb

(* Whatever rebalances, evictions, crashes, retries and lost commits do,   *)
(* the work of a committed message has been done (consumer.go:309-399 with *)
(* the Check and Mark of README.md around the work).                       *)
THEOREM CommittedWorkIsDone == Spec => []CommittedTookEffect
<1>1. Init => SkipsAsConfigured
  BY DEF Init, SkipsAsConfigured
<1>2. IInv /\ SkipsAsConfigured => CommittedTookEffect
  BY DEF IInv, NothingPassedOver, AnsweredTookEffect, Settled, SkipsAsConfigured, CommittedTookEffect
<1> QED
  BY <1>1, <1>2, SkipsStayConfigured, Invariance, PTL DEF Spec

(* The message lost after a refusal needs the setting newest: from the     *)
(* oldest on, nothing refused is lost (consumer.go:425, config.go:152).    *)
THEOREM OldestLosesNothing == Spec => [](config.initial = "oldest" => RefusedIsNotLost)
<1>1. IInv => (config.initial = "oldest" => RefusedIsNotLost)
  BY DEF IInv, TypeOK, NothingPassedOver, RefusedIsNotLost
<1> QED
  BY <1>1, Invariance, PTL
=============================================================================
