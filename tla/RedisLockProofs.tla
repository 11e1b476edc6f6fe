-------------------------- MODULE RedisLockProofs ---------------------------
(***************************************************************************)
(* Proofs about RedisLock, for any instances, times to live and numbers of *)
(* attempts: two users never count on the lock at once, an instance has    *)
(* one live auto-extension, and the key is a lease lock.                   *)
(***************************************************************************)
EXTENDS RedisLock, TLAPS

Loop == {"none", "wait", "extend", "backoff", "lost"}

(* A thread has the call its code is at, with the value of its instance;   *)
(* the values a running acquisition tries are newer than Lock.value.       *)
UserCall(l) ==
    /\ user[l] \in {"idle", "dead"} => call[l][User] = NoCall
    /\ user[l] = "reextend" => call[l][User].op = "extend" /\ call[l][User].val = value[l]
    /\ user[l] = "release" => call[l][User].op = "release" /\ call[l][User].val = value[l]
    /\ user[l] \in {"setnx", "retry"} =>
            /\ call[l][User].op = "setnx" /\ call[l][User].val = [lock |-> l, n |-> drawn[l]]
            /\ value[l].n < drawn[l]
    /\ user[l] = "retry" => call[l][User].res = "miss"
UserCalls == \A l \in Lock : UserCall(l)

SlotCalls ==
    \A l \in Lock, s \in Slot :
        IF loop[l][s] = "extend"
        THEN /\ call[l][s].op = "extend"
             /\ call[l][s].val.lock = l /\ call[l][s].val.n <= value[l].n
        ELSE call[l][s] = NoCall

Values ==
    \A l \in Lock : value[l].lock = l /\ value[l].n <= drawn[l]

(* Who is not inside counts on nothing; the key lives as long as it has    *)
(* time to live.                                                           *)
Outside ==
    \A l \in Lock : (user[l] \in {"release", "dead"} => ~inside[l]) /\ (~inside[l] => lease[l] = 0)

KeyLives == key = Free <=> pttl = 0

(* A lock command that was served well TTL ago or less has left the key    *)
(* with its value for the rest of that time; but a slot's may be answered  *)
(* after Release deleted it, and then nobody brings that value back.       *)
Granted(c) == key = c.val /\ TTL - c.age <= pttl
Served(c) == c.op \in {"setnx", "extend"} /\ c.res = "ok" /\ c.age < TTL

UserGranted == \A l \in Lock : Served(call[l][User]) => Granted(call[l][User])

SlotGranted ==
    \A l \in Lock, s \in Slot :
        Served(call[l][s]) /\ call[l][s].val = value[l] =>
            \/ Granted(call[l][s])
            \/ /\ ~inside[l] /\ key # value[l]
               /\ ~(call[l][User].op = "extend" /\ call[l][User].res = "ok")

IInv ==
    /\ TypeOK /\ OneLiveLoop /\ UserCalls /\ SlotCalls /\ Values
    /\ Outside /\ KeyLives /\ LeaseBacked /\ UserGranted /\ SlotGranted

-----------------------------------------------------------------------------
(* At first nobody has acquired or written anything.                       *)
LEMMA InitIInv == Init => IInv
<1> SUFFICES ASSUME Init PROVE IInv
  OBVIOUS
<1> USE LockAssumption DEF Init
<1>1. TypeOK
  BY DEF TypeOK, Value, Thread
<1>2. OneLiveLoop /\ UserCalls /\ SlotCalls /\ Values
  BY DEF OneLiveLoop, UserCalls, UserCall, SlotCalls, Values, Thread
<1>3. Outside /\ KeyLives /\ LeaseBacked
  BY DEF Outside, KeyLives, LeaseBacked
<1>4. UserGranted /\ SlotGranted
  BY DEF UserGranted, SlotGranted, Served, NoCall, Thread
<1> QED
  BY <1>1, <1>2, <1>3, <1>4 DEF IInv

(* Thread t of instance l has the call c next, and nobody else another.    *)
Becomes(l, t, c) == call' = [call EXCEPT ![l][t] = c]

(* What a thread's own call looks like after it sends one or takes an      *)
(* answer; all others are as they were.                                    *)
LEMMA CallsTyped ==
    ASSUME TypeOK, NEW l \in Lock, NEW t \in Thread, NEW c \in Call \union {NoCall},
           Becomes(l, t, c)
    PROVE  /\ call' \in [Lock -> [Thread -> Call \union {NoCall}]]
           /\ call'[l][t] = c
           /\ \A m \in Lock, u \in Thread : m # l \/ u # t => call'[m][u] = call[m][u]
BY DEF TypeOK, Becomes

(* A command that was only sent has granted nothing.                       *)
LEMMA SentTyped ==
    ASSUME NEW op \in {"setnx", "extend", "release"}, NEW v \in Value
    PROVE  Sent(op, v) \in Call /\ ~Served(Sent(op, v))
BY LockAssumption DEF Sent, Call, Served

(* Nor has a thread without a call.                                        *)
LEMMA NoCallTyped == NoCall.op = "none" /\ ~Served(NoCall) /\ NoCall \notin Call
BY DEF NoCall, Served, Call

(* Calls have the values of their instance.                                *)
LEMMA OwnValues ==
    ASSUME UserCalls, Values, NEW l \in Lock, user[l] \in {"reextend", "setnx", "retry", "release"}
    PROVE  call[l][User].val.lock = l
<1>1. CASE user[l] \in {"setnx", "retry"}
  <2>1. call[l][User].val = [lock |-> l, n |-> drawn[l]]
    BY <1>1 DEF UserCalls, UserCall
  <2> QED
    BY <2>1
<1>2. CASE user[l] \in {"reextend", "release"}
  <2>1. call[l][User].val = value[l]
    BY <1>2 DEF UserCalls, UserCall
  <2> QED
    BY <2>1 DEF Values
<1> QED
  BY <1>1, <1>2

(* Time passes.                                                            *)
LEMMA TickKeeps == IInv /\ Tick => IInv'
<1> SUFFICES ASSUME IInv, Tick PROVE IInv'
  OBVIOUS
<1>1. UNCHANGED <<value, drawn, acquired, current, user, retries, inside, loop, tries, cancelled>>
  BY DEF Tick, lockVars, userVars, loopVars
<1>2. pttl \in 0..TTL /\ TTL \in Nat \ {0}
  BY LockAssumption DEF IInv, TypeOK
<1>3. /\ pttl' \in 0..TTL /\ pttl' = (IF pttl > 0 THEN pttl - 1 ELSE 0)
      /\ key' = IF pttl' = 0 THEN Free ELSE key
  BY <1>2 DEF Tick
<1>4. \A l \in Lock : lease'[l] = (IF lease[l] > 0 THEN lease[l] - 1 ELSE 0) /\ lease[l] \in 0..TTL
  BY DEF Tick, IInv, TypeOK
<1>5. \A l \in Lock, t \in Thread :
        /\ call[l][t] \in Call \union {NoCall}
        /\ call'[l][t] = IF call[l][t].op \in {"setnx", "extend"} /\ call[l][t].age < TTL
                         THEN [call[l][t] EXCEPT !.age = @ + 1] ELSE call[l][t]
  BY DEF Tick, IInv, TypeOK
<1>6. \A c \in Call : c.age < TTL =>
        /\ [c EXCEPT !.age = @ + 1] \in Call
        /\ [c EXCEPT !.age = @ + 1].op = c.op /\ [c EXCEPT !.age = @ + 1].val = c.val
        /\ [c EXCEPT !.age = @ + 1].res = c.res /\ [c EXCEPT !.age = @ + 1].age = c.age + 1
  BY <1>2 DEF Call
<1>7. \A l \in Lock, t \in Thread :
        /\ call'[l][t] \in Call \union {NoCall}
        /\ call[l][t] = NoCall => call'[l][t] = NoCall
        /\ call[l][t] \in Call =>
            /\ call'[l][t].op = call[l][t].op /\ call'[l][t].val = call[l][t].val
            /\ call'[l][t].res = call[l][t].res
            /\ Served(call'[l][t]) => Served(call[l][t]) /\ call'[l][t].age = call[l][t].age + 1
  <2> SUFFICES ASSUME NEW l \in Lock, NEW t \in Thread
               PROVE  /\ call'[l][t] \in Call \union {NoCall}
                      /\ call[l][t] = NoCall => call'[l][t] = NoCall
                      /\ call[l][t] \in Call =>
                            /\ call'[l][t].op = call[l][t].op /\ call'[l][t].val = call[l][t].val
                            /\ call'[l][t].res = call[l][t].res
                            /\ Served(call'[l][t]) =>
                                    Served(call[l][t]) /\ call'[l][t].age = call[l][t].age + 1
    OBVIOUS
  <2>1. CASE call[l][t] = NoCall
    BY <1>5, <2>1, NoCallTyped
  <2>2. CASE call[l][t] \in Call /\ call[l][t].op \in {"setnx", "extend"} /\ call[l][t].age < TTL
    BY <1>5, <1>6, <2>2, NoCallTyped DEF Served
  <2>3. CASE call[l][t] \in Call /\ ~(call[l][t].op \in {"setnx", "extend"} /\ call[l][t].age < TTL)
    BY <1>5, <2>3, NoCallTyped DEF Served
  <2> QED
    BY <1>5, <2>1, <2>2, <2>3
<1>8. TypeOK'
  <2>1. lease' \in [Lock -> 0..TTL]
    BY <1>2, <1>4 DEF Tick
  <2>2. call' \in [Lock -> [Thread -> Call \union {NoCall}]]
    BY <1>7 DEF Tick
  <2>3. key' \in Value \union {Free}
    BY <1>3 DEF IInv, TypeOK
  <2> QED
    BY <1>1, <1>3, <2>1, <2>2, <2>3 DEF IInv, TypeOK
<1>9. OneLiveLoop' /\ Values'
  BY <1>1 DEF IInv, OneLiveLoop, Values
<1>10. UserCalls' /\ SlotCalls'
  <2>1. \A l \in Lock, t \in Thread : call[l][t].op # "none" => call[l][t] \in Call
    BY <1>5, NoCallTyped
  <2> QED
    BY <1>1, <1>7, <2>1 DEF IInv, UserCalls, UserCall, SlotCalls, Thread
<1>11. Outside' /\ KeyLives' /\ LeaseBacked'
  BY <1>1, <1>2, <1>3, <1>4 DEF IInv, Outside, KeyLives, LeaseBacked
<1>12. ASSUME NEW l \in Lock, NEW t \in Thread, Served(call'[l][t])
       PROVE  /\ Served(call[l][t]) /\ call'[l][t].val = call[l][t].val
              /\ Granted(call[l][t]) => Granted(call[l][t])'
  <2>1. call[l][t] \in Call
    BY <1>5, <1>7, <1>12, NoCallTyped
  <2>2. call'[l][t].age = call[l][t].age + 1 /\ call'[l][t].age < TTL /\ call[l][t].age \in 0..TTL
    BY <1>7, <1>12, <2>1 DEF Call, Served
  <2> QED
    BY <1>2, <1>3, <1>7, <1>12, <2>1, <2>2 DEF Granted
<1>13. UserGranted'
  BY <1>12 DEF IInv, UserGranted, Thread
<1>14. SlotGranted'
  <2> SUFFICES ASSUME NEW l \in Lock, NEW s \in Slot, Served(call'[l][s]), call'[l][s].val = value[l],
                      ~Granted(call[l][s])'
               PROVE  /\ ~inside[l] /\ key' # value[l]
                      /\ ~(call'[l][User].op = "extend" /\ call'[l][User].res = "ok")
    BY <1>1 DEF SlotGranted
  <2>1. s \in Thread /\ User \in Thread
    BY DEF Thread
  <2>2. /\ ~inside[l] /\ key # value[l]
        /\ ~(call[l][User].op = "extend" /\ call[l][User].res = "ok")
    BY <1>12, <2>1 DEF IInv, SlotGranted
  <2>3. value[l] # Free
    BY LockAssumption DEF IInv, Values, Free
  <2>4. call[l][User] = NoCall \/ call[l][User] \in Call
    BY <1>5, <2>1
  <2> QED
    BY <1>3, <1>7, <2>1, <2>2, <2>3, <2>4, NoCallTyped
<1> QED
  BY <1>8, <1>9, <1>10, <1>11, <1>13, <1>14 DEF IInv

(* The server runs a command.                                              *)
LEMMA ServeKeeps ==
    ASSUME IInv, NEW l \in Lock, NEW t \in Thread, Serve(l, t)
    PROVE  IInv'
<1> DEFINE c == call[l][t]
<1>1. /\ TypeOK
      /\ c \in Call /\ c.res = "sent" /\ c.op \in {"setnx", "extend", "release"}
      /\ c.val \in Value /\ c.val # Free /\ c.age \in 0..TTL
  BY NoCallTyped, LockAssumption DEF IInv, TypeOK, Serve, Answered, Call, Value, Free, NoCall
<1>2. PICK q \in {"ok", "miss"} : call' = [call EXCEPT ![l][t] = [c EXCEPT !.res = q]]
  BY DEF Serve
<1>3. /\ [c EXCEPT !.res = q] \in Call
      /\ [c EXCEPT !.res = q].op = c.op /\ [c EXCEPT !.res = q].val = c.val
      /\ [c EXCEPT !.res = q].age = c.age /\ [c EXCEPT !.res = q].res = q
  BY <1>1 DEF Call
<1>4. /\ call' \in [Lock -> [Thread -> Call \union {NoCall}]]
      /\ \A m \in Lock, u \in Thread : m # l \/ u # t => call'[m][u] = call[m][u]
      /\ call'[l][t] \in Call /\ call'[l][t].op = c.op /\ call'[l][t].val = c.val
      /\ call'[l][t].age = c.age /\ call'[l][t].res = q
  <2>1. TypeOK /\ [c EXCEPT !.res = q] \in Call \union {NoCall}
    BY <1>3 DEF IInv
  <2>2. Becomes(l, t, [c EXCEPT !.res = q])
    BY <1>2 DEF Becomes
  <2>3. /\ call' \in [Lock -> [Thread -> Call \union {NoCall}]]
        /\ call'[l][t] = [c EXCEPT !.res = q]
        /\ \A m \in Lock, u \in Thread : m # l \/ u # t => call'[m][u] = call[m][u]
    BY <2>1, <2>2, CallsTyped
  <2> QED
    BY <1>3, <2>3
<1>5. UNCHANGED <<value, drawn, acquired, current, user, retries, inside, lease, loop, tries, cancelled>>
  BY DEF Serve, lockVars, userVars, loopVars
<1>6. /\ c.val.lock = l
      /\ t = User => user[l] \in {"reextend", "setnx", "release"}
      /\ t # User => t \in Slot /\ c.op = "extend"
      /\ c.op = "setnx" => t = User /\ user[l] = "setnx"
      /\ c.op = "release" => t = User /\ user[l] = "release" /\ c.val = value[l]
  <2>1. CASE t = User
    <3>1. user[l] \in {"reextend", "setnx", "release"}
      BY <1>1, <2>1, NoCallTyped DEF IInv, UserCalls, UserCall, TypeOK
    <3>2. c.val.lock = l
      BY <2>1, <3>1, OwnValues DEF IInv
    <3>3. /\ c.op = "setnx" => user[l] = "setnx"
          /\ c.op = "release" => user[l] = "release" /\ c.val = value[l]
      BY <2>1, <3>1 DEF IInv, UserCalls, UserCall
    <3> QED
      BY <2>1, <3>1, <3>2, <3>3
  <2>2. CASE t # User
    <3>1. t \in Slot
      BY <2>2 DEF Thread
    <3> QED
      BY <1>1, <2>2, <3>1, NoCallTyped DEF IInv, SlotCalls
  <2> QED
    BY <2>1, <2>2
<1>7. \/ /\ c.op = "setnx" /\ key = Free /\ key' = c.val /\ pttl' = TTL
         /\ call'[l][t].res = "ok"
      \/ /\ c.op = "extend" /\ key = c.val /\ pttl' = TTL /\ key' = key
         /\ call'[l][t].res = "ok"
      \/ /\ c.op = "release" /\ key = c.val /\ key' = Free /\ pttl' = 0
         /\ call'[l][t].res = "ok"
      \/ /\ key' = key /\ pttl' = pttl /\ call'[l][t].res = "miss"
  <2>1. (call' = [call EXCEPT ![l][t].res = "ok"] => call'[l][t].res = "ok")
        /\ (call' = [call EXCEPT ![l][t].res = "miss"] => call'[l][t].res = "miss")
    BY <1>1 DEF TypeOK, Call
  <2> QED
    BY <2>1 DEF Serve, Matches, MayDelete, MaySet, redisVars
<1>8. TTL \in Nat \ {0} /\ pttl \in 0..TTL /\ pttl' \in 0..TTL
  BY <1>1, <1>7, LockAssumption DEF TypeOK
<1>9. TypeOK'
  BY <1>1, <1>4, <1>5, <1>7, <1>8 DEF TypeOK
<1>10. OneLiveLoop' /\ Values' /\ Outside'
  BY <1>5 DEF IInv, OneLiveLoop, Values, Outside
<1>11. UserCalls' /\ SlotCalls'
  <2>1. user[l] = "retry" => t # User
    BY <1>6
  <2>2. UserCalls'
    BY <1>1, <1>4, <1>5, <1>6, NoCallTyped DEF IInv, UserCalls, UserCall, Thread
  <2>3. SlotCalls'
    BY <1>1, <1>4, <1>5, <1>6, NoCallTyped DEF IInv, SlotCalls, Thread
  <2> QED
    BY <2>2, <2>3
<1>12. KeyLives' /\ LeaseBacked'
  <2>1. KeyLives'
    BY <1>1, <1>7, <1>8 DEF IInv, KeyLives
  <2>2. LeaseBacked'
    <3> SUFFICES ASSUME NEW m \in Lock, lease[m] > 0
                 PROVE  key' = value[m] /\ lease[m] <= pttl'
      BY <1>5 DEF LeaseBacked
    <3>1. key = value[m] /\ lease[m] <= pttl /\ lease[m] \in 0..TTL /\ value[m].lock = m /\ key # Free
      BY <1>1, LockAssumption DEF IInv, LeaseBacked, TypeOK, Values, Free
    <3>2. ~(c.op = "release" /\ key = c.val)
      BY <1>6, <3>1 DEF IInv, Outside
    <3> QED
      BY <1>7, <1>8, <3>1, <3>2
  <2> QED
    BY <2>1, <2>2
<1>13. ASSUME NEW m \in Lock, NEW u \in Thread, call'[m][u] = call[m][u],
              call[m][u] \in Call, call[m][u].val.lock = m, Granted(call[m][u])
       PROVE  \/ Granted(call[m][u])'
              \/ m = l /\ user[l] = "release" /\ t = User /\ key' = Free
  <2>1. call[m][u].val # Free /\ call[m][u].age \in 0..TTL
    BY <1>13, LockAssumption DEF Call, Free
  <2> QED
    BY <1>6, <1>7, <1>8, <1>13, <2>1 DEF Granted
<1>14. Served(call'[l][t]) => Granted(call[l][t])'
  BY <1>1, <1>4, <1>7, <1>8 DEF Served, Granted
<1>15. UserGranted'
  <2> SUFFICES ASSUME NEW m \in Lock, Served(call'[m][User]), m # l \/ t # User
               PROVE  Granted(call[m][User])'
    BY <1>14 DEF UserGranted
  <2>1. User \in Thread
    BY DEF Thread
  <2>2. call'[m][User] = call[m][User] /\ Granted(call[m][User]) /\ call[m][User] \in Call
    BY <1>1, <1>4, <2>1, NoCallTyped DEF IInv, UserGranted, TypeOK
  <2>3. user[m] \in {"reextend", "setnx", "retry", "release"}
    BY <1>1, <2>2, NoCallTyped DEF IInv, UserCalls, UserCall, TypeOK
  <2>4. call[m][User].val.lock = m
    BY <2>3, OwnValues DEF IInv
  <2> QED
    BY <1>13, <2>1, <2>2, <2>4
<1>16. SlotGranted'
  <2> SUFFICES ASSUME NEW m \in Lock, NEW s \in Slot, m # l \/ t # s,
                      Served(call'[m][s]), call'[m][s].val = value[m], ~Granted(call[m][s])'
               PROVE  /\ ~inside[m] /\ key' # value[m]
                      /\ ~(call'[m][User].op = "extend" /\ call'[m][User].res = "ok")
    BY <1>5, <1>14 DEF SlotGranted
  <2>1. s \in Thread /\ User \in Thread
    BY DEF Thread
  <2>2. call'[m][s] = call[m][s] /\ call[m][s] \in Call /\ value[m].lock = m /\ value[m] # Free
    BY <1>1, <1>4, <2>1, NoCallTyped, LockAssumption DEF IInv, Values, TypeOK, Free
  <2>3. CASE Granted(call[m][s])
    <3>1. m = l /\ user[l] = "release" /\ t = User /\ key' = Free
      BY <1>13, <2>1, <2>2, <2>3
    <3>2. call'[m][User].op = "release" /\ ~inside[m]
      BY <1>4, <1>6, <3>1 DEF IInv, Outside, UserCalls, UserCall
    <3> QED
      BY <2>2, <3>1, <3>2
  <2>4. CASE ~Granted(call[m][s])
    <3>1. /\ ~inside[m] /\ key # value[m]
          /\ ~(call[m][User].op = "extend" /\ call[m][User].res = "ok")
      BY <2>2, <2>4 DEF IInv, SlotGranted
    <3>2. key' # value[m]
      <4>1. CASE key' = c.val /\ c.op = "setnx"
        <5>1. user[l] = "setnx" /\ c.val.lock = l
          BY <1>6, <4>1
        <5>2. c.val.n = drawn[l] /\ value[l].n < drawn[l]
          <6>1. c.val = [lock |-> l, n |-> drawn[l]] /\ value[l].n < drawn[l]
            BY <1>6, <4>1, <5>1 DEF IInv, UserCalls, UserCall
          <6> QED
            BY <6>1
        <5>3. drawn[l] \in Nat /\ value[l].n \in Nat
          BY <1>1 DEF TypeOK, Value
        <5> QED
          BY <2>2, <4>1, <5>1, <5>2, <5>3
      <4> QED
        BY <1>7, <2>2, <3>1, <4>1
    <3>3. CASE m = l /\ t = User
      <4>1. c.op = "extend" => c.val = value[l]
        BY <1>6, <3>3 DEF IInv, UserCalls, UserCall
      <4> QED
        BY <1>4, <1>7, <3>1, <3>2, <3>3, <4>1
    <3> QED
      BY <1>4, <2>1, <3>1, <3>2, <3>3
  <2> QED
    BY <2>3, <2>4
<1> QED
  BY <1>9, <1>10, <1>11, <1>12, <1>15, <1>16 DEF IInv

-----------------------------------------------------------------------------
(* A step that leaves Redis and the values alone, and after which every    *)
(* call is as before, gone, just sent or a miss, takes nothing back.       *)
LEMMA QuietKeeps ==
    ASSUME IInv, TypeOK', UNCHANGED <<key, pttl, value>>,
           \A l \in Lock :
                /\ drawn'[l] >= drawn[l]
                /\ inside'[l] => inside[l]
                /\ lease'[l] \in {0, lease[l]},
           \A l \in Lock, t \in Thread :
                \/ call'[l][t] = call[l][t]
                \/ call'[l][t] = NoCall
                \/ call'[l][t].res \in {"sent", "miss"}
    PROVE  Values' /\ KeyLives' /\ LeaseBacked' /\ UserGranted' /\ SlotGranted'
<1>1. Values'
  BY DEF IInv, Values, TypeOK, Value
<1>2. KeyLives' /\ LeaseBacked'
  <2>1. \A l \in Lock : lease'[l] > 0 => lease'[l] = lease[l]
    OBVIOUS
  <2> QED
    BY <2>1 DEF IInv, KeyLives, LeaseBacked
<1>3. \A l \in Lock, t \in Thread : Served(call'[l][t]) => call'[l][t] = call[l][t]
  BY NoCallTyped DEF Served
<1>4. UserGranted'
  BY <1>3 DEF IInv, UserGranted, Granted, Thread
<1>5. SlotGranted'
  <2> SUFFICES ASSUME NEW l \in Lock, NEW s \in Slot, Served(call'[l][s]), call'[l][s].val = value[l],
                      ~Granted(call[l][s])'
               PROVE  /\ ~inside'[l] /\ key # value[l]
                      /\ ~(call'[l][User].op = "extend" /\ call'[l][User].res = "ok")
    BY DEF SlotGranted
  <2>1. call'[l][s] = call[l][s] /\ ~Granted(call[l][s])
    BY <1>3 DEF Granted, Thread
  <2>2. /\ ~inside[l] /\ key # value[l]
        /\ ~(call[l][User].op = "extend" /\ call[l][User].res = "ok")
    BY <2>1 DEF IInv, SlotGranted
  <2>3. inside'[l] => inside[l]
    OBVIOUS
  <2>4. \/ call'[l][User] = call[l][User] \/ call'[l][User] = NoCall
        \/ call'[l][User].res \in {"sent", "miss"}
    BY DEF Thread
  <2> QED
    BY <2>2, <2>3, <2>4, NoCallTyped
<1> QED
  BY <1>1, <1>2, <1>4, <1>5

(* A user's step leaves the other users' calls alone.                      *)
LEMMA OtherUsers ==
    ASSUME UserCalls, NEW l \in Lock, UserCall(l)',
           \A m \in Lock : m # l =>
                /\ user'[m] = user[m] /\ call'[m][User] = call[m][User]
                /\ drawn'[m] = drawn[m] /\ value'[m] = value[m]
    PROVE  UserCalls'
<1> SUFFICES ASSUME NEW m \in Lock, m # l PROVE UserCall(m)'
  BY DEF UserCalls, UserCall
<1> QED
  BY DEF UserCalls, UserCall

(* The goroutine of the last acquisition is stopped; a new one is the one  *)
(* that current names.                                                     *)
LEMMA StopKeeps ==
    ASSUME TypeOK, OneLiveLoop, NEW l \in Lock, StopAutoExtend(l), UNCHANGED loop
    PROVE  /\ OneLiveLoop' /\ current' \in [Lock -> Thread]
           /\ cancelled' \in [Lock -> [Slot -> BOOLEAN]]
BY DEF TypeOK, OneLiveLoop, StopAutoExtend, Stopped, Thread

(* startAutoExtend leaves the new goroutine as the live one.               *)
LEMMA StartKeeps ==
    ASSUME TypeOK, OneLiveLoop, NEW l \in Lock, StartAutoExtend(l)
    PROVE  /\ OneLiveLoop' /\ current' \in [Lock -> Thread]
           /\ cancelled' \in [Lock -> [Slot -> BOOLEAN]]
           /\ loop' \in [Lock -> [Slot -> Loop]]
           /\ \A m \in Lock, u \in Slot : loop'[m][u] = "extend" <=> loop[m][u] = "extend"
<1>1. PICK s \in Slot :
        /\ loop[l][s] = "none"
        /\ cancelled' = [cancelled EXCEPT ![l] = [Stopped(l) EXCEPT ![s] = FALSE]]
        /\ current' = [current EXCEPT ![l] = s]
        /\ loop' = [loop EXCEPT ![l][s] = "wait"]
  BY DEF StartAutoExtend
<1>2. Stopped(l) \in [Slot -> BOOLEAN]
  BY DEF Stopped, TypeOK
<1>3. current' \in [Lock -> Thread] /\ cancelled' \in [Lock -> [Slot -> BOOLEAN]]
  BY <1>1, <1>2 DEF TypeOK, Thread
<1>4. \A m \in Lock, u \in Slot :
        /\ loop'[m][u] = IF m = l /\ u = s THEN "wait" ELSE loop[m][u]
        /\ current'[m] = IF m = l THEN s ELSE current[m]
        /\ m # l => cancelled'[m][u] = cancelled[m][u]
        /\ ~cancelled'[l][u] => u = s \/ (~cancelled[l][u] /\ u # current[l])
  BY <1>1, <1>2 DEF TypeOK, Stopped
<1>5. OneLiveLoop'
  BY <1>4 DEF OneLiveLoop
<1>6. loop' \in [Lock -> [Slot -> Loop]]
  BY <1>1 DEF TypeOK, Loop
<1> QED
  BY <1>1, <1>3, <1>4, <1>5, <1>6

(* AcquireWithOption and its retries, as long as they get nothing.         *)
LEMMA TryKeeps ==
    ASSUME IInv, NEW l \in Lock, user[l] \in {"idle", "reextend"}, TrySetNX(l),
           UNCHANGED <<redisVars, value, current, inside, lease, loopVars, cancelled>>
    PROVE  IInv'
<1>1. drawn' = [drawn EXCEPT ![l] = @ + 1] /\ acquired' = [acquired EXCEPT ![l] = FALSE]
  BY DEF TrySetNX
<1>2. /\ drawn' \in [Lock -> Nat] /\ drawn'[l] = drawn[l] + 1 /\ drawn[l] \in Nat
      /\ \A m \in Lock : m # l => drawn'[m] = drawn[m]
  BY <1>1 DEF IInv, TypeOK
<1>3. PICK c \in Call \union {NoCall}, u \in {"idle", "setnx"} :
        /\ call' = [call EXCEPT ![l][User] = c] /\ user' = [user EXCEPT ![l] = u]
        /\ u = "idle" => c = NoCall
        /\ u = "setnx" => c = Sent("setnx", [lock |-> l, n |-> drawn'[l]])
        /\ retries' \in [Lock -> 0..RetryTimes]
  <2>1. [lock |-> l, n |-> drawn'[l]] \in Value
    BY <1>2 DEF Value
  <2>2. Sent("setnx", [lock |-> l, n |-> drawn'[l]]) \in Call
    BY <2>1, SentTyped
  <2>3. CASE RetryTimes > 0
    <3>1. retries' \in [Lock -> 0..RetryTimes]
      <4>1. 1 \in 0..RetryTimes /\ retries' = [retries EXCEPT ![l] = 1]
        BY <2>3, LockAssumption DEF TrySetNX
      <4> QED
        BY <4>1 DEF IInv, TypeOK
    <3> QED
      BY <2>2, <2>3, <3>1 DEF TrySetNX, Send
  <2>4. CASE ~(RetryTimes > 0)
    BY <2>4 DEF TrySetNX, Return, IInv, TypeOK
  <2> QED
    BY <2>3, <2>4
<1>4. /\ call' \in [Lock -> [Thread -> Call \union {NoCall}]]
      /\ call'[l][User] = c
      /\ \A m \in Lock, t \in Thread : m # l \/ t # User => call'[m][t] = call[m][t]
  <2>1. TypeOK /\ User \in Thread
    BY DEF IInv, Thread
  <2>2. Becomes(l, User, c)
    BY <1>3 DEF Becomes
  <2> QED
    BY <2>1, <2>2, CallsTyped
<1>5. TypeOK'
  BY <1>1, <1>2, <1>3, <1>4 DEF IInv, TypeOK, redisVars, loopVars
<1>6. Values' /\ KeyLives' /\ LeaseBacked' /\ UserGranted' /\ SlotGranted'
  BY <1>2, <1>3, <1>4, <1>5, QuietKeeps DEF redisVars, Sent
<1>7. UserCalls'
  <2>1. UserCall(l)'
    <3>1. user'[l] = u
      BY <1>3 DEF IInv, TypeOK
    <3>2. value[l].n < drawn'[l]
      BY <1>2 DEF IInv, Values, TypeOK, Value
    <3> QED
      BY <1>3, <1>4, <3>1, <3>2 DEF UserCall, Sent
  <2> QED
    BY <1>2, <1>3, <1>4, <2>1, OtherUsers DEF IInv, TypeOK, Thread
<1>8. OneLiveLoop' /\ SlotCalls'
  BY <1>4, LockAssumption DEF IInv, OneLiveLoop, SlotCalls, Thread, loopVars
<1>9. Outside'
  BY <1>3 DEF IInv, Outside, TypeOK
<1> QED
  BY <1>5, <1>6, <1>7, <1>8, <1>9 DEF IInv

(* The other steps of an acquisition or a release that get nothing.        *)
LEMMA UserMoves ==
    ASSUME IInv, NEW l \in Lock, NEW c \in Call \union {NoCall},
           NEW u \in {"idle", "reextend", "setnx", "retry"},
           call' = [call EXCEPT ![l][User] = c], user' = [user EXCEPT ![l] = u],
           c = NoCall \/ c.res \in {"sent", "miss"}, UserCall(l)',
           retries' \in [Lock -> 0..RetryTimes], acquired' \in [Lock -> BOOLEAN],
           UNCHANGED <<redisVars, value, drawn, current, inside, lease, loopVars, cancelled>>
    PROVE  IInv'
<1>1. /\ call' \in [Lock -> [Thread -> Call \union {NoCall}]]
      /\ call'[l][User] = c
      /\ \A m \in Lock, t \in Thread : m # l \/ t # User => call'[m][t] = call[m][t]
  <2>1. TypeOK /\ User \in Thread
    BY DEF IInv, Thread
  <2>2. Becomes(l, User, c)
    BY DEF Becomes
  <2> QED
    BY <2>1, <2>2, CallsTyped
<1>2. TypeOK'
  BY <1>1 DEF IInv, TypeOK, redisVars, loopVars
<1>3. Values' /\ KeyLives' /\ LeaseBacked' /\ UserGranted' /\ SlotGranted'
  <2>1. \A m \in Lock : drawn'[m] >= drawn[m]
    BY DEF IInv, TypeOK
  <2> QED
    BY <1>1, <1>2, <2>1, QuietKeeps DEF redisVars
<1>4. UserCalls'
  BY <1>1, OtherUsers DEF IInv, TypeOK, Thread
<1>5. OneLiveLoop' /\ SlotCalls'
  BY <1>1, LockAssumption DEF IInv, OneLiveLoop, SlotCalls, Thread, loopVars
<1>6. Outside'
  BY DEF IInv, Outside, TypeOK
<1> QED
  BY <1>2, <1>3, <1>4, <1>5, <1>6 DEF IInv

(* An acquisition that got the lock: the value it was granted is the one   *)
(* the user relies on from now on.                                         *)
LEMMA AcquiredKeeps ==
    ASSUME IInv, NEW l \in Lock, user[l] \in {"reextend", "setnx"}, Answered(l, User, "ok"),
           Acquired(l, call[l][User]), Return(l, User),
           value' = [value EXCEPT ![l] = call[l][User].val], acquired' \in [Lock -> BOOLEAN],
           UNCHANGED <<redisVars, drawn>>
    PROVE  IInv'
<1> DEFINE c == call[l][User]
<1>1. c \in Call /\ c.res = "ok" /\ c.age \in 0..TTL /\ c.val \in Value /\ c.val.lock = l
  BY OwnValues, NoCallTyped DEF IInv, Answered, TypeOK, Thread, Call
<1>2. /\ user[l] = "reextend" => c.op = "extend" /\ c.val = value[l]
      /\ user[l] = "setnx" => /\ c.op = "setnx" /\ c.val = [lock |-> l, n |-> drawn[l]]
                              /\ value[l].n < drawn[l]
  BY DEF IInv, UserCalls, UserCall
<1>3. /\ value' \in [Lock -> Value] /\ value'[l] = c.val
      /\ \A m \in Lock : m # l => value'[m] = value[m]
      /\ value[l].n \in Nat /\ drawn[l] \in Nat /\ value[l].n <= drawn[l]
      /\ value[l].n <= c.val.n /\ c.val.n <= drawn[l]
      /\ user[l] = "setnx" => value[l].n < c.val.n
  <2>1. value[l].n \in Nat /\ drawn[l] \in Nat /\ value[l].n <= drawn[l]
    BY DEF IInv, TypeOK, Values, Value
  <2>2. user[l] = "setnx" => c.val.n = drawn[l]
    <3>1. [lock |-> l, n |-> drawn[l]].n = drawn[l]
      OBVIOUS
    <3> QED
      BY <1>2, <3>1
  <2> QED
    BY <1>1, <1>2, <2>1, <2>2 DEF IInv, TypeOK
<1>4. /\ call' \in [Lock -> [Thread -> Call \union {NoCall}]]
      /\ call'[l][User] = NoCall
      /\ \A m \in Lock, t \in Thread : m # l \/ t # User => call'[m][t] = call[m][t]
  <2>1. TypeOK /\ User \in Thread
    BY DEF IInv, Thread
  <2>2. Becomes(l, User, NoCall)
    BY DEF Becomes, Return
  <2> QED
    BY <2>1, <2>2, CallsTyped
<1>5. /\ user' = [user EXCEPT ![l] = "idle"] /\ inside' = [inside EXCEPT ![l] = TRUE]
      /\ lease' = [lease EXCEPT ![l] = TTL - c.age] /\ retries' = [retries EXCEPT ![l] = 0]
      /\ UNCHANGED <<tries, key, pttl, drawn>>
  BY DEF Acquired, loopVars, StartAutoExtend, redisVars
<1>6. /\ OneLiveLoop' /\ current' \in [Lock -> Thread]
      /\ cancelled' \in [Lock -> [Slot -> BOOLEAN]]
      /\ loop' \in [Lock -> [Slot -> Loop]]
      /\ \A m \in Lock, s \in Slot : loop'[m][s] = "extend" <=> loop[m][s] = "extend"
  BY StartKeeps, StopKeeps DEF Acquired, loopVars, IInv, TypeOK, Loop
<1>7. TypeOK'
  <2>1. loop' \in [Lock -> [Slot -> {"none", "wait", "extend", "backoff", "lost"}]]
    BY <1>6 DEF Loop
  <2>2. TTL - c.age \in 0..TTL /\ 0 \in 0..RetryTimes
    BY <1>1, LockAssumption
  <2> QED
    BY <1>3, <1>4, <1>5, <1>6, <2>1, <2>2 DEF IInv, TypeOK
<1>8. UserCalls'
  <2>1. UserCall(l)'
    BY <1>4, <1>5 DEF UserCall, IInv, TypeOK
  <2> QED
    BY <1>3, <1>4, <1>5, <2>1, OtherUsers DEF IInv, TypeOK, Thread
<1>9. SlotCalls'
  <2> SUFFICES ASSUME NEW m \in Lock, NEW s \in Slot
               PROVE  IF loop'[m][s] = "extend"
                      THEN /\ call'[m][s].op = "extend"
                           /\ call'[m][s].val.lock = m /\ call'[m][s].val.n <= value'[m].n
                      ELSE call'[m][s] = NoCall
    BY DEF SlotCalls
  <2>1. call'[m][s] = call[m][s]
    BY <1>4, LockAssumption DEF Thread
  <2>2. loop'[m][s] = "extend" <=> loop[m][s] = "extend"
    BY <1>6
  <2>3. loop[m][s] = "extend" => call[m][s] \in Call
    BY NoCallTyped DEF IInv, SlotCalls, TypeOK, Thread
  <2>4. m = l /\ loop[m][s] = "extend" => call[m][s].val.n \in Nat /\ call[m][s].val.n <= value[l].n
    BY <2>3 DEF IInv, SlotCalls, Call, Value
  <2> QED
    BY <1>1, <1>3, <2>1, <2>2, <2>4 DEF IInv, SlotCalls, Value
<1>10. Values' /\ Outside' /\ KeyLives'
  BY <1>1, <1>3, <1>5 DEF IInv, Values, Outside, KeyLives, TypeOK
<1>11. c.age < TTL => key = c.val /\ TTL - c.age <= pttl
  BY <1>1, <1>2 DEF IInv, UserGranted, Served, Granted
<1>12. LeaseBacked'
  BY <1>1, <1>3, <1>5, <1>11, LockAssumption DEF IInv, LeaseBacked, TypeOK
<1>13. UserGranted'
  BY <1>4, <1>5, NoCallTyped DEF IInv, UserGranted, Granted, Thread
<1>14. SlotGranted'
  <2> SUFFICES ASSUME NEW m \in Lock, NEW s \in Slot, Served(call'[m][s]), call'[m][s].val = value'[m],
                      ~Granted(call[m][s])'
               PROVE  /\ ~inside'[m] /\ key' # value'[m]
                      /\ ~(call'[m][User].op = "extend" /\ call'[m][User].res = "ok")
    BY DEF SlotGranted
  <2>1. call'[m][s] = call[m][s] /\ s \in Thread /\ User \in Thread
    BY <1>4, LockAssumption DEF Thread
  <2>2. ~Granted(call[m][s])
    BY <1>5, <2>1 DEF Granted
  <2>3. CASE m # l
    BY <1>3, <1>4, <1>5, <2>1, <2>2, <2>3 DEF IInv, SlotGranted, TypeOK
  <2>4. CASE m = l /\ user[l] = "reextend"
    BY <1>1, <1>2, <1>3, <2>1, <2>2, <2>4 DEF IInv, SlotGranted
  <2>5. CASE m = l /\ user[l] = "setnx"
    <3>1. call[m][s] # NoCall /\ loop[m][s] = "extend"
      BY <2>1, NoCallTyped DEF IInv, SlotCalls
    <3>2. call[m][s].val.n <= value[l].n
      BY <2>5, <3>1 DEF IInv, SlotCalls
    <3> QED
      BY <1>1, <1>3, <2>1, <2>5, <3>2 DEF Value
  <2> QED
    BY <2>3, <2>4, <2>5
<1> QED
  BY <1>6, <1>7, <1>8, <1>9, <1>10, <1>12, <1>13, <1>14 DEF IInv

(* AcquireWithOption.                                                      *)
LEMMA AcquireKeeps ==
    ASSUME IInv, NEW l \in Lock,
           AcquireCall(l) \/ ReExtendReturn(l) \/ SetNXReturn(l) \/ Retry(l) \/ RetryCancelled(l)
    PROVE  IInv'
<1> USE DEF Send, Return
<1>1. /\ TypeOK /\ UserCall(l) /\ User \in Thread
      /\ value[l] \in Value /\ call[l][User] \in Call \union {NoCall}
      /\ retries \in [Lock -> 0..RetryTimes] /\ acquired \in [Lock -> BOOLEAN]
  <2>1. TypeOK /\ UserCall(l)
    BY DEF IInv, UserCalls
  <2>2. User \in Thread
    BY DEF Thread
  <2> QED
    BY <2>1, <2>2 DEF TypeOK
<1>2. ASSUME GiveUp(l) \/ (Return(l, User) /\ user' = [user EXCEPT ![l] = "idle"] /\ UNCHANGED retries),
             acquired' \in [Lock -> BOOLEAN],
             UNCHANGED <<redisVars, value, drawn, current, inside, lease, loopVars, cancelled>>
      PROVE  IInv'
  <2>1. call' = [call EXCEPT ![l][User] = NoCall] /\ user' = [user EXCEPT ![l] = "idle"]
    BY <1>2 DEF GiveUp
  <2>2. retries' \in [Lock -> 0..RetryTimes]
    BY <1>1, <1>2, LockAssumption DEF GiveUp
  <2>3. UserCall(l)'
    BY <1>1, <2>1 DEF TypeOK, UserCall
  <2> QED
    BY <1>2, <2>1, <2>2, <2>3, UserMoves
<1>3. CASE AcquireCall(l)
  <2>1. CASE acquired[l]
    <3>1. Sent("extend", value[l]) \in Call
      BY <1>1, SentTyped
    <3>2. /\ call' = [call EXCEPT ![l][User] = Sent("extend", value[l])]
          /\ user' = [user EXCEPT ![l] = "reextend"]
          /\ UNCHANGED <<redisVars, value, drawn, acquired, retries,
                         current, inside, lease, loopVars, cancelled>>
      BY <1>3, <2>1 DEF AcquireCall, lockVars
    <3>3. UserCall(l)'
      BY <1>1, <3>2 DEF UserCall, Sent, TypeOK
    <3>4. Sent("extend", value[l]).res = "sent"
      BY DEF Sent
    <3> QED
      BY <1>1, <3>1, <3>2, <3>3, <3>4, UserMoves
  <2>2. CASE ~acquired[l]
    BY <1>3, <2>2, TryKeeps DEF AcquireCall
  <2> QED
    BY <2>1, <2>2
<1>4. CASE ReExtendReturn(l)
  <2>1. CASE Answered(l, User, "ok") /\ Acquired(l, call[l][User]) /\ Return(l, User) /\ UNCHANGED lockVars
    <3>1. value' = [value EXCEPT ![l] = call[l][User].val]
      BY <1>1, <1>4, <2>1 DEF ReExtendReturn, UserCall, lockVars, TypeOK
    <3> QED
      BY <1>1, <1>4, <2>1, <3>1, AcquiredKeeps DEF ReExtendReturn, lockVars
  <2>2. CASE /\ user' = [user EXCEPT ![l] = "idle"] /\ Return(l, User)
             /\ UNCHANGED <<lockVars, current, retries, inside, lease, loopVars, cancelled>>
    BY <1>1, <1>2, <1>4, <2>2 DEF ReExtendReturn, lockVars
  <2>3. CASE /\ TrySetNX(l)
             /\ UNCHANGED <<value, current, inside, lease, loopVars, cancelled>>
    BY <1>4, <2>3, TryKeeps DEF ReExtendReturn
  <2> QED
    BY <1>4, <2>1, <2>2, <2>3 DEF ReExtendReturn
<1>5. CASE SetNXReturn(l)
  <2>1. CASE /\ Answered(l, User, "ok") /\ value' = [value EXCEPT ![l] = call[l][User].val]
             /\ acquired' = [acquired EXCEPT ![l] = TRUE]
             /\ Acquired(l, call[l][User]) /\ Return(l, User)
    BY <1>1, <1>5, <2>1, AcquiredKeeps DEF SetNXReturn
  <2>2. CASE /\ GiveUp(l)
             /\ UNCHANGED <<value, acquired, current, inside, lease, loopVars, cancelled>>
    BY <1>1, <1>2, <1>5, <2>2 DEF SetNXReturn
  <2>3. CASE /\ Answered(l, User, "miss")
             /\ user' = [user EXCEPT ![l] = "retry"]
             /\ UNCHANGED <<value, acquired, current, retries, inside, lease, loopVars, cancelled, call>>
    <3>1. call' = [call EXCEPT ![l][User] = call[l][User]]
      BY <1>1, <2>3 DEF TypeOK
    <3>2. UserCall(l)'
      BY <1>1, <1>5, <2>3 DEF UserCall, SetNXReturn, Answered
    <3>3. call[l][User].res = "miss"
      BY <2>3 DEF Answered
    <3> QED
      BY <1>1, <1>5, <2>3, <3>1, <3>2, <3>3, UserMoves DEF SetNXReturn
  <2> QED
    BY <1>5, <2>1, <2>2, <2>3 DEF SetNXReturn
<1>6. CASE Retry(l)
  <2>1. CASE MayRetry(l)
    <3>1. call[l][User] \in Call
      BY <1>1, <1>6, NoCallTyped DEF Retry, UserCall
    <3>2. call[l][User].val \in Value /\ Sent("setnx", call[l][User].val) \in Call
      BY <3>1, SentTyped DEF Call
    <3>3. /\ call' = [call EXCEPT ![l][User] = Sent("setnx", call[l][User].val)]
          /\ user' = [user EXCEPT ![l] = "setnx"]
          /\ UNCHANGED <<redisVars, value, drawn, acquired, current, inside, lease, loopVars, cancelled>>
          /\ retries' = [retries EXCEPT ![l] = @ + 1] /\ retries[l] < RetryTimes
      BY <1>6, <2>1 DEF Retry, MayRetry
    <3>4. retries' \in [Lock -> 0..RetryTimes]
      BY <1>1, <3>3, LockAssumption
    <3>5. UserCall(l)'
      BY <1>1, <1>6, <3>3 DEF UserCall, Sent, TypeOK, Retry
    <3>6. Sent("setnx", call[l][User].val).res = "sent"
      BY DEF Sent
    <3> QED
      BY <1>1, <3>2, <3>3, <3>4, <3>5, <3>6, UserMoves
  <2>2. CASE ~MayRetry(l)
    BY <1>1, <1>2, <1>6, <2>2 DEF Retry
  <2> QED
    BY <2>1, <2>2
<1>7. CASE RetryCancelled(l)
  BY <1>1, <1>2, <1>7 DEF RetryCancelled, lockVars
<1> QED
  BY <1>3, <1>4, <1>5, <1>6, <1>7

(* Release gives up the lease before its command is sent.                  *)
LEMMA ReleaseKeeps ==
    ASSUME IInv, NEW l \in Lock, ReleaseCall(l) \/ ReleaseReturn(l)
    PROVE  IInv'
<1>1. CASE ReleaseReturn(l)
  <2>1. call' = [call EXCEPT ![l][User] = NoCall] /\ user' = [user EXCEPT ![l] = "idle"]
    BY <1>1 DEF ReleaseReturn, Return
  <2>2. UserCall(l)'
    BY <2>1 DEF IInv, TypeOK, UserCall, Thread
  <2> QED
    BY <1>1, <2>1, <2>2, UserMoves DEF ReleaseReturn, IInv, TypeOK, lockVars
<1>2. CASE ReleaseCall(l)
  <2>1. /\ UNCHANGED <<key, pttl, value, drawn, acquired, retries, loop, tries>> /\ StopAutoExtend(l)
        /\ call' = [call EXCEPT ![l][User] = Sent("release", value[l])]
        /\ user' = [user EXCEPT ![l] = "release"]
        /\ inside' = [inside EXCEPT ![l] = FALSE] /\ lease' = [lease EXCEPT ![l] = 0]
    BY <1>2 DEF ReleaseCall, Send, redisVars, lockVars, loopVars
  <2>2. Sent("release", value[l]) \in Call
    BY SentTyped DEF IInv, TypeOK
  <2>3. /\ call' \in [Lock -> [Thread -> Call \union {NoCall}]]
        /\ call'[l][User] = Sent("release", value[l])
        /\ \A m \in Lock, t \in Thread : m # l \/ t # User => call'[m][t] = call[m][t]
    <3>1. TypeOK /\ User \in Thread
      BY DEF IInv, Thread
    <3>2. Becomes(l, User, Sent("release", value[l]))
      BY <2>1 DEF Becomes
    <3> QED
      BY <2>2, <3>1, <3>2, CallsTyped
  <2>4. /\ OneLiveLoop' /\ current' \in [Lock -> Thread]
        /\ cancelled' \in [Lock -> [Slot -> BOOLEAN]]
    BY <2>1, StopKeeps DEF IInv
  <2>5. TypeOK'
    BY <2>1, <2>3, <2>4, LockAssumption DEF IInv, TypeOK
  <2>6. Values' /\ KeyLives' /\ LeaseBacked' /\ UserGranted' /\ SlotGranted'
    <3>1. \A m \in Lock : /\ drawn'[m] >= drawn[m] /\ (inside'[m] => inside[m])
                          /\ lease'[m] \in {0, lease[m]}
      BY <2>1 DEF IInv, TypeOK
    <3>2. \A m \in Lock, t \in Thread :
            call'[m][t] = call[m][t] \/ call'[m][t].res \in {"sent", "miss"}
      BY <2>3 DEF Sent
    <3> QED
      BY <2>1, <2>5, <3>1, <3>2, QuietKeeps
  <2>7. UserCalls'
    <3>1. UserCall(l)'
      BY <2>1, <2>3 DEF IInv, TypeOK, UserCall, Sent
    <3> QED
      BY <2>1, <2>3, <3>1, OtherUsers DEF IInv, TypeOK, Thread
  <2>8. SlotCalls'
    BY <2>1, <2>3, LockAssumption DEF IInv, SlotCalls, Thread
  <2>9. Outside'
    BY <2>1 DEF IInv, Outside, TypeOK
  <2> QED
    BY <2>4, <2>5, <2>6, <2>7, <2>8, <2>9 DEF IInv
<1> QED
  BY <1>1, <1>2

(* A process that dies takes its calls and its goroutines with it.         *)
LEMMA CrashKeeps ==
    ASSUME IInv, NEW l \in Lock, Crash(l)
    PROVE  IInv'
<1> USE DEF Crash, redisVars
<1>1. TypeOK'
  <2>1. /\ loop' \in [Lock -> [Slot -> {"none", "wait", "extend", "backoff", "lost"}]]
        /\ cancelled' \in [Lock -> [Slot -> BOOLEAN]]
    BY DEF IInv, TypeOK
  <2>2. tries' \in [Lock -> [Slot -> 0..ExtendTries]]
    <3>1. 0 \in 0..ExtendTries
      BY LockAssumption
    <3> QED
      BY <3>1 DEF IInv, TypeOK
  <2>3. call' \in [Lock -> [Thread -> Call \union {NoCall}]]
    BY DEF IInv, TypeOK
  <2>4. 0 \in 0..TTL /\ 0 \in 0..RetryTimes /\ User \in Thread
    BY LockAssumption DEF Thread
  <2> QED
    BY <2>1, <2>2, <2>3, <2>4 DEF IInv, TypeOK
<1>2. \A m \in Lock, t \in Thread :
        call'[m][t] = IF m = l THEN NoCall ELSE call[m][t]
  BY DEF IInv, TypeOK
<1>3. Values' /\ KeyLives' /\ LeaseBacked' /\ UserGranted' /\ SlotGranted'
  <2>1. \A m \in Lock : /\ drawn'[m] >= drawn[m] /\ (inside'[m] => inside[m])
                        /\ lease'[m] \in {0, lease[m]}
    BY DEF IInv, TypeOK
  <2> QED
    BY <1>1, <1>2, <2>1, QuietKeeps
<1>4. UserCalls'
  <2>1. UserCall(l)'
    BY <1>2 DEF IInv, TypeOK, UserCall, Thread
  <2> QED
    BY <1>2, <2>1, OtherUsers DEF IInv, TypeOK, Thread
<1>5. OneLiveLoop' /\ SlotCalls' /\ Outside'
  BY <1>2 DEF IInv, OneLiveLoop, SlotCalls, Outside, TypeOK, Thread
<1> QED
  BY <1>1, <1>3, <1>4, <1>5 DEF IInv

-----------------------------------------------------------------------------
(* What a step of an auto-extend goroutine does to the types and the loops.*)
SlotMove(l, s, c, w) ==
    /\ call' = [call EXCEPT ![l][s] = c] /\ loop' = [loop EXCEPT ![l][s] = w]
    /\ loop[l][s] # "none" /\ tries' \in [Lock -> [Slot -> 0..ExtendTries]]
    /\ UNCHANGED cancelled \/ cancelled' = [cancelled EXCEPT ![l][s] = TRUE]
    /\ UNCHANGED <<redisVars, value, drawn, current, userVars>>
    /\ IF w = "extend" THEN c = Sent("extend", value[l]) ELSE c = NoCall

(* A step of an auto-extension goroutine, the key and the value aside.     *)
LEMMA SlotMoves ==
    ASSUME IInv, NEW l \in Lock, NEW s \in Slot, NEW c, NEW w \in Loop, SlotMove(l, s, c, w),
           acquired' \in [Lock -> BOOLEAN], lease' \in [Lock -> 0..TTL]
    PROVE  /\ TypeOK' /\ OneLiveLoop' /\ UserCalls' /\ SlotCalls' /\ Values' /\ KeyLives'
           /\ UserGranted' /\ SlotGranted'
           /\ UNCHANGED lease => IInv'
<1>1. /\ UNCHANGED <<key, pttl, value, drawn, current, user, retries, inside>>
      /\ UNCHANGED cancelled \/ cancelled' = [cancelled EXCEPT ![l][s] = TRUE]
      /\ loop' = [loop EXCEPT ![l][s] = w] /\ loop[l][s] # "none"
      /\ tries' \in [Lock -> [Slot -> 0..ExtendTries]]
  BY DEF SlotMove, redisVars, userVars
<1>2. /\ c \in Call \union {NoCall} /\ (c = NoCall \/ c.res = "sent")
      /\ IF w = "extend" THEN c.op = "extend" /\ c.val = value[l] ELSE c = NoCall
  <2>1. value[l] \in Value
    BY DEF IInv, TypeOK
  <2> QED
    BY <2>1, SentTyped DEF SlotMove, Sent
<1>3. /\ call' \in [Lock -> [Thread -> Call \union {NoCall}]]
      /\ call'[l][s] = c /\ s \in Thread /\ s # User
      /\ \A m \in Lock, t \in Thread : m # l \/ t # s => call'[m][t] = call[m][t]
  <2>1. s \in Thread /\ s # User
    BY LockAssumption DEF Thread
  <2>2. TypeOK /\ Becomes(l, s, c)
    BY DEF IInv, SlotMove, Becomes
  <2> QED
    BY <1>2, <2>1, <2>2, CallsTyped
<1>4. TypeOK'
  <2>1. loop' \in [Lock -> [Slot -> {"none", "wait", "extend", "backoff", "lost"}]]
    BY <1>1 DEF IInv, TypeOK, Loop
  <2>2. cancelled' \in [Lock -> [Slot -> BOOLEAN]]
    <3>1. cancelled \in [Lock -> [Slot -> BOOLEAN]]
      BY DEF IInv, TypeOK
    <3>2. CASE cancelled' = [cancelled EXCEPT ![l][s] = TRUE]
      BY <3>1, <3>2
    <3> QED
      BY <1>1, <3>1, <3>2
  <2> QED
    BY <1>1, <1>3, <2>1, <2>2 DEF IInv, TypeOK
<1>5. OneLiveLoop'
  <2> SUFFICES ASSUME NEW m \in Lock, NEW u \in Slot, loop'[m][u] # "none", ~cancelled'[m][u]
               PROVE  current[m] = u
    BY <1>1 DEF OneLiveLoop
  <2>1. loop[m][u] # "none"
    BY <1>1 DEF IInv, TypeOK
  <2>2. ~cancelled[m][u]
    BY <1>1 DEF IInv, TypeOK
  <2> QED
    BY <2>1, <2>2 DEF IInv, OneLiveLoop
<1>6. UserCalls'
  <2>1. \A m \in Lock : call'[m][User] = call[m][User]
    BY <1>3 DEF Thread
  <2> QED
    BY <1>1, <2>1 DEF IInv, UserCalls, UserCall
<1>7. SlotCalls'
  <2> SUFFICES ASSUME NEW m \in Lock, NEW u \in Slot
               PROVE  IF loop'[m][u] = "extend"
                      THEN /\ call'[m][u].op = "extend"
                           /\ call'[m][u].val.lock = m /\ call'[m][u].val.n <= value[m].n
                      ELSE call'[m][u] = NoCall
    BY <1>1 DEF SlotCalls
  <2>1. CASE m = l /\ u = s
    <3>1. value[l].lock = l /\ value[l].n \in Nat /\ loop'[l][s] = w
      BY <1>1 DEF IInv, TypeOK, Values, Value
    <3> QED
      BY <1>2, <1>3, <2>1, <3>1
  <2>2. CASE m # l \/ u # s
    <3>1. loop'[m][u] = loop[m][u] /\ call'[m][u] = call[m][u]
      BY <1>1, <1>3, <2>2 DEF IInv, TypeOK, Thread
    <3> QED
      BY <3>1 DEF IInv, SlotCalls
  <2> QED
    BY <2>1, <2>2
<1>8. Values' /\ KeyLives'
  BY <1>1 DEF IInv, Values, KeyLives
<1>9. UserGranted'
  BY <1>1, <1>3 DEF IInv, UserGranted, Granted, Thread
<1>10. SlotGranted'
  <2> SUFFICES ASSUME NEW m \in Lock, NEW u \in Slot, Served(call'[m][u]), call'[m][u].val = value[m],
                      ~Granted(call[m][u])'
               PROVE  /\ ~inside[m] /\ key # value[m]
                      /\ ~(call'[m][User].op = "extend" /\ call'[m][User].res = "ok")
    BY <1>1 DEF SlotGranted
  <2>1. ~(m = l /\ u = s)
    BY <1>2, <1>3, NoCallTyped DEF Served
  <2>2. call'[m][u] = call[m][u] /\ call'[m][User] = call[m][User]
    BY <1>3, <2>1 DEF Thread
  <2> QED
    BY <1>1, <2>2 DEF IInv, SlotGranted, Granted
<1>11. UNCHANGED lease => Outside' /\ LeaseBacked'
  BY <1>1 DEF IInv, Outside, LeaseBacked
<1> QED
  BY <1>4, <1>5, <1>6, <1>7, <1>8, <1>9, <1>10, <1>11 DEF IInv

(* The auto-extension goroutine.                                           *)
LEMMA LoopKeeps ==
    ASSUME IInv, NEW l \in Lock, NEW s \in Slot, LoopStep(l, s) \/ LoopContextEnds(l, s)
    PROVE  IInv'
<1> USE DEF Send, Return, Goto, Exit
<1>1. /\ TypeOK /\ l \in Lock /\ {"wait", "extend", "backoff", "lost", "none"} = Loop
      /\ acquired \in [Lock -> BOOLEAN] /\ lease \in [Lock -> 0..TTL]
      /\ tries \in [Lock -> [Slot -> 0..ExtendTries]]
      /\ 0 \in 0..ExtendTries /\ 1 \in 0..ExtendTries
  BY LockAssumption DEF IInv, TypeOK, Loop
<1>2. loop[l][s] # "extend" => call[l][s] = NoCall /\ call = [call EXCEPT ![l][s] = NoCall]
  BY <1>1 DEF IInv, SlotCalls, TypeOK, Thread
<1>3. CASE LoopTick(l, s)
  <2>1. SlotMove(l, s, Sent("extend", value[l]), "extend")
    BY <1>1, <1>3 DEF LoopTick, SlotMove, lockVars
  <2> QED
    BY <1>1, <1>3, <2>1, SlotMoves DEF LoopTick, lockVars
<1>4. CASE LoopStops(l, s)
  <2>1. SlotMove(l, s, NoCall, "none")
    BY <1>1, <1>2, <1>4 DEF LoopStops, SlotMove, lockVars
  <2> QED
    BY <1>1, <1>4, <2>1, SlotMoves DEF LoopStops, lockVars
<1>5. CASE BackoffOver(l, s)
  <2>1. CASE tries[l][s] < ExtendTries /\ Send(l, s, "extend", value[l])
             /\ Goto(l, s, "extend") /\ tries' = [tries EXCEPT ![l][s] = @ + 1]
    <3>1. tries' \in [Lock -> [Slot -> 0..ExtendTries]]
      BY <1>1, <2>1, LockAssumption
    <3>2. SlotMove(l, s, Sent("extend", value[l]), "extend")
      BY <1>5, <2>1, <3>1 DEF BackoffOver, SlotMove, lockVars
    <3> QED
      BY <1>1, <1>5, <3>2, SlotMoves DEF BackoffOver, lockVars
  <2>2. CASE Goto(l, s, "lost") /\ tries' = [tries EXCEPT ![l][s] = 0] /\ UNCHANGED call
    <3>1. SlotMove(l, s, NoCall, "lost")
      BY <1>1, <1>2, <1>5, <2>2 DEF BackoffOver, SlotMove, lockVars
    <3> QED
      BY <1>1, <1>5, <3>1, SlotMoves DEF BackoffOver, lockVars
  <2> QED
    BY <1>5, <2>1, <2>2 DEF BackoffOver
<1>6. CASE OnLockLostIfAcquired(l, s)
  <2>1. SlotMove(l, s, NoCall, "none")
    BY <1>1, <1>2, <1>6 DEF OnLockLostIfAcquired, SlotMove
  <2>2. acquired' \in [Lock -> BOOLEAN]
    BY <1>1, <1>6 DEF OnLockLostIfAcquired
  <2> QED
    BY <1>1, <1>6, <2>1, <2>2, SlotMoves DEF OnLockLostIfAcquired
<1>7. CASE ExtendReturn(l, s)
  <2> USE DEF AfterMiss
  <2>1. ASSUME UNCHANGED lease PROVE IInv'
    <3>1. PICK w \in {"wait", "lost", "backoff", "none"} :
            /\ loop' = [loop EXCEPT ![l][s] = w]
            /\ tries' = tries \/ tries' = [tries EXCEPT ![l][s] = 0]
            /\ UNCHANGED cancelled \/ cancelled' = [cancelled EXCEPT ![l][s] = TRUE]
      BY <1>7 DEF ExtendReturn
    <3>2. tries' \in [Lock -> [Slot -> 0..ExtendTries]]
      <4>1. CASE tries' = [tries EXCEPT ![l][s] = 0]
        BY <1>1, <4>1
      <4> QED
        BY <1>1, <3>1, <4>1
    <3>3. loop[l][s] # "none" /\ w # "extend"
      BY <1>7, <3>1 DEF ExtendReturn
    <3>4. SlotMove(l, s, NoCall, w)
      BY <1>7, <3>1, <3>2, <3>3 DEF ExtendReturn, SlotMove, lockVars
    <3> QED
      BY <1>1, <1>7, <2>1, <3>4, SlotMoves DEF ExtendReturn, lockVars
  <2>2. ASSUME /\ Answered(l, s, "ok") /\ Goto(l, s, "wait") /\ tries' = [tries EXCEPT ![l][s] = 0]
               /\ inside[l] /\ call[l][s].val = value[l] /\ lease[l] < TTL - call[l][s].age
               /\ lease' = [lease EXCEPT ![l] = TTL - call[l][s].age]
               /\ UNCHANGED cancelled
        PROVE  IInv'
    <3>1. SlotMove(l, s, NoCall, "wait")
      BY <1>1, <1>7, <2>2 DEF ExtendReturn, SlotMove, lockVars
    <3>2. /\ call[l][s] \in Call /\ call[l][s].age \in 0..TTL
          /\ Served(call[l][s]) /\ call[l][s].age < TTL /\ TTL \in Nat
      <4>1. call[l][s] \in Call
        BY <2>2, NoCallTyped DEF Answered, IInv, TypeOK, Thread
      <4>2. call[l][s].op = "extend"
        BY <1>7 DEF IInv, SlotCalls, ExtendReturn
      <4> QED
        BY <1>1, <2>2, <4>1, <4>2, LockAssumption DEF Answered, Served, Call
    <3>3. lease' \in [Lock -> 0..TTL]
      BY <1>1, <2>2, <3>2
    <3>4. /\ TypeOK' /\ OneLiveLoop' /\ UserCalls' /\ SlotCalls' /\ Values' /\ KeyLives'
          /\ UserGranted' /\ SlotGranted'
      BY <1>1, <1>7, <3>1, <3>3, SlotMoves DEF ExtendReturn, lockVars
    <3>5. Granted(call[l][s])
      BY <2>2, <3>2 DEF IInv, SlotGranted
    <3>6. LeaseBacked'
      BY <1>1, <1>7, <2>2, <3>5 DEF IInv, LeaseBacked, Granted, ExtendReturn, redisVars, lockVars
    <3>7. Outside'
      BY <1>1, <1>7, <2>2 DEF IInv, Outside, ExtendReturn, userVars
    <3> QED
      BY <3>4, <3>6, <3>7 DEF IInv
  <2> QED
    BY <1>7, <2>1, <2>2 DEF ExtendReturn
<1>8. CASE LoopContextEnds(l, s)
  <2>1. cancelled' \in [Lock -> [Slot -> BOOLEAN]]
    BY <1>1, <1>8 DEF LoopContextEnds, TypeOK
  <2>2. \A m \in Lock, u \in Slot : ~cancelled'[m][u] => ~cancelled[m][u]
    BY <1>1, <1>8 DEF LoopContextEnds, TypeOK
  <2>3. UNCHANGED <<key, pttl, value, drawn, acquired, current, user, retries, inside, lease,
                    loop, tries, call>>
    BY <1>8 DEF LoopContextEnds, redisVars, lockVars, userVars, loopVars
  <2> QED
    BY <2>1, <2>2, <2>3 DEF IInv, TypeOK, OneLiveLoop, UserCalls, UserCall, SlotCalls, Values,
        Outside, KeyLives, LeaseBacked, UserGranted, SlotGranted, Granted
<1> QED
  BY <1>3, <1>4, <1>5, <1>6, <1>7, <1>8 DEF LoopStep

-----------------------------------------------------------------------------
(* Nothing a lock, its goroutines, a crash, the server or time does breaks *)
(* IInv.                                                                   *)
LEMMA NextKeeps == IInv /\ [Next]_vars => IInv'
<1> SUFFICES ASSUME IInv, [Next]_vars PROVE IInv'
  OBVIOUS
<1>1. ASSUME NEW l \in Lock, UserStep(l) \/ Crash(l) PROVE IInv'
  BY <1>1, AcquireKeeps, ReleaseKeeps, CrashKeeps DEF UserStep
<1>2. ASSUME NEW l \in Lock, NEW s \in Slot, LoopStep(l, s) \/ LoopContextEnds(l, s) PROVE IInv'
  BY <1>2, LoopKeeps
<1>3. ASSUME NEW l \in Lock, NEW t \in Thread, Serve(l, t) PROVE IInv'
  BY <1>3, ServeKeeps
<1>4. CASE Tick
  BY <1>4, TickKeeps
<1>5. CASE UNCHANGED vars
  BY <1>5 DEF vars, redisVars, lockVars, userVars, loopVars, IInv, TypeOK, OneLiveLoop, UserCalls,
              UserCall, SlotCalls, Values, Outside, KeyLives, LeaseBacked, UserGranted, SlotGranted,
              Granted
<1> QED
  BY <1>1, <1>2, <1>3, <1>4, <1>5 DEF Next

(* IInv holds in every state of every behaviour.                           *)
THEOREM Invariance == Spec => []IInv
<1> QED
  BY InitIInv, NextKeeps, PTL DEF Spec, Safety

(* Whoever got the lock and has not called Release can count on the key    *)
(* having its value for TTL from the moment the last successful command    *)
(* was sent (lock.go:88-148, 222-350).                                     *)
THEOREM LeaseIsBacked == Spec => []LeaseBacked
<1>1. IInv => LeaseBacked
  BY DEF IInv
<1> QED
  BY <1>1, Invariance, PTL

(* So two users never count on the lock at once, whatever fails, is late   *)
(* or crashes (lock.go:88-148, 222-350).                                   *)
THEOREM Exclusion == Spec => []MutualExclusion
<1>1. IInv => MutualExclusion
  BY DEF IInv, LeaseBacked, Values, MutualExclusion
<1> QED
  BY <1>1, Invariance, PTL

(* And an instance never has two live auto-extensions (lock.go:150-190).   *)
THEOREM OneLoop == Spec => []Inv
<1>1. IInv => Inv
  BY DEF IInv, Inv
<1> QED
  BY <1>1, Invariance, PTL

(* What the instances have asked for, before and after a step.             *)
LEMMA AskedTyped ==
    ASSUME TypeOK PROVE  Asked \in [Lock -> [Thread -> Lease!Wish]]
<1>1. \A l \in Lock, t \in Thread : Wish(call[l][t]) \in Lease!Wish
  BY DEF TypeOK, Wish, Lease!Wish, Call, NoCall
<1> QED
  BY <1>1 DEF Asked

(* An instance at work changes its own requests and leaves the key alone;  *)
(* it never touches the commands of another one.                           *)
LEMMA OwnRequests ==
    ASSUME TypeOK, TypeOK', NEW l \in Lock, UNCHANGED <<key, pttl>>,
           \A m \in Lock \ {l} : call'[m] = call[m]
    PROVE  Lease!Next
<1>1. Asked' \in [Lock -> [Thread -> Lease!Wish]]
  <2>1. \A m \in Lock, t \in Thread : Wish(call'[m][t]) \in Lease!Wish
    BY DEF TypeOK, Wish, Lease!Wish, Call, NoCall
  <2>2. Asked' = [m \in Lock |-> [t \in Thread |-> Wish(call'[m][t])]]
    BY DEF Asked, Wish
  <2> QED
    BY <2>1, <2>2
<1>2. \A m \in Lock \ {l} : Asked'[m] = Asked[m]
  BY DEF Asked, Wish
<1>3. Lease!Request(l)
  BY <1>1, <1>2 DEF Lease!Request
<1> QED
  BY <1>3 DEF Lease!Next

(* The user of an instance, its extension goroutines and its crash concern *)
(* its own commands only.                                                  *)
LEMMA InstanceRefines ==
    ASSUME IInv, IInv', NEW l \in Lock,
           \/ UserStep(l) \/ Crash(l)
           \/ \E s \in Slot : LoopStep(l, s) \/ LoopContextEnds(l, s)
    PROVE  Lease!Next
<1> USE DEF IInv, TypeOK
<1>1. UNCHANGED <<key, pttl>>
  BY DEF UserStep, AcquireCall, ReExtendReturn, SetNXReturn, Retry, RetryCancelled, ReleaseCall,
         ReleaseReturn, Crash, LoopStep, LoopTick, LoopStops, ExtendReturn, BackoffOver,
         OnLockLostIfAcquired, LoopContextEnds, redisVars
<1>2. \A m \in Lock \ {l} : call'[m] = call[m]
  <2>1. CASE UserStep(l)
    BY <2>1 DEF UserStep, AcquireCall, ReExtendReturn, SetNXReturn, Retry, RetryCancelled,
                ReleaseCall, ReleaseReturn, TrySetNX, GiveUp, Send, Return
  <2>2. CASE Crash(l)
    BY <2>2 DEF Crash
  <2>3. CASE \E s \in Slot : LoopStep(l, s) \/ LoopContextEnds(l, s)
    BY <2>3 DEF LoopStep, LoopTick, LoopStops, ExtendReturn, BackoffOver, OnLockLostIfAcquired,
                LoopContextEnds, Send, Return
  <2> QED
    BY <2>1, <2>2, <2>3
<1> QED
  BY <1>1, <1>2, OwnRequests

(* The server grants what the instance whose value the key holds has asked *)
(* for, or nothing.                                                        *)
LEMMA ServeRefines ==
    ASSUME IInv, IInv', NEW l \in Lock, NEW t \in Thread, Serve(l, t)
    PROVE  Lease!Next
<1> DEFINE c == call[l][t]
<1>1. c \in Call /\ c.val \in Value /\ c.val.lock = l
  <2>1. c \in Call /\ c.res = "sent"
    BY NoCallTyped DEF IInv, TypeOK, Serve, Answered, NoCall
  <2>2. CASE t = User
    <3>1. user[l] \in {"reextend", "setnx", "release", "retry"}
      BY <2>1, <2>2, NoCallTyped DEF IInv, UserCalls, UserCall, TypeOK
    <3> QED
      BY <2>1, <2>2, <3>1, OwnValues DEF IInv, Call
  <2>3. CASE t \in Slot
    BY <2>1, <2>3, NoCallTyped DEF IInv, SlotCalls, Call
  <2> QED
    BY <2>2, <2>3 DEF Thread
<1>2. Free.lock = Nobody
  BY DEF Free
<1>3. \A m \in Lock \ {l} : call'[m] = call[m]
  BY DEF Serve, IInv, TypeOK
<1>4. ASSUME NEW r \in {"ok", "miss"}, call' = [call EXCEPT ![l][t].res = r]
      PROVE  /\ Asked[l][t] = (IF c.op = "setnx" THEN "take" ELSE c.op)
             /\ Asked' = [Asked EXCEPT ![l][t] = "nothing"]
  <2>1. c.res = "sent" /\ c.op # "none"
    BY <1>1 DEF Serve, Answered, Call
  <2>2. call'[l][t].res = r
    BY <1>1, <1>4 DEF IInv, TypeOK
  <2>3. Wish(call'[l][t]) = "nothing"
    BY <2>2 DEF Wish
  <2>4. \A m \in Lock, u \in Thread : m # l \/ u # t => call'[m][u] = call[m][u]
    BY <1>4 DEF IInv, TypeOK
  <2>5. Asked' = [m \in Lock |-> [u \in Thread |-> Wish(call'[m][u])]]
    BY DEF Asked, Wish
  <2>6. \A m \in Lock, u \in Thread :
            Asked'[m][u] = IF m = l /\ u = t THEN "nothing" ELSE Asked[m][u]
    BY <2>3, <2>4, <2>5 DEF Asked
  <2>7. /\ Asked \in [Lock -> [Thread -> Lease!Wish]]
        /\ Asked' = [m \in Lock |-> [u \in Thread |-> Asked'[m][u]]]
    BY <2>5, AskedTyped DEF IInv
  <2>8. Asked' = [Asked EXCEPT ![l][t] = "nothing"]
    BY <2>6, <2>7
  <2>9. Asked[l][t] = Wish(c)
    BY DEF Asked
  <2> QED
    BY <2>1, <2>8, <2>9 DEF Wish
<1>5. CASE c.op = "setnx" /\ MaySet(c) /\ key' = c.val /\ pttl' = TTL
           /\ call' = [call EXCEPT ![l][t].res = "ok"]
  <2>1. Lease!Take(l, t)
    BY <1>1, <1>2, <1>4, <1>5 DEF Lease!Take, Lease!Grants, MaySet
  <2> QED
    BY <2>1 DEF Lease!Next
<1>6. CASE c.op = "extend" /\ Matches(c) /\ pttl' = TTL /\ UNCHANGED key
           /\ call' = [call EXCEPT ![l][t].res = "ok"]
  <2>1. Lease!Renew(l, t)
    BY <1>1, <1>4, <1>6 DEF Lease!Renew, Lease!Grants, Matches
  <2> QED
    BY <2>1 DEF Lease!Next
<1>7. CASE c.op = "release" /\ MayDelete(c) /\ key' = Free /\ pttl' = 0
           /\ call' = [call EXCEPT ![l][t].res = "ok"]
  <2>1. Lease!GiveUp(l, t)
    BY <1>1, <1>2, <1>4, <1>7 DEF Lease!GiveUp, Lease!Grants, Matches, MayDelete
  <2> QED
    BY <2>1 DEF Lease!Next
<1>8. CASE UNCHANGED redisVars
  BY <1>3, <1>8, OwnRequests DEF redisVars, IInv
<1> QED
  BY <1>5, <1>6, <1>7, <1>8 DEF Serve

(* Time passes in the abstract lock too, and asks for nothing.             *)
LEMMA TickRefines ==
    ASSUME IInv, Tick PROVE  [Lease!Next]_(Lease!vars)
<1>1. pttl \in 0..TTL /\ TTL \in Nat /\ key \in Value \union {Free}
  BY LockAssumption DEF IInv, TypeOK
<1>2. Free.lock = Nobody
  BY DEF Free
<1>3. /\ pttl' = IF pttl > 0 THEN pttl - 1 ELSE 0
      /\ key' = IF pttl' = 0 THEN Free ELSE key
  BY DEF Tick
<1>4. UNCHANGED Asked
  <2>1. \A l \in Lock, t \in Thread : call'[l][t].op = call[l][t].op
                                     /\ (call[l][t].op # "none" => call'[l][t].res = call[l][t].res)
    <3> SUFFICES ASSUME NEW l \in Lock, NEW t \in Thread
                 PROVE  call'[l][t].op = call[l][t].op
                        /\ (call[l][t].op # "none" => call'[l][t].res = call[l][t].res)
      OBVIOUS
    <3>1. call'[l][t] = IF call[l][t].op \in {"setnx", "extend"} /\ call[l][t].age < TTL
                        THEN [call[l][t] EXCEPT !.age = @ + 1] ELSE call[l][t]
      BY DEF Tick
    <3>2. call[l][t] \in Call \union {NoCall}
      BY DEF IInv, TypeOK
    <3> QED
      BY <3>1, <3>2 DEF Call, NoCall
  <2>2. \A l \in Lock, t \in Thread : Wish(call'[l][t]) = Wish(call[l][t])
    BY <2>1 DEF Wish
  <2>3. Asked' = [m \in Lock |-> [u \in Thread |-> Wish(call'[m][u])]]
    BY DEF Asked, Wish
  <2> QED
    BY <2>2, <2>3 DEF Asked
<1>5. CASE key = Free
  BY <1>3, <1>4, <1>5 DEF IInv, KeyLives, Lease!vars
<1>6. CASE key # Free
  <2>1. pttl # 0 /\ key.lock # Nobody
    BY <1>1, <1>6, LockAssumption DEF IInv, KeyLives, Value
  <2>2. Lease!Elapse
    BY <1>1, <1>2, <1>3, <1>4, <2>1 DEF Lease!Elapse
  <2> QED
    BY <2>2 DEF Lease!Next
<1> QED
  BY <1>5, <1>6

(* The key is a lease lock (LeaseLock): an instance takes it only when it  *)
(* is free, and only a command of the instance that holds it renews or     *)
(* deletes it (lock.go:88-148, 307-340).                                   *)
THEOREM LockIsLease == Spec => ImplementsLease
<1>1. Init => Lease!Init
  BY DEF Init, Lease!Init, Free, Asked, Wish, NoCall
<1>2. IInv /\ IInv' /\ [Next]_vars => [Lease!Next]_(Lease!vars)
  <2> SUFFICES ASSUME IInv, IInv', [Next]_vars PROVE [Lease!Next]_(Lease!vars)
    OBVIOUS
  <2>1. CASE UNCHANGED vars
    BY <2>1 DEF vars, redisVars, Lease!vars, Asked, Wish
  <2> QED
    BY <2>1, InstanceRefines, ServeRefines, TickRefines DEF Next
<1> QED
  BY <1>1, <1>2, Invariance, PTL DEF Spec, Safety, ImplementsLease, Lease!Spec
=============================================================================
