----------------------------- MODULE RedisLock ------------------------------
(***************************************************************************)
(* cache/redis.Lock (src/cache/redis/lock.go): Lock instances contending   *)
(* for one Redis key.  Each instance has one user goroutine that acquires  *)
(* and releases (acquireMu makes the acquisitions of an instance           *)
(* sequential) and the auto-extend goroutines its acquisitions start, of   *)
(* which an old one may still be in a call when the next one starts.       *)
(*                                                                         *)
(* Redis commands are calls that may fail before or after the server ran   *)
(* them.  Time passes in ticks of the key's time to live; the ticker, the  *)
(* back-off, the lifetime limit and ctx fire at any moment.                *)
(***************************************************************************)
EXTENDS Integers

CONSTANTS
    Lock,       \* Lock instances for the key, each in a process of its own
    Slot,       \* names for the auto-extend goroutines an instance may have
    TTL,        \* Lock.ttl, in ticks
    RetryTimes, \* LockOption.RetryTimes
    ExtendTries,\* attempts of tryExtend (3 in the code)
    AutoExtend, \* [Lock -> BOOLEAN]: LockOption.AutoExtend
    MaxValue,   \* [Lock -> Nat]: bound on the values (uuids) an instance draws
    User,       \* names the user goroutine among the threads of an instance
    Nobody      \* no client, no value

ASSUME LockAssumption ==
    /\ TTL \in Nat \ {0}
    /\ RetryTimes \in Nat
    /\ ExtendTries \in Nat \ {0}
    /\ AutoExtend \in [Lock -> BOOLEAN]
    /\ MaxValue \in [Lock -> Nat]
    /\ User \notin Slot
    /\ Nobody \notin Lock

(* A value is the instance that drew it and a number: uuids never repeat.  *)
(* Number 0 is the value NewLock draws, which is never written.            *)
Thread == Slot \union {User}
Value == [lock : Lock, n : Nat]
Free == [lock |-> Nobody, n |-> 0]
NoCall == [op |-> "none"]

VARIABLES
    key,        \* the value the Redis key holds, or Free
    pttl,       \* the time to live left on the key
    value,      \* Lock.value
    drawn,      \* how many values the instance has drawn
    acquired,   \* Lock.acquired
    current,    \* the goroutine whose cancel is in Lock.extendCancel, or User
    user,       \* what the user goroutine is doing
    retries,    \* SetNX attempts made by the running AcquireWithOption
    inside,     \* the user got the lock and has not called Release since
    lease,      \* time for which the user may count on the lock: TTL from the
                \* moment the last successful command was sent
    loop,       \* what each auto-extend goroutine is doing
    tries,      \* Extend attempts made by the running tryExtend
    cancelled,  \* the goroutine's context is done (TRUE of a free slot)
    call        \* the Redis command each thread has in flight

redisVars == <<key, pttl>>
lockVars  == <<value, drawn, acquired>>
userVars  == <<user, retries, inside>>
loopVars  == <<loop, tries>>
vars == <<redisVars, lockVars, current, userVars, lease, loopVars, cancelled, call>>

Init ==
    /\ key = Free /\ pttl = 0
    /\ value = [l \in Lock |-> [lock |-> l, n |-> 0]]
    /\ drawn = [l \in Lock |-> 0]
    /\ acquired = [l \in Lock |-> FALSE]
    /\ current = [l \in Lock |-> User]
    /\ user = [l \in Lock |-> "idle"]
    /\ retries = [l \in Lock |-> 0]
    /\ inside = [l \in Lock |-> FALSE]
    /\ lease = [l \in Lock |-> 0]
    /\ loop = [l \in Lock |-> [s \in Slot |-> "none"]]
    /\ tries = [l \in Lock |-> [s \in Slot |-> 0]]
    /\ cancelled = [l \in Lock |-> [s \in Slot |-> TRUE]]
    /\ call = [l \in Lock |-> [t \in Thread |-> NoCall]]

-----------------------------------------------------------------------------
(* Commands.  A call is "sent", then served: "ok", or "miss" when the      *)
(* script or SETNX found another value.  It may fail at any moment, before *)
(* the server runs it or after: the network, a timeout, ctx.  A command    *)
(* whose caller has given up is not run later.  age is the time since it   *)
(* was sent.                                                               *)
Sent(op, v) == [op |-> op, val |-> v, res |-> "sent", age |-> 0]
Answered(l, t, r) == call[l][t].op # "none" /\ call[l][t].res = r
Fails(l, t) == call[l][t].op # "none"
Send(l, t, op, v) == call' = [call EXCEPT ![l][t] = Sent(op, v)]
Return(l, t) == call' = [call EXCEPT ![l][t] = NoCall]

(* What the server does with a command: SET NX PX, and the two scripts,    *)
(* which compare the value before PEXPIRE or DEL.                          *)
BlindExtend(c) == key # Free       \* mutant: PEXPIRE without the comparison
Matches(c) == key = c.val
BlindDelete(c) == key # Free       \* mutant: DEL without the comparison
MayDelete(c) == Matches(c)
MaySet(c) == key = Free

Serve(l, t) ==
    LET c == call[l][t] IN
    /\ Answered(l, t, "sent")
    /\ \/ /\ c.op = "setnx" /\ MaySet(c)
          /\ key' = c.val /\ pttl' = TTL
          /\ call' = [call EXCEPT ![l][t].res = "ok"]
       \/ /\ c.op = "extend" /\ Matches(c)
          /\ pttl' = TTL
          /\ call' = [call EXCEPT ![l][t].res = "ok"]
          /\ UNCHANGED key
       \/ /\ c.op = "release" /\ MayDelete(c)
          /\ key' = Free /\ pttl' = 0
          /\ call' = [call EXCEPT ![l][t].res = "ok"]
       \/ /\ \/ c.op = "setnx" /\ ~MaySet(c)
             \/ c.op = "extend" /\ ~Matches(c)
             \/ c.op = "release" /\ ~MayDelete(c)
          /\ call' = [call EXCEPT ![l][t].res = "miss"]
          /\ UNCHANGED redisVars
    /\ UNCHANGED <<lockVars, current, userVars, lease, loopVars, cancelled>>

(* Time passes: the key expires, leases run out.                           *)
Tick ==
    /\ pttl' = IF pttl > 0 THEN pttl - 1 ELSE 0
    /\ key' = IF pttl' = 0 THEN Free ELSE key
    /\ lease' = [l \in Lock |-> IF lease[l] > 0 THEN lease[l] - 1 ELSE 0]
    /\ call' = [l \in Lock |-> [t \in Thread |->
                 IF call[l][t].op \in {"setnx", "extend"} /\ call[l][t].age < TTL
                 THEN [call[l][t] EXCEPT !.age = @ + 1] ELSE call[l][t]]]
    /\ UNCHANGED <<lockVars, current, userVars, loopVars, cancelled>>

-----------------------------------------------------------------------------
(* startAutoExtend and stopAutoExtend: the previous goroutine's context is *)
(* cancelled; it notices when its call returns.  A new goroutine takes a   *)
(* free slot.                                                              *)
KeepPrevious(l) == cancelled[l]    \* mutant: start does not stop the old one
Stopped(l) == [s \in Slot |-> cancelled[l][s] \/ s = current[l]]

StopAutoExtend(l) ==
    /\ cancelled' = [cancelled EXCEPT ![l] = Stopped(l)]
    /\ current' = [current EXCEPT ![l] = User]

StartAutoExtend(l) ==
    \E s \in Slot :
        /\ loop[l][s] = "none"
        /\ cancelled' = [cancelled EXCEPT ![l] = [Stopped(l) EXCEPT ![s] = FALSE]]
        /\ current' = [current EXCEPT ![l] = s]
        /\ loop' = [loop EXCEPT ![l][s] = "wait"]
        /\ UNCHANGED tries

(* Acquired: AcquireWithOption returns nil with value v.                   *)
Acquired(l, c) ==
    /\ IF AutoExtend[l]
       THEN StartAutoExtend(l)
       ELSE StopAutoExtend(l) /\ UNCHANGED loopVars
    /\ user' = [user EXCEPT ![l] = "idle"]
    /\ inside' = [inside EXCEPT ![l] = TRUE]
    /\ lease' = [lease EXCEPT ![l] = TTL - c.age]
    /\ retries' = [retries EXCEPT ![l] = 0]

GiveUp(l) ==
    /\ user' = [user EXCEPT ![l] = "idle"]
    /\ retries' = [retries EXCEPT ![l] = 0]
    /\ Return(l, User)

(* A fresh uuid, then the first SetNX of the retry loop; with RetryTimes 0 *)
(* the acquisition fails at once.                                          *)
TrySetNX(l) ==
    /\ drawn[l] < MaxValue[l]
    /\ drawn' = [drawn EXCEPT ![l] = @ + 1]
    /\ acquired' = [acquired EXCEPT ![l] = FALSE]
    /\ IF RetryTimes > 0
       THEN /\ Send(l, User, "setnx", [lock |-> l, n |-> drawn'[l]])
            /\ user' = [user EXCEPT ![l] = "setnx"]
            /\ retries' = [retries EXCEPT ![l] = 1]
       ELSE /\ Return(l, User)
            /\ user' = [user EXCEPT ![l] = "idle"]
            /\ UNCHANGED retries

(* AcquireWithOption: an instance that thinks it holds the lock first      *)
(* extends it.                                                             *)
AcquireCall(l) ==
    /\ user[l] = "idle"
    /\ IF acquired[l]
       THEN /\ Send(l, User, "extend", value[l])
            /\ user' = [user EXCEPT ![l] = "reextend"]
            /\ UNCHANGED <<lockVars, retries>>
       ELSE TrySetNX(l) /\ UNCHANGED value
    /\ UNCHANGED <<redisVars, current, inside, lease, loopVars, cancelled>>

ReExtendReturn(l) ==
    /\ user[l] = "reextend"
    /\ \/ /\ Answered(l, User, "ok")
          /\ Acquired(l, call[l][User])
          /\ Return(l, User)
          /\ UNCHANGED lockVars
       \/ /\ Fails(l, User)
          /\ user' = [user EXCEPT ![l] = "idle"]
          /\ Return(l, User)
          /\ UNCHANGED <<lockVars, current, retries, inside, lease, loopVars, cancelled>>
       \/ /\ Answered(l, User, "miss")
          /\ TrySetNX(l)
          /\ UNCHANGED <<value, current, inside, lease, loopVars, cancelled>>
    /\ UNCHANGED redisVars

SetNXReturn(l) ==
    /\ user[l] = "setnx"
    /\ \/ /\ Answered(l, User, "ok")
          /\ value' = [value EXCEPT ![l] = call[l][User].val]
          /\ acquired' = [acquired EXCEPT ![l] = TRUE]
          /\ Acquired(l, call[l][User])
          /\ Return(l, User)
       \/ /\ Fails(l, User)
          /\ GiveUp(l)
          /\ UNCHANGED <<value, acquired, current, inside, lease, loopVars, cancelled>>
       \/ /\ Answered(l, User, "miss")
          /\ user' = [user EXCEPT ![l] = "retry"]
          /\ UNCHANGED <<value, acquired, current, retries, inside, lease, loopVars, cancelled, call>>
    /\ UNCHANGED <<redisVars, drawn>>

(* The select after a failed SetNX: RetryDelay, which ends with the next   *)
(* attempt or with ErrLockFailed, or ctx.Done.                             *)
MayRetry(l) == retries[l] < RetryTimes

Retry(l) ==
    /\ user[l] = "retry"
    /\ IF MayRetry(l)
       THEN /\ Send(l, User, "setnx", call[l][User].val)
            /\ user' = [user EXCEPT ![l] = "setnx"]
            /\ retries' = [retries EXCEPT ![l] = @ + 1]
            /\ UNCHANGED acquired
       ELSE /\ GiveUp(l)
            /\ acquired' = [acquired EXCEPT ![l] = FALSE]
    /\ UNCHANGED <<redisVars, value, drawn, current, inside, lease, loopVars, cancelled>>

RetryCancelled(l) ==
    /\ user[l] = "retry"
    /\ GiveUp(l)
    /\ UNCHANGED <<redisVars, lockVars, current, inside, lease, loopVars, cancelled>>

(* Release stops the auto-extension, then deletes the key if it still has  *)
(* the value.  acquired is left as it is, whatever the answer.             *)
ReleaseCall(l) ==
    /\ user[l] = "idle"
    /\ inside[l] \/ acquired[l]
    /\ StopAutoExtend(l)
    /\ Send(l, User, "release", value[l])
    /\ user' = [user EXCEPT ![l] = "release"]
    /\ inside' = [inside EXCEPT ![l] = FALSE]
    /\ lease' = [lease EXCEPT ![l] = 0]
    /\ UNCHANGED <<redisVars, lockVars, retries, loopVars>>

ReleaseReturn(l) ==
    /\ user[l] = "release"
    /\ Fails(l, User) \/ Answered(l, User, "ok") \/ Answered(l, User, "miss")
    /\ user' = [user EXCEPT ![l] = "idle"]
    /\ Return(l, User)
    /\ UNCHANGED <<redisVars, lockVars, current, retries, inside, lease, loopVars, cancelled>>

(* The process dies with its goroutines, its memory and its connections.   *)
Crash(l) ==
    /\ user[l] # "dead"
    /\ user' = [user EXCEPT ![l] = "dead"]
    /\ acquired' = [acquired EXCEPT ![l] = FALSE]
    /\ retries' = [retries EXCEPT ![l] = 0]
    /\ inside' = [inside EXCEPT ![l] = FALSE]
    /\ lease' = [lease EXCEPT ![l] = 0]
    /\ loop' = [loop EXCEPT ![l] = [s \in Slot |-> "none"]]
    /\ tries' = [tries EXCEPT ![l] = [s \in Slot |-> 0]]
    /\ cancelled' = [cancelled EXCEPT ![l] = [s \in Slot |-> TRUE]]
    /\ current' = [current EXCEPT ![l] = User]
    /\ call' = [call EXCEPT ![l] = [t \in Thread |-> NoCall]]
    /\ UNCHANGED <<redisVars, value, drawn>>

-----------------------------------------------------------------------------
(* autoExtendLoop and tryExtend.                                           *)
Goto(l, s, where) == loop' = [loop EXCEPT ![l][s] = where]

(* The goroutine leaves; its deferred cancel ends its context.             *)
Exit(l, s) ==
    /\ Goto(l, s, "none")
    /\ tries' = [tries EXCEPT ![l][s] = 0]
    /\ cancelled' = [cancelled EXCEPT ![l][s] = TRUE]

(* The goroutine's context ends without Release: MaxLifetime, or the ctx   *)
(* given to Acquire (unless IgnoreParentCancel).                           *)
NoLifetime(l, s) == FALSE          \* mutant: no MaxLifetime, ctx ignored
LoopContextEnds(l, s) ==
    /\ loop[l][s] # "none"
    /\ ~cancelled[l][s]
    /\ cancelled' = [cancelled EXCEPT ![l][s] = TRUE]
    /\ UNCHANGED <<redisVars, lockVars, current, userVars, lease, loopVars, call>>

(* The ticker: tryExtend's first attempt, with the value Lock has now.     *)
LoopTick(l, s) ==
    /\ loop[l][s] = "wait"
    /\ ~cancelled[l][s]
    /\ Send(l, s, "extend", value[l])
    /\ Goto(l, s, "extend")
    /\ tries' = [tries EXCEPT ![l][s] = 1]
    /\ UNCHANGED <<redisVars, lockVars, current, userVars, lease, cancelled>>

(* Waiting for the ticker or for a back-off, the goroutine sees its        *)
(* context done and leaves, telling nobody.                                *)
LoopStops(l, s) ==
    /\ loop[l][s] \in {"wait", "backoff"}
    /\ cancelled[l][s]
    /\ Exit(l, s)
    /\ UNCHANGED <<redisVars, lockVars, current, userVars, lease, call>>

(* Extend answers.  An answer for the value the user relies on renews the  *)
(* lease.  After an error the goroutine backs off, or leaves silently when *)
(* the error is that its context was cancelled.                            *)
MissIsTransient == "wait"          \* mutant: ErrLockFailed does not end it
AfterMiss == "lost"

ExtendReturn(l, s) ==
    /\ loop[l][s] = "extend"
    /\ Return(l, s)
    /\ \/ /\ Answered(l, s, "ok")
          /\ Goto(l, s, "wait")
          /\ tries' = [tries EXCEPT ![l][s] = 0]
          /\ IF inside[l] /\ call[l][s].val = value[l] /\ lease[l] < TTL - call[l][s].age
             THEN lease' = [lease EXCEPT ![l] = TTL - call[l][s].age]
             ELSE UNCHANGED lease
          /\ UNCHANGED cancelled
       \/ /\ Answered(l, s, "miss")
          /\ Goto(l, s, AfterMiss)
          /\ tries' = [tries EXCEPT ![l][s] = 0]
          /\ UNCHANGED <<lease, cancelled>>
       \/ /\ Fails(l, s)
          /\ Goto(l, s, "backoff")
          /\ UNCHANGED <<lease, tries, cancelled>>
       \/ /\ Fails(l, s) /\ cancelled[l][s]
          /\ Exit(l, s)
          /\ UNCHANGED lease
    /\ UNCHANGED <<redisVars, lockVars, current, userVars>>

(* The back-off timer: another attempt (which a context already done ends  *)
(* at once, as LoopStops does), or the lock counts as lost.                *)
BackoffOver(l, s) ==
    /\ loop[l][s] = "backoff"
    /\ \/ /\ tries[l][s] < ExtendTries
          /\ ~cancelled[l][s]
          /\ Send(l, s, "extend", value[l])
          /\ Goto(l, s, "extend")
          /\ tries' = [tries EXCEPT ![l][s] = @ + 1]
       \/ /\ tries[l][s] = ExtendTries
          /\ Goto(l, s, "lost")
          /\ tries' = [tries EXCEPT ![l][s] = 0]
          /\ UNCHANGED call
    /\ UNCHANGED <<redisVars, lockVars, current, userVars, lease, cancelled>>

(* onLockLostIfAcquired: clears acquired, and calls OnLockLost if it was   *)
(* set.                                                                    *)
OnLockLostIfAcquired(l, s) ==
    /\ loop[l][s] = "lost"
    /\ Exit(l, s)
    /\ acquired' = [acquired EXCEPT ![l] = FALSE]
    /\ UNCHANGED <<redisVars, value, drawn, current, userVars, lease, call>>

-----------------------------------------------------------------------------
UserStep(l) ==
    \/ AcquireCall(l) \/ ReExtendReturn(l) \/ SetNXReturn(l) \/ Retry(l)
    \/ RetryCancelled(l) \/ ReleaseCall(l) \/ ReleaseReturn(l)

LoopStep(l, s) ==
    \/ LoopTick(l, s) \/ LoopStops(l, s) \/ ExtendReturn(l, s)
    \/ BackoffOver(l, s) \/ OnLockLostIfAcquired(l, s)

Next ==
    \/ \E l \in Lock : UserStep(l) \/ Crash(l)
    \/ \E l \in Lock, s \in Slot : LoopStep(l, s) \/ LoopContextEnds(l, s)
    \/ \E l \in Lock, t \in Thread : Serve(l, t)
    \/ Tick

(* A call in progress is served and returns, goroutines that can run do,   *)
(* tickers fire and time passes.  Nobody is obliged to call Acquire or     *)
(* Release, and nothing has to fail.                                       *)
Looping == {l \in Lock : AutoExtend[l]}
UserReturns(l) ==
    Serve(l, User) \/ ReExtendReturn(l) \/ SetNXReturn(l) \/ Retry(l) \/ ReleaseReturn(l)

Fairness ==
    /\ WF_vars(Tick)
    /\ \A l \in Lock : WF_vars(UserReturns(l))
    /\ \A l \in Looping, s \in Slot : WF_vars(Serve(l, s) \/ LoopStep(l, s))

Safety == Init /\ [][Next]_vars
Spec == Safety /\ Fairness

-----------------------------------------------------------------------------
(* TypeOK: types of all the variables.                                     *)
Call == [op : {"setnx", "extend", "release"}, val : Value,
         res : {"sent", "ok", "miss"}, age : 0..TTL]

TypeOK ==
    /\ key \in Value \union {Free}
    /\ pttl \in 0..TTL
    /\ value \in [Lock -> Value]
    /\ drawn \in [Lock -> Nat]
    /\ acquired \in [Lock -> BOOLEAN]
    /\ current \in [Lock -> Thread]
    /\ user \in [Lock -> {"idle", "reextend", "setnx", "retry", "release", "dead"}]
    /\ retries \in [Lock -> 0..RetryTimes]
    /\ inside \in [Lock -> BOOLEAN]
    /\ lease \in [Lock -> 0..TTL]
    /\ loop \in [Lock -> [Slot -> {"none", "wait", "extend", "backoff", "lost"}]]
    /\ tries \in [Lock -> [Slot -> 0..ExtendTries]]
    /\ cancelled \in [Lock -> [Slot -> BOOLEAN]]
    /\ call \in [Lock -> [Thread -> Call \union {NoCall}]]

(* Whoever got the lock and has not called Release can count on it for TTL *)
(* from the moment its last successful SETNX or Extend was sent: the key   *)
(* holds its value at least that long, whatever other instances, failed    *)
(* calls and old auto-extend goroutines do.                                *)
LeaseBacked ==
    \A l \in Lock : lease[l] > 0 => key = value[l] /\ lease[l] <= pttl

(* So two users never count on the lock at the same time.                  *)
MutualExclusion ==
    \A l, m \in Lock : lease[l] > 0 /\ lease[m] > 0 => l = m

(* At most one auto-extend goroutine of an instance is not cancelled, and  *)
(* it is the one the next Release or Acquire will stop.                    *)
OneLiveLoop ==
    \A l \in Lock, s \in Slot :
        loop[l][s] # "none" /\ ~cancelled[l][s] => current[l] = s

(* A loss the running auto-extension can see is noticed: acquired is       *)
(* cleared (and OnLockLost called), unless the user releases or acquires   *)
(* again or the auto-extension reaches the end of its context.             *)
LossIsNoticed ==
    \A l \in Lock, s \in Slot :
        (acquired[l] /\ key # value[l] /\ loop[l][s] # "none" /\ ~cancelled[l][s])
            ~> (~acquired[l] \/ cancelled[l][s] \/ loop[l][s] = "none")

(* No lock is held for ever by a user that forgot it, whatever was left in *)
(* Redis by failed calls and crashes: once nobody calls any more the key   *)
(* goes, provided the context of every auto-extension ends, as MaxLifetime *)
(* makes it do.                                                            *)
LifetimesEnd == \A l \in Looping, s \in Slot : WF_vars(LoopContextEnds(l, s))
NoEternalLock ==
    LifetimesEnd =>
        (<>[](\A l \in Lock : user[l] \in {"idle", "dead"}) => <>[](key = Free))

(* The state is well typed, and a user's acquisition has one live loop     *)
(* however often it released and acquired again (lock.go:150-190).         *)
Inv == TypeOK /\ OneLiveLoop

(* Refinement: the key is a lease lock whose holder is the instance whose  *)
(* value it holds.  An instance has asked for what its goroutines have in  *)
(* flight and the server has not run, so a script that renewed or deleted  *)
(* the value of another instance would be no step of the lease lock.       *)
Wish(c) ==
    IF c.op = "none" \/ c.res # "sent" THEN "nothing"
    ELSE IF c.op = "setnx" THEN "take" ELSE c.op
Asked == [l \in Lock |-> [t \in Thread |-> Wish(call[l][t])]]

Lease == INSTANCE LeaseLock WITH
    Client <- Lock, Session <- Thread, holder <- key.lock, left <- pttl, asked <- Asked

ImplementsLease == Lease!Spec
=============================================================================
