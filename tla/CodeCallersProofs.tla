-------------------------- MODULE CodeCallersProofs --------------------------
(***************************************************************************)
(* For every number of requests, callers and faults and every size of the  *)
(* pool: the callers follow their state machine, no process is left        *)
(* behind, and a caller that is given back has a worker nobody has used.   *)
(***************************************************************************)
EXTENDS CodeCallers, TLAPS

Holder(c)   == holder[c]
Lent(c)     == holder[c] # NoRequest
Callback(c) == caller[c].callback

Quiet(c)    == ~worker[c].input /\ worker[c].answer = "none"

\* _checkState, and which promise each state has.
StateOK(c) ==
  /\ caller[c].child <=> State(c) \notin {"CREATED", "EXITED"}
  /\ caller[c].timer <=> State(c) \in {"IN_CALL", "RESTARTING"}
  /\ State(c) = "IN_CALL" <=> Callback(c) \in {"ping", "call", "restart"}
  /\ State(c) = "RESTARTING" <=> Callback(c) = "confirm"
  /\ State(c) \in {"EXITING", "EXITED"} => Proc(c) \notin Live
  /\ State(c) = "CREATED" => /\ Proc(c) = "none" /\ worker[c].served = {}
                             /\ Quiet(c) /\ ~worker[c].confirm
  /\ c \in running => State(c) = "WAITING"

\* Who has the caller: the pool that creates it, a request, or nobody.
PoolOK(c) ==
  /\ State(c) = "CREATED" => c \notin pooled
  /\ c \in idle \cup unhealthy \cup running => c \in pooled
  /\ c \in idle => ~Lent(c) /\ c \notin running \cup unhealthy /\ Callback(c) = "none"
  /\ c \in unhealthy => ~Lent(c) /\ State(c) \in {"EXITING", "EXITED"}
  /\ Lent(c) => c \in pooled \ (idle \cup unhealthy)
  /\ Callback(c) = "ping" => c \in pooled \ (idle \cup unhealthy) /\ ~Lent(c)
  /\ Callback(c) \in {"call", "restart", "confirm"} => Lent(c)
  /\ Proc(c) \in Live => c \in pooled

\* What is on its way between a caller and the worker behind it.
Unread(c)    == worker[c].input /\ worker[c].answer = "none" /\ Proc(c) = "forked"
InWork(c)    == Quiet(c) /\ Proc(c) = "busy"
Replied(c)   == ~worker[c].input /\ worker[c].answer # "none"
InCall(c)    == Unread(c) \/ InWork(c) \/ (Replied(c) /\ Proc(c) = "forked")
Used(c)      == ~worker[c].confirm /\ worker[c].served \subseteq {Holder(c)} \ {NoRequest}
Renewed(c)   == Proc(c) = "forked" /\ worker[c].served = {}
\* The worker has exited after its answer: the zygote has not confirmed it,
\* has, or the caller has read that.
Renewing(c) ==
  \/ Proc(c) = "leaving" /\ ~worker[c].confirm /\ ~caller[c].confirmed /\ Used(c)
  \/ Renewed(c) /\ worker[c].confirm /\ ~caller[c].confirmed
  \/ Renewed(c) /\ ~worker[c].confirm /\ caller[c].confirmed

FlowOK(c) ==
  Proc(c) \in Live =>
    /\ State(c) = "WAITING" /\ ~(c \in running /\ Lent(c))
         => Quiet(c) /\ Proc(c) = "forked" /\ Used(c)
    /\ State(c) = "WAITING" /\ c \in running /\ Lent(c) => Quiet(c) /\ Renewing(c)
    /\ Callback(c) = "confirm" => Quiet(c) /\ Renewing(c) /\ ~caller[c].confirmed
    /\ Callback(c) = "ping" => Used(c) /\ InCall(c)
    /\ Callback(c) = "call" =>
         /\ worker[c].served \subseteq {Holder(c)} \ {NoRequest}
         /\ \/ Used(c) /\ InCall(c)
            \/ Quiet(c) /\ Proc(c) \in {"hung", "leaving", "forked"}
    /\ Callback(c) = "restart" =>
         \/ Used(c) /\ ~caller[c].confirmed /\ (Unread(c) \/ InWork(c))
         \/ Replied(c) /\ Renewing(c)

\* A worker runs code of one request, before and after it has ended.
ServedOK(c) == \A q, r \in worker[c].served : q = r

CallerOK(c) == StateOK(c) /\ PoolOK(c) /\ FlowOK(c) /\ ServedOK(c)

CInv == TypeOK /\ \A c \in Callers : CallerOK(c)

\* A step that concerns one caller.
OthersStay(c) ==
  \A d \in Callers \ {c} :
    /\ caller'[d] = caller[d] /\ worker'[d] = worker[d] /\ holder'[d] = holder[d]
    /\ d \in running' <=> d \in running
    /\ d \in pooled' <=> d \in pooled
    /\ d \in idle' <=> d \in idle
    /\ d \in unhealthy' <=> d \in unhealthy

-----------------------------------------------------------------------------
(* Lemmas about one caller. *)

LEMMA CallerTyped ==
  ASSUME TypeOK, NEW c \in Callers
  PROVE  /\ caller[c] \in Caller /\ State(c) \in States /\ Callback(c) \in Callbacks
         /\ worker[c] \in Worker /\ Proc(c) \in Processes
         /\ holder[c] \in Requests \cup {NoRequest}
BY DEF TypeOK, Caller, Worker, State, Proc, Callback

LEMMA OtherOK ==
  ASSUME CInv, NEW c \in Callers, OthersStay(c), NEW d \in Callers \ {c}
  PROVE  CallerOK(d)'
<1>1. /\ caller'[d] = caller[d] /\ worker'[d] = worker[d] /\ holder'[d] = holder[d]
      /\ (d \in running' <=> d \in running) /\ (d \in pooled' <=> d \in pooled)
      /\ (d \in idle' <=> d \in idle) /\ (d \in unhealthy' <=> d \in unhealthy)
      /\ CallerOK(d)
  BY DEF CInv, OthersStay
<1>2. StateOK(d)' /\ ServedOK(d)'
  BY <1>1 DEF CallerOK, StateOK, ServedOK, State, Proc, Callback, Quiet
<1>3. PoolOK(d)'
  BY <1>1 DEF CallerOK, PoolOK, State, Proc, Callback, Lent
<1>4. FlowOK(d)'
  BY <1>1 DEF CallerOK, FlowOK, State, Proc, Callback, Lent, Holder, Quiet, Unread, InWork, Replied,
              InCall, Used, Renewed, Renewing
<1>5. QED
  BY <1>2, <1>3, <1>4 DEF CallerOK

LEMMA StepOf ==
  ASSUME CInv, NEW c \in Callers, OthersStay(c), TypeOK', CallerOK(c)'
  PROVE  CInv'
BY OtherOK DEF CInv

\* What a promise that is settled does to the pool.
LEMMA SettledPool ==
  ASSUME TypeOK, NEW c \in Callers, NEW ok \in BOOLEAN, Settled(c, ok)
  PROVE  /\ pooled' \subseteq Callers /\ idle' \subseteq Callers /\ unhealthy' \subseteq Callers
         /\ holder' \in [Callers -> Requests \cup {NoRequest}]
         /\ request' \in [Requests -> {"none", "waiting", "served", "ended"}]
         /\ closing' = closing
         /\ \A d \in Callers \ {c} :
              /\ holder'[d] = holder[d] /\ (d \in pooled' <=> d \in pooled)
              /\ (d \in idle' <=> d \in idle) /\ (d \in unhealthy' <=> d \in unhealthy)
         /\ c \in pooled' <=> c \in pooled /\ ~(Callback(c) = "ping" /\ ~ok)
         /\ c \in idle' <=> c \in idle \/ (Callback(c) \in {"ping", "confirm"} /\ ok)
         /\ c \in unhealthy' <=> c \in unhealthy \/ (Callback(c) \in {"restart", "confirm"} /\ ~ok)
         /\ holder'[c] = IF Callback(c) = "confirm" \/ (Callback(c) = "restart" /\ ~ok)
                           THEN NoRequest ELSE holder[c]
<1>1. CASE Callback(c) = "ping"
  BY <1>1 DEF Settled, TypeOK, Callback
<1>2. CASE (Callback(c) = "restart" /\ ~ok) \/ (Callback(c) = "confirm" /\ ~ok)
  <2>1. Dispose(c)
    BY <1>2 DEF Settled, Callback
  <2>2. QED
    BY <1>2, <2>1 DEF Dispose, Returns, TypeOK
<1>3. CASE Callback(c) = "confirm" /\ ok
  <2>1. Release(c)
    BY <1>3 DEF Settled, Callback
  <2>2. QED
    BY <1>3, <2>1 DEF Release, Returns, TypeOK
<1>4. CASE Callback(c) \notin {"ping", "confirm"} /\ ~(Callback(c) = "restart" /\ ~ok)
  <2>1. UNCHANGED poolVars
    BY <1>4 DEF Settled, Callback
  <2>2. QED
    BY <1>4, <2>1 DEF poolVars, TypeOK
<1>5. QED
  BY <1>1, <1>2, <1>3, <1>4

LEMMA KilledWorker ==
  ASSUME TypeOK, NEW c \in Callers
  PROVE  /\ Killed(c) \in [Callers -> Worker]
         /\ \A d \in Callers \ {c} : Killed(c)[d] = worker[d]
         /\ Killed(c)[c].proc = IF Proc(c) \in Live THEN "killed" ELSE Proc(c)
         /\ Killed(c)[c].served = worker[c].served
         /\ Killed(c)[c].input = worker[c].input /\ Killed(c)[c].answer = worker[c].answer
         /\ Killed(c)[c].confirm = worker[c].confirm
<1>1. worker[c] \in Worker
  BY DEF TypeOK
<1>2. QED
  BY <1>1 DEF TypeOK, Killed, Worker, Processes, Live, Proc

\* A process that ended, and one that is told to, asks nothing of its caller.
LEMMA DeadFlow ==
  ASSUME NEW c \in Callers, Proc(c)' \notin Live
  PROVE  FlowOK(c)'
BY DEF FlowOK

LEMMA InitOK == Init => CInv
<1>1. SUFFICES ASSUME Init PROVE CInv
  OBVIOUS
<1>2. TypeOK
  <2>1. caller \in [Callers -> Caller]
    BY <1>1 DEF Init, Caller, States, Callbacks
  <2>2. worker \in [Callers -> Worker]
    BY <1>1 DEF Init, Worker, Processes
  <2>3. calls \in 0..MaxCalls /\ faults \in 0..MaxFaults
    BY <1>1, CallersAssumption DEF Init
  <2>4. /\ running \subseteq Callers /\ pooled \subseteq Callers
        /\ idle \subseteq Callers /\ unhealthy \subseteq Callers
        /\ closing \in BOOLEAN
    BY <1>1 DEF Init
  <2>5. /\ holder \in [Callers -> Requests \cup {NoRequest}]
        /\ request \in [Requests -> {"none", "waiting", "served", "ended"}]
    BY <1>1 DEF Init
  <2>6. QED
    BY <2>1, <2>2, <2>3, <2>4, <2>5 DEF TypeOK
<1>3. ASSUME NEW c \in Callers PROVE CallerOK(c)
  <2>1. /\ State(c) = "CREATED" /\ Callback(c) = "none"
        /\ caller[c].child = FALSE /\ caller[c].timer = FALSE
        /\ Proc(c) = "none" /\ worker[c].served = {} /\ Quiet(c) /\ ~worker[c].confirm /\ ~Lent(c)
        /\ running = {} /\ pooled = {} /\ idle = {} /\ unhealthy = {}
    BY <1>1 DEF Init, State, Callback, Proc, Lent, Quiet
  <2>2. StateOK(c)
    BY <2>1 DEF StateOK, Live, Proc
  <2>3. PoolOK(c)
    BY <2>1 DEF PoolOK, Live
  <2>4. FlowOK(c) /\ ServedOK(c)
    BY <2>1 DEF FlowOK, ServedOK, Live
  <2>5. QED
    BY <2>2, <2>3, <2>4 DEF CallerOK
<1>4. QED
  BY <1>2, <1>3 DEF CInv
-----------------------------------------------------------------------------
(* What the server calls. *)

LEMMA CallFields ==
  ASSUME TypeOK, NEW c \in Callers, NEW kind \in Callbacks, Call(c, kind)
  PROVE  /\ State(c) = "WAITING" /\ caller' \in [Callers -> Caller] /\ worker' \in [Callers -> Worker]
         /\ State(c)' = "IN_CALL" /\ Callback(c)' = kind /\ caller'[c].timer
         /\ caller'[c].child = caller[c].child /\ ~caller'[c].confirmed
         /\ Proc(c)' = Proc(c) /\ worker'[c].input /\ worker'[c].answer = worker[c].answer
         /\ worker'[c].confirm = worker[c].confirm /\ worker'[c].served = worker[c].served
         /\ \A d \in Callers \ {c} : caller'[d] = caller[d] /\ worker'[d] = worker[d]
<1>1. caller[c] \in Caller /\ worker[c] \in Worker
  BY DEF TypeOK
<1>2. caller' = [caller EXCEPT ![c] = [caller[c] EXCEPT !.state = "IN_CALL", !.callback = kind,
                                                        !.timer = TRUE, !.confirmed = FALSE]]
  BY DEF Call, TypeOK
<1>3. worker' = [worker EXCEPT ![c] = [worker[c] EXCEPT !.input = TRUE]]
  BY DEF Call, TypeOK
<1>4. State(c) = "WAITING"
  BY DEF Call
<1>5. caller' \in [Callers -> Caller] /\ worker' \in [Callers -> Worker]
  BY <1>1, <1>2, <1>3 DEF TypeOK, Caller, Worker, States
<1>6. caller'[c] = [caller[c] EXCEPT !.state = "IN_CALL", !.callback = kind,
                                     !.timer = TRUE, !.confirmed = FALSE]
      /\ worker'[c] = [worker[c] EXCEPT !.input = TRUE]
  BY <1>2, <1>3 DEF TypeOK
<1>7. \A d \in Callers \ {c} : caller'[d] = caller[d] /\ worker'[d] = worker[d]
  BY <1>2, <1>3 DEF TypeOK
<1>8. QED
  BY <1>1, <1>4, <1>5, <1>6, <1>7 DEF Caller, Worker, State, Callback, Proc

\* A call of a caller that is quiet: the pool's, a request's or restart()'s.
LEMMA CallOK ==
  ASSUME CInv, NEW c \in Callers, NEW kind \in {"ping", "call", "restart"}, Call(c, kind),
         ~Lent(c) <=> kind = "ping", c \in running => ~Lent(c),
         c \in pooled \ (idle \cup unhealthy), c \notin running',
         \A d \in Callers \ {c} : d \in running' <=> d \in running,
         running' \subseteq Callers, UNCHANGED poolVars,
         calls' \in 0..MaxCalls, faults' = faults
  PROVE  CInv'
<1>0. TypeOK /\ CallerOK(c) /\ kind \in Callbacks
  BY DEF CInv, Callbacks
<1>1. /\ State(c) = "WAITING" /\ caller' \in [Callers -> Caller] /\ worker' \in [Callers -> Worker]
      /\ State(c)' = "IN_CALL" /\ Callback(c)' = kind /\ caller'[c].timer
      /\ caller'[c].child = caller[c].child /\ ~caller'[c].confirmed
      /\ Proc(c)' = Proc(c) /\ worker'[c].input /\ worker'[c].answer = worker[c].answer
      /\ worker'[c].confirm = worker[c].confirm /\ worker'[c].served = worker[c].served
      /\ \A d \in Callers \ {c} : caller'[d] = caller[d] /\ worker'[d] = worker[d]
  BY <1>0, CallFields
<1>2. TypeOK' /\ OthersStay(c)
  BY <1>0, <1>1 DEF TypeOK, OthersStay, poolVars
<1>3. /\ pooled' = pooled /\ idle' = idle /\ unhealthy' = unhealthy /\ holder' = holder
      /\ (Lent(c)' <=> Lent(c)) /\ Holder(c)' = Holder(c)
  BY DEF poolVars, Lent, Holder
<1>4. StateOK(c)'
  BY <1>0, <1>1 DEF CallerOK, StateOK, Proc
<1>5. PoolOK(c)'
  BY <1>0, <1>1, <1>3 DEF CallerOK, PoolOK
<1>6. FlowOK(c)'
  <2>1. SUFFICES ASSUME Proc(c) \in Live PROVE FlowOK(c)'
    BY <1>1, DeadFlow
  <2>2. Quiet(c) /\ Proc(c) = "forked" /\ Used(c)
    BY <1>0, <1>1, <2>1 DEF CallerOK, FlowOK
  <2>3. Used(c)' /\ Unread(c)' /\ InCall(c)'
    BY <1>1, <1>3, <2>2 DEF Used, Unread, InCall, Quiet
  <2>4. QED
    BY <1>1, <1>3, <2>3 DEF FlowOK, Used
<1>7. ServedOK(c)'
  BY <1>0, <1>1 DEF CallerOK, ServedOK
<1>8. QED
  BY <1>2, <1>4, <1>5, <1>6, <1>7, StepOf DEF CallerOK

LEMMA StartChildOK ==
  ASSUME CInv, NEW c \in Callers, StartChild(c)
  PROVE  CInv'
<1>0. TypeOK /\ CallerOK(c) /\ caller[c] \in Caller /\ worker[c] \in Worker /\ State(c) = "CREATED"
  BY DEF CInv, TypeOK, StartChild
<1>1. /\ caller' = [caller EXCEPT ![c] = [caller[c] EXCEPT !.state = "WAITING", !.child = TRUE]]
      /\ worker' = [worker EXCEPT ![c] = [worker[c] EXCEPT !.proc = "forked"]]
  BY <1>0 DEF StartChild, TypeOK
<1>2. caller' \in [Callers -> Caller] /\ worker' \in [Callers -> Worker]
  BY <1>0, <1>1 DEF TypeOK, Caller, Worker, States, Processes
<1>3. TypeOK' /\ OthersStay(c)
  BY <1>0, <1>1, <1>2 DEF TypeOK, OthersStay, StartChild
<1>4. /\ State(c)' = "WAITING" /\ Callback(c)' = Callback(c) /\ caller'[c].child
      /\ caller'[c].timer = caller[c].timer
      /\ Proc(c)' = "forked" /\ worker'[c].served = worker[c].served
      /\ worker'[c].input = worker[c].input /\ worker'[c].answer = worker[c].answer
      /\ worker'[c].confirm = worker[c].confirm
  BY <1>0, <1>1 DEF TypeOK, Caller, Worker, State, Callback, Proc
<1>5. /\ c \in running' /\ c \in pooled' /\ idle' = idle /\ unhealthy' = unhealthy /\ holder' = holder
      /\ (Lent(c)' <=> Lent(c))
  BY DEF StartChild, Lent
<1>6. /\ Callback(c) = "none" /\ ~caller[c].timer /\ ~Lent(c) /\ c \notin idle \cup unhealthy
      /\ Quiet(c) /\ ~worker[c].confirm /\ worker[c].served = {}
  BY <1>0, CallerTyped DEF CallerOK, StateOK, PoolOK, Callbacks
<1>7. StateOK(c)'
  BY <1>4, <1>5, <1>6 DEF StateOK
<1>8. PoolOK(c)'
  BY <1>4, <1>5, <1>6 DEF PoolOK
<1>9. Quiet(c)' /\ Used(c)' /\ ServedOK(c)'
  BY <1>4, <1>6 DEF Quiet, Used, ServedOK
<1>10. FlowOK(c)'
  BY <1>4, <1>5, <1>6, <1>9 DEF FlowOK
<1>11. QED
  BY <1>3, <1>7, <1>8, <1>9, <1>10, StepOf DEF CallerOK

\* Only the pool changes: a request takes an idle caller.
LEMMA AcquireOK ==
  ASSUME CInv, NEW r \in Requests, Acquire(r)
  PROVE  CInv'
<1>1. PICK c \in idle \ unhealthy : idle' = idle \ {c} /\ holder' = [holder EXCEPT ![c] = r]
  BY DEF Acquire
<1>2. TypeOK /\ c \in Callers /\ CallerOK(c) /\ r # NoRequest
  BY <1>1, CallersAssumption DEF CInv, TypeOK
<1>3. TypeOK' /\ OthersStay(c)
  BY <1>1, <1>2 DEF Acquire, TypeOK, OthersStay
<1>4. /\ State(c)' = State(c) /\ Callback(c)' = Callback(c) /\ Proc(c)' = Proc(c)
      /\ caller' = caller /\ worker' = worker /\ running' = running /\ pooled' = pooled
      /\ unhealthy' = unhealthy /\ c \notin idle' /\ Lent(c)' /\ Holder(c)' = r
  BY <1>1, <1>2 DEF Acquire, State, Callback, Proc, Lent, Holder, TypeOK
<1>5. ~Lent(c) /\ c \notin running \cup unhealthy /\ Callback(c) = "none" /\ c \in pooled
  BY <1>1, <1>2 DEF CallerOK, PoolOK
<1>6. StateOK(c)' /\ ServedOK(c)'
  BY <1>2, <1>4 DEF CallerOK, StateOK, ServedOK, Quiet
<1>7. PoolOK(c)'
  BY <1>2, <1>4, <1>5 DEF CallerOK, StateOK, PoolOK
<1>8. FlowOK(c)'
  <2>1. SUFFICES ASSUME Proc(c) \in Live PROVE FlowOK(c)'
    BY <1>2, <1>4, DeadFlow
  <2>2. State(c) = "WAITING" => Quiet(c) /\ Proc(c) = "forked" /\ Used(c)
    BY <1>2, <1>5, <2>1 DEF CallerOK, FlowOK
  <2>3. State(c) = "WAITING" => Quiet(c)' /\ Used(c)'
    BY <1>2, <1>4, <1>5, <2>2 DEF Quiet, Used, Lent, Holder
  <2>4. QED
    BY <1>4, <1>5, <2>2, <2>3 DEF FlowOK
<1>9. QED
  BY <1>3, <1>6, <1>7, <1>8, StepOf, <1>2 DEF CallerOK

\* A caller leaves the pool for good: done() ends its child.
LEMMA DoneOK ==
  ASSUME CInv, NEW c \in Callers, Done(c), ~Lent(c), Callback(c) = "none", c \notin running,
         State(c) # "CREATED",
         pooled' = pooled \ {c}, c \notin idle' \cup unhealthy',
         idle' \subseteq Callers, unhealthy' \subseteq Callers,
         \A d \in Callers \ {c} : (d \in idle' <=> d \in idle) /\ (d \in unhealthy' <=> d \in unhealthy),
         UNCHANGED <<running, holder, request, closing, calls, faults>>
  PROVE  CInv'
<1>0. TypeOK /\ CallerOK(c) /\ caller[c] \in Caller /\ worker[c] \in Worker
  BY DEF CInv, TypeOK
<1>1. State(c) \in {"WAITING", "EXITING", "EXITED"}
  BY <1>0, CallerTyped DEF CallerOK, StateOK, States
<1>2. /\ caller' \in [Callers -> Caller] /\ worker' \in [Callers -> Worker]
      /\ \A d \in Callers \ {c} : caller'[d] = caller[d] /\ worker'[d] = worker[d]
      /\ State(c)' \in {"EXITING", "EXITED"} /\ (State(c)' = "EXITED" <=> State(c) = "EXITED")
      /\ Callback(c)' = "none" /\ caller'[c].child = caller[c].child
      /\ caller'[c].timer = caller[c].timer
      /\ Proc(c)' \notin Live /\ worker'[c].served = worker[c].served
  <2>1. CASE State(c) = "WAITING"
    <3>1. caller' = [caller EXCEPT ![c] = [caller[c] EXCEPT !.state = "EXITING"]]
          /\ worker' = Killed(c)
      BY <2>1, <1>0 DEF Done, TypeOK
    <3>2. Proc(c)' \notin Live
      BY <1>0, <3>1, KilledWorker DEF Proc, Live
    <3>3. QED
      BY <1>0, <2>1, <3>1, <3>2, KilledWorker, ZenonT(60) DEF TypeOK, Caller, States, State, Callback
  <2>2. CASE State(c) # "WAITING"
    <3>1. caller' = caller /\ worker' = worker
      BY <2>2 DEF Done
    <3>2. QED
      BY <1>0, <1>1, <2>2, <3>1 DEF CallerOK, StateOK, State, Callback, Proc, TypeOK
  <2>3. QED
    BY <2>1, <2>2
<1>3. TypeOK' /\ OthersStay(c) /\ ~Lent(c)' /\ c \notin pooled'
  BY <1>0, <1>2 DEF TypeOK, OthersStay, Lent
<1>4. StateOK(c)' /\ ServedOK(c)'
  BY <1>0, <1>1, <1>2 DEF CallerOK, StateOK, ServedOK
<1>5. PoolOK(c)'
  BY <1>2, <1>3 DEF PoolOK
<1>6. QED
  BY <1>2, <1>3, <1>4, <1>5, DeadFlow, StepOf DEF CallerOK

LEMMA PoolCallsOK ==
  ASSUME CInv, NEW c \in Callers, DestroyUnhealthy(c) \/ Clear(c)
  PROVE  CInv'
<1>1. TypeOK /\ CallerOK(c)
  BY DEF CInv
<1>2. CASE DestroyUnhealthy(c)
  <2>1. /\ c \in unhealthy /\ ~Lent(c) /\ c \notin idle /\ c \notin running
        /\ State(c) \in {"EXITING", "EXITED"} /\ Callback(c) = "none"
    BY <1>1, <1>2, CallerTyped DEF DestroyUnhealthy, CallerOK, PoolOK, StateOK, Callbacks
  <2>2. QED
    BY <1>1, <1>2, <2>1, DoneOK DEF DestroyUnhealthy, TypeOK
<1>3. CASE Clear(c)
  <2>1. /\ c \in idle /\ ~Lent(c) /\ c \notin unhealthy /\ c \notin running /\ Callback(c) = "none"
        /\ State(c) # "CREATED"
    BY <1>1, <1>3 DEF Clear, CallerOK, PoolOK
  <2>2. QED
    BY <1>1, <1>3, <2>1, DoneOK DEF Clear, TypeOK
<1>4. QED
  BY <1>2, <1>3

\* A caller that is gone is given up.
LEMMA DisposeOK ==
  ASSUME CInv, NEW c \in Callers, Lent(c), Callback(c) = "none", State(c) \in {"EXITING", "EXITED"},
         Dispose(c), UNCHANGED <<caller, worker, running, calls, faults>>
  PROVE  CInv'
<1>1. TypeOK /\ CallerOK(c)
  BY DEF CInv
<1>2. /\ unhealthy' = unhealthy \cup {c} /\ pooled' = pooled /\ idle' = idle /\ closing' = closing
      /\ holder' = [holder EXCEPT ![c] = NoRequest]
      /\ request' \in [Requests -> {"none", "waiting", "served", "ended"}]
  BY <1>1 DEF Dispose, Returns, TypeOK
<1>3. TypeOK' /\ OthersStay(c) /\ ~Lent(c)'
  BY <1>1, <1>2 DEF TypeOK, OthersStay, Lent
<1>4. /\ State(c)' = State(c) /\ Callback(c)' = Callback(c) /\ Proc(c)' = Proc(c)
      /\ worker'[c] = worker[c] /\ caller'[c] = caller[c]
  BY DEF State, Callback, Proc
<1>5. StateOK(c)' /\ ServedOK(c)'
  BY <1>1, <1>4 DEF CallerOK, StateOK, ServedOK, Quiet
<1>6. PoolOK(c)' /\ Proc(c)' \notin Live
  BY <1>1, <1>2, <1>3, <1>4 DEF CallerOK, StateOK, PoolOK
<1>7. QED
  BY <1>3, <1>5, <1>6, DeadFlow, StepOf DEF CallerOK

LEMMA RestartOK ==
  ASSUME CInv, NEW c \in Callers, Restart(c)
  PROVE  CInv'
<1>1. TypeOK /\ CallerOK(c) /\ Lent(c) /\ c \notin running /\ Callback(c) = "none"
      /\ c \in pooled \ (idle \cup unhealthy)
  BY DEF CInv, Restart, Lent, Callback, CallerOK, PoolOK
<1>2. CASE Call(c, "restart") /\ UNCHANGED poolVars
  BY <1>1, <1>2, CallOK DEF Restart, TypeOK
<1>3. CASE State(c) \in {"EXITING", "EXITED"} /\ Dispose(c) /\ UNCHANGED <<caller, worker>>
  BY <1>1, <1>3, DisposeOK DEF Restart
<1>4. QED
  BY <1>2, <1>3 DEF Restart

LEMMA MakeCallOK ==
  ASSUME CInv, NEW c \in Callers, MakeCall(c)
  PROVE  CInv'
<1>1. TypeOK /\ CallerOK(c) /\ Lent(c) /\ c \notin running /\ c \in pooled \ (idle \cup unhealthy)
  BY DEF CInv, MakeCall, Lent, CallerOK, PoolOK
<1>2. calls' \in 0..MaxCalls /\ faults' = faults /\ running' = running
  BY <1>1, CallersAssumption DEF MakeCall, TypeOK
<1>3. QED
  BY <1>1, <1>2, CallOK DEF MakeCall, TypeOK

LEMMA PingOK ==
  ASSUME CInv, NEW c \in Callers, Ping(c)
  PROVE  CInv'
<1>1. TypeOK /\ CallerOK(c) /\ ~Lent(c) /\ c \in running /\ c \in pooled \ (idle \cup unhealthy)
      /\ Call(c, "ping")
  <2>1. TypeOK /\ CallerOK(c) /\ ~Lent(c) /\ c \in running /\ Call(c, "ping") /\ State(c) = "WAITING"
    BY DEF CInv, Ping, Lent, Call
  <2>2. QED
    BY <2>1 DEF CallerOK, PoolOK
<1>2. running' \subseteq Callers /\ c \notin running'
      /\ \A d \in Callers \ {c} : d \in running' <=> d \in running
  BY <1>1 DEF Ping, TypeOK
<1>3. QED
  BY <1>1, <1>2, CallOK DEF Ping, poolVars, TypeOK

\* The caller has a new worker and is used again.
LEMMA RestartedFields ==
  ASSUME TypeOK, NEW c \in Callers, caller' = Restarted(c)
  PROVE  /\ caller' \in [Callers -> Caller]
         /\ State(c)' = "WAITING" /\ Callback(c)' = "none" /\ ~caller'[c].timer
         /\ caller'[c].child = caller[c].child /\ caller'[c].confirmed = caller[c].confirmed
         /\ \A d \in Callers \ {c} : caller'[d] = caller[d]
<1>1. caller[c] \in Caller
  BY DEF TypeOK
<1>2. caller' = [caller EXCEPT ![c] = [caller[c] EXCEPT !.state = "WAITING", !.callback = "none",
                                                        !.timer = FALSE]]
  BY DEF Restarted, TypeOK
<1>3. caller'[c] = [caller[c] EXCEPT !.state = "WAITING", !.callback = "none", !.timer = FALSE]
      /\ \A d \in Callers \ {c} : caller'[d] = caller[d]
  BY <1>2 DEF TypeOK
<1>4. [caller[c] EXCEPT !.state = "WAITING", !.callback = "none", !.timer = FALSE] \in Caller
  BY <1>1 DEF Caller, States, Callbacks
<1>5. caller' \in [Callers -> Caller]
  BY <1>2, <1>4 DEF TypeOK
<1>6. QED
  BY <1>1, <1>3, <1>5 DEF Caller, State, Callback

\* Released, with nothing on its way and a worker that has run nothing.
LEMMA ReleaseOK ==
  ASSUME CInv, NEW c \in Callers, Lent(c), State(c) # "CREATED", caller[c].child, c \notin running',
         caller' = Restarted(c), worker' \in [Callers -> Worker],
         \A d \in Callers \ {c} : worker'[d] = worker[d] /\ (d \in running' <=> d \in running),
         running' \subseteq Callers, UNCHANGED <<calls, faults>>,
         Proc(c)' = Proc(c), worker'[c].served = worker[c].served,
         Proc(c) \in Live => Renewed(c)' /\ Quiet(c)' /\ ~worker'[c].confirm,
         pooled' = pooled, unhealthy' = unhealthy, closing' = closing,
         idle' \subseteq Callers, c \in idle', \A d \in Callers \ {c} : d \in idle' <=> d \in idle,
         holder' \in [Callers -> Requests \cup {NoRequest}], holder'[c] = NoRequest,
         \A d \in Callers \ {c} : holder'[d] = holder[d],
         request' \in [Requests -> {"none", "waiting", "served", "ended"}]
  PROVE  CInv'
<1>1. TypeOK /\ CallerOK(c) /\ ~Lent(c)' /\ Holder(c)' = NoRequest
  BY DEF CInv, Lent, Holder
<1>2. /\ caller' \in [Callers -> Caller]
      /\ State(c)' = "WAITING" /\ Callback(c)' = "none" /\ ~caller'[c].timer
      /\ caller'[c].child = caller[c].child
      /\ \A d \in Callers \ {c} : caller'[d] = caller[d]
  BY <1>1, RestartedFields
<1>3. TypeOK' /\ OthersStay(c)
  BY <1>1, <1>2 DEF TypeOK, OthersStay
<1>4. StateOK(c)' /\ ServedOK(c)'
  BY <1>1, <1>2 DEF CallerOK, StateOK, ServedOK
<1>5. PoolOK(c)'
  BY <1>1, <1>2 DEF CallerOK, PoolOK
<1>6. FlowOK(c)'
  <2>1. SUFFICES ASSUME Proc(c) \in Live PROVE FlowOK(c)'
    BY DeadFlow
  <2>2. Quiet(c)' /\ Proc(c)' = "forked" /\ Used(c)'
    BY <2>1 DEF Renewed, Used
  <2>3. QED
    BY <1>1, <1>2, <2>2 DEF FlowOK
<1>7. QED
  BY <1>3, <1>4, <1>5, <1>6, StepOf DEF CallerOK

LEMMA ResumeOK ==
  ASSUME CInv, NEW c \in Callers, Resume(c)
  PROVE  CInv'
<1>1. /\ TypeOK /\ CallerOK(c) /\ Lent(c) /\ c \in running /\ State(c) = "WAITING"
      /\ caller[c] \in Caller /\ caller[c].child /\ Callback(c) = "none"
  BY CallerTyped DEF CInv, Resume, Lent, CallerOK, StateOK, Callbacks
<1>2. Proc(c) \in Live => Quiet(c) /\ Renewing(c)
  BY <1>1 DEF CallerOK, FlowOK
<1>3. /\ running' = running \ {c} /\ worker' = worker /\ UNCHANGED <<calls, faults>>
      /\ Proc(c)' = Proc(c) /\ (Quiet(c)' <=> Quiet(c)) /\ (Renewed(c)' <=> Renewed(c))
  BY DEF Resume, Proc, Quiet, Renewed
<1>4. CASE caller[c].confirmed
  <2>1. caller' = Restarted(c) /\ Release(c)
    BY <1>4 DEF Resume
  <2>2. Proc(c) \in Live => Renewed(c)' /\ Quiet(c)' /\ ~worker'[c].confirm
    BY <1>2, <1>3, <1>4 DEF Renewing
  <2>3. /\ pooled' = pooled /\ unhealthy' = unhealthy /\ closing' = closing
        /\ idle' \subseteq Callers /\ c \in idle' /\ \A d \in Callers \ {c} : d \in idle' <=> d \in idle
        /\ holder' \in [Callers -> Requests \cup {NoRequest}] /\ holder'[c] = NoRequest
        /\ \A d \in Callers \ {c} : holder'[d] = holder[d]
        /\ request' \in [Requests -> {"none", "waiting", "served", "ended"}]
    BY <1>1, <2>1 DEF Release, Returns, TypeOK
  <2>4. running' \subseteq Callers /\ worker' \in [Callers -> Worker] /\ c \notin running'
        /\ \A d \in Callers \ {c} : worker'[d] = worker[d] /\ (d \in running' <=> d \in running)
    BY <1>1, <1>3 DEF TypeOK
  <2>5. QED
    BY <1>1, <1>3, <2>1, <2>2, <2>3, <2>4, ReleaseOK
<1>5. CASE ~caller[c].confirmed
  <2>1. /\ caller' = [caller EXCEPT ![c] = [caller[c] EXCEPT !.state = "RESTARTING",
                                                             !.callback = "confirm", !.timer = TRUE]]
        /\ UNCHANGED poolVars
    BY <1>1, <1>5 DEF Resume, TypeOK
  <2>2. /\ caller'[c] = [caller[c] EXCEPT !.state = "RESTARTING", !.callback = "confirm", !.timer = TRUE]
        /\ caller' \in [Callers -> Caller]
        /\ \A d \in Callers \ {c} : caller'[d] = caller[d]
    BY <1>1, <2>1 DEF TypeOK, Caller, States, Callbacks
  <2>3. /\ State(c)' = "RESTARTING" /\ Callback(c)' = "confirm" /\ caller'[c].timer
        /\ caller'[c].child = caller[c].child /\ caller'[c].confirmed = caller[c].confirmed
    BY <1>1, <2>2 DEF Caller, State, Callback
  <2>4. TypeOK' /\ OthersStay(c) /\ c \notin running'
    BY <1>1, <1>3, <2>1, <2>2 DEF TypeOK, OthersStay, poolVars
  <2>5. Lent(c)' /\ Holder(c)' = Holder(c) /\ pooled' = pooled /\ idle' = idle /\ unhealthy' = unhealthy
    BY <1>1, <2>1 DEF poolVars, Lent, Holder
  <2>6. StateOK(c)' /\ ServedOK(c)'
    BY <1>1, <1>3, <2>3 DEF CallerOK, StateOK, ServedOK
  <2>7. PoolOK(c)'
    BY <1>1, <1>3, <2>3, <2>4, <2>5 DEF CallerOK, PoolOK
  <2>8. FlowOK(c)'
    <3>1. SUFFICES ASSUME Proc(c) \in Live PROVE FlowOK(c)'
      BY <1>3, DeadFlow
    <3>2. Renewing(c)'
      BY <1>2, <1>3, <1>5, <2>3, <2>5, <3>1 DEF Renewing, Used
    <3>3. QED
      BY <1>2, <1>3, <1>5, <2>3, <3>1, <3>2 DEF FlowOK
  <2>9. QED
    BY <2>4, <2>6, <2>7, <2>8, StepOf DEF CallerOK
<1>6. QED
  BY <1>4, <1>5

-----------------------------------------------------------------------------
(* Events of a caller. *)

LEMMA AnsweredFields ==
  ASSUME TypeOK, NEW c \in Callers, NEW s \in States
  PROVE  /\ Answered(c, s) \in [Callers -> Caller]
         /\ Answered(c, s)[c].state = s /\ Answered(c, s)[c].callback = "none"
         /\ ~Answered(c, s)[c].timer /\ Answered(c, s)[c].child = caller[c].child
         /\ Answered(c, s)[c].confirmed = caller[c].confirmed
         /\ \A d \in Callers \ {c} : Answered(c, s)[d] = caller[d]
<1>1. caller[c] \in Caller
  BY DEF TypeOK
<1>2. Answered(c, s) = [caller EXCEPT ![c] = [caller[c] EXCEPT !.state = s, !.callback = "none",
                                                               !.timer = FALSE]]
  BY DEF Answered, TypeOK
<1>3. [caller[c] EXCEPT !.state = s, !.callback = "none", !.timer = FALSE] \in Caller
  BY <1>1 DEF Caller, States, Callbacks
<1>4. Answered(c, s)[c] = [caller[c] EXCEPT !.state = s, !.callback = "none", !.timer = FALSE]
      /\ \A d \in Callers \ {c} : Answered(c, s)[d] = caller[d]
  BY <1>2 DEF TypeOK
<1>5. Answered(c, s) \in [Callers -> Caller]
  BY <1>2, <1>3 DEF TypeOK
<1>6. QED
  BY <1>1, <1>4, <1>5 DEF Caller

\* The promise of a caller whose child is gone or is told to go fails.
LEMMA FailsOK ==
  ASSUME CInv, NEW c \in Callers, c \notin running, Callback(c) # "none", Settled(c, FALSE),
         caller' \in [Callers -> Caller], worker' \in [Callers -> Worker],
         \A d \in Callers \ {c} : caller'[d] = caller[d] /\ worker'[d] = worker[d],
         State(c)' \in {"EXITING", "EXITED"}, Callback(c)' = "none", ~caller'[c].timer,
         caller'[c].child <=> State(c)' = "EXITING",
         Proc(c)' \notin Live, worker'[c].served = worker[c].served,
         running' = running, calls' = calls, faults' \in 0..MaxFaults
  PROVE  CInv'
<1>1. TypeOK /\ CallerOK(c) /\ Callback(c) \in {"ping", "call", "restart", "confirm"}
  BY CallerTyped DEF CInv, Callbacks
<1>2. /\ pooled' \subseteq Callers /\ idle' \subseteq Callers /\ unhealthy' \subseteq Callers
      /\ holder' \in [Callers -> Requests \cup {NoRequest}]
      /\ request' \in [Requests -> {"none", "waiting", "served", "ended"}]
      /\ closing' = closing
      /\ \A d \in Callers \ {c} :
           /\ holder'[d] = holder[d] /\ (d \in pooled' <=> d \in pooled)
           /\ (d \in idle' <=> d \in idle) /\ (d \in unhealthy' <=> d \in unhealthy)
      /\ c \in pooled' <=> c \in pooled /\ Callback(c) # "ping"
      /\ c \in idle' <=> c \in idle
      /\ c \in unhealthy' <=> c \in unhealthy \/ Callback(c) \in {"restart", "confirm"}
      /\ holder'[c] = IF Callback(c) \in {"confirm", "restart"} THEN NoRequest ELSE holder[c]
  BY <1>1, SettledPool
<1>3. TypeOK' /\ OthersStay(c)
  BY <1>1, <1>2 DEF TypeOK, OthersStay
<1>4. Lent(c)' <=> Callback(c) = "call"
  BY <1>1, <1>2 DEF CallerOK, PoolOK, Lent
<1>5. StateOK(c)' /\ ServedOK(c)'
  BY <1>1 DEF CallerOK, StateOK, ServedOK
<1>6. c \notin idle \cup unhealthy /\ c \in pooled
  BY <1>1 DEF CallerOK, PoolOK
<1>7. PoolOK(c)'
  BY <1>1, <1>2, <1>4, <1>6 DEF PoolOK
<1>8. QED
  BY <1>3, <1>5, <1>7, DeadFlow, StepOf DEF CallerOK

LEMMA TimeoutOK ==
  ASSUME CInv, NEW c \in Callers, Timeout(c)
  PROVE  CInv'
<1>1. TypeOK /\ CallerOK(c) /\ c \notin running /\ caller[c].timer /\ "EXITING" \in States
  BY DEF CInv, Timeout, States
<1>2. State(c) \in {"IN_CALL", "RESTARTING"} /\ Callback(c) # "none" /\ caller[c].child
  BY <1>1, CallerTyped DEF CallerOK, StateOK, Callbacks
<1>3. caller' = Answered(c, "EXITING") /\ worker' = Killed(c) /\ Settled(c, FALSE)
      /\ running' = running /\ calls' = calls
  BY DEF Timeout
<1>4. faults' \in 0..MaxFaults
  BY <1>1, CallersAssumption DEF Timeout, Fault, TypeOK
<1>5. Proc(c)' \notin Live
  BY <1>1, <1>3, KilledWorker DEF Proc, Live
<1>6. /\ caller' \in [Callers -> Caller] /\ State(c)' = "EXITING" /\ Callback(c)' = "none"
      /\ ~caller'[c].timer /\ caller'[c].child
      /\ \A d \in Callers \ {c} : caller'[d] = caller[d]
  BY <1>1, <1>2, <1>3, AnsweredFields DEF State, Callback
<1>7. QED
  BY <1>1, <1>2, <1>3, <1>4, <1>5, <1>6, KilledWorker, FailsOK

\* A field of a worker changes.
LEMMA WorkerField ==
  ASSUME TypeOK, NEW c \in Callers, NEW x \in Worker, worker' = [worker EXCEPT ![c] = x]
  PROVE  /\ worker' \in [Callers -> Worker] /\ worker'[c] = x
         /\ \A d \in Callers \ {c} : worker'[d] = worker[d]
BY DEF TypeOK

LEMMA ChildErrorOK ==
  ASSUME CInv, NEW c \in Callers, ChildError(c)
  PROVE  CInv'
<1>1. /\ TypeOK /\ CallerOK(c) /\ c \notin running /\ Callback(c) = "ping" /\ worker[c] \in Worker
      /\ "EXITING" \in States
  BY DEF CInv, ChildError, States, Callback, TypeOK
<1>2. caller[c].child
  BY <1>1 DEF CallerOK, StateOK
<1>3. caller' = Answered(c, "EXITING") /\ Settled(c, FALSE) /\ running' = running /\ calls' = calls
      /\ worker' = [worker EXCEPT ![c] = [worker[c] EXCEPT !.proc = "gone"]]
  BY <1>1 DEF ChildError, TypeOK
<1>4. faults' \in 0..MaxFaults
  BY <1>1, CallersAssumption DEF ChildError, Fault, TypeOK
<1>5. [worker[c] EXCEPT !.proc = "gone"] \in Worker
  BY <1>1 DEF Worker, Processes
<1>6. /\ worker' \in [Callers -> Worker] /\ worker'[c] = [worker[c] EXCEPT !.proc = "gone"]
      /\ \A d \in Callers \ {c} : worker'[d] = worker[d]
  BY <1>1, <1>3, <1>5, WorkerField
<1>7. Proc(c)' \notin Live /\ worker'[c].served = worker[c].served
  BY <1>1, <1>6 DEF Proc, Live, Worker
<1>8. /\ caller' \in [Callers -> Caller] /\ State(c)' = "EXITING" /\ Callback(c)' = "none"
      /\ ~caller'[c].timer /\ caller'[c].child
      /\ \A d \in Callers \ {c} : caller'[d] = caller[d]
  BY <1>1, <1>2, <1>3, AnsweredFields DEF State, Callback
<1>9. QED
  BY <1>1, <1>3, <1>4, <1>6, <1>7, <1>8, FailsOK

LEMMA ChildExitOK ==
  ASSUME CInv, NEW c \in Callers, ChildExit(c)
  PROVE  CInv'
<1>1. /\ TypeOK /\ CallerOK(c) /\ c \notin running /\ Proc(c) = "dead"
      /\ worker[c] \in Worker /\ caller[c] \in Caller /\ "EXITED" \in States
  BY DEF CInv, ChildExit, TypeOK, States
<1>2. /\ worker' = [worker EXCEPT ![c] = [worker[c] EXCEPT !.proc = "gone"]]
      /\ UNCHANGED <<running, calls, faults>>
  BY <1>1 DEF ChildExit, TypeOK
<1>3. [worker[c] EXCEPT !.proc = "gone"] \in Worker
  BY <1>1 DEF Worker, Processes
<1>4. /\ worker' \in [Callers -> Worker] /\ worker'[c] = [worker[c] EXCEPT !.proc = "gone"]
      /\ \A d \in Callers \ {c} : worker'[d] = worker[d]
  BY <1>1, <1>2, <1>3, WorkerField
<1>5. /\ Proc(c)' \notin Live /\ Proc(c)' # "none" /\ worker'[c].served = worker[c].served
      /\ Proc(c) # "none"
  BY <1>1, <1>4 DEF Proc, Live, Worker
<1>6. faults' \in 0..MaxFaults
  BY <1>1, <1>2 DEF TypeOK
<1>7. CASE State(c) = "IN_CALL"
  <2>1. caller' = [Answered(c, "EXITED") EXCEPT ![c].child = FALSE] /\ Settled(c, FALSE)
    BY <1>7 DEF ChildExit
  <2>2. Callback(c) # "none"
    BY <1>1, <1>7 DEF CallerOK, StateOK
  <2>3. /\ Answered(c, "EXITED") \in [Callers -> Caller]
        /\ Answered(c, "EXITED")[c].state = "EXITED" /\ Answered(c, "EXITED")[c].callback = "none"
        /\ ~Answered(c, "EXITED")[c].timer
        /\ \A d \in Callers \ {c} : Answered(c, "EXITED")[d] = caller[d]
    BY <1>1, AnsweredFields
  <2>4. /\ caller' \in [Callers -> Caller] /\ State(c)' = "EXITED" /\ Callback(c)' = "none"
        /\ ~caller'[c].timer /\ ~caller'[c].child
        /\ \A d \in Callers \ {c} : caller'[d] = caller[d]
    BY <2>1, <2>3 DEF Caller, State, Callback
  <2>5. QED
    BY <1>1, <1>2, <1>4, <1>5, <1>6, <2>1, <2>2, <2>4, FailsOK
<1>8. CASE State(c) # "IN_CALL"
  <2>1. UNCHANGED poolVars
    BY <1>1, <1>8 DEF ChildExit
  <2>2. /\ caller' \in [Callers -> Caller] /\ \A d \in Callers \ {c} : caller'[d] = caller[d]
        /\ Callback(c)' = Callback(c) /\ caller'[c].timer = caller[c].timer
        /\ \/ State(c) \in {"WAITING", "EXITING"} /\ State(c)' = "EXITED" /\ ~caller'[c].child
           \/ /\ State(c) \notin {"WAITING", "EXITING"} /\ State(c)' = State(c)
              /\ caller'[c].child = caller[c].child
    <3>1. CASE State(c) \in {"WAITING", "EXITING"}
      <4>1. caller' = [caller EXCEPT ![c] = [caller[c] EXCEPT !.state = "EXITED", !.child = FALSE]]
        BY <1>1, <1>8, <3>1 DEF ChildExit, TypeOK
      <4>2. caller'[c] = [caller[c] EXCEPT !.state = "EXITED", !.child = FALSE]
            /\ \A d \in Callers \ {c} : caller'[d] = caller[d]
        BY <1>1, <4>1 DEF TypeOK
      <4>3. [caller[c] EXCEPT !.state = "EXITED", !.child = FALSE] \in Caller
        BY <1>1 DEF Caller, States
      <4>4. caller' \in [Callers -> Caller]
        BY <1>1, <4>1, <4>3 DEF TypeOK
      <4>5. QED
        BY <1>1, <3>1, <4>2, <4>4 DEF Caller, State, Callback
    <3>2. CASE State(c) \notin {"WAITING", "EXITING"}
      <4>1. caller' = caller
        BY <1>8, <3>2 DEF ChildExit
      <4>2. QED
        BY <1>1, <3>2, <4>1 DEF State, Callback, TypeOK
    <3>3. QED
      BY <3>1, <3>2
  <2>3. TypeOK' /\ OthersStay(c)
    BY <1>1, <1>2, <1>4, <2>1, <2>2 DEF TypeOK, OthersStay, poolVars
  <2>4. (Lent(c)' <=> Lent(c)) /\ pooled' = pooled /\ idle' = idle /\ unhealthy' = unhealthy
    BY <2>1 DEF poolVars, Lent
  <2>5. StateOK(c)' /\ ServedOK(c)'
    <3>1. State(c) # "CREATED" /\ StateOK(c) /\ ServedOK(c)
      BY <1>1, <1>5 DEF CallerOK, StateOK
    <3>2. QED
      BY <1>1, <1>2, <1>5, <2>2, <3>1 DEF StateOK, ServedOK
  <2>6. PoolOK(c)'
    BY <1>1, <1>2, <1>5, <2>2, <2>4 DEF CallerOK, PoolOK
  <2>7. QED
    BY <1>5, <2>3, <2>5, <2>6, DeadFlow, StepOf DEF CallerOK
<1>9. QED
  BY <1>7, <1>8

\* A line arrives that answers the call.
LEMMA AnswerReadOK ==
  ASSUME CInv, NEW c \in Callers, Stdio3(c), State(c) = "IN_CALL", worker[c].answer = "good"
  PROVE  CInv'
<1>1. /\ TypeOK /\ CallerOK(c) /\ c \notin running /\ "WAITING" \in States
      /\ worker[c] \in Worker /\ caller[c].child /\ Callback(c) \in {"ping", "call", "restart"}
  BY DEF CInv, Stdio3, TypeOK, States, CallerOK, StateOK
<1>2. /\ worker' = [worker EXCEPT ![c] = [worker[c] EXCEPT !.answer = "none"]]
      /\ caller' = Answered(c, "WAITING") /\ Settled(c, TRUE)
      /\ running' = (IF Callback(c) = "restart" THEN running \cup {c} ELSE running)
      /\ UNCHANGED <<calls, faults>>
  BY <1>1 DEF Stdio3, TypeOK, Callback
<1>3. [worker[c] EXCEPT !.answer = "none"] \in Worker
  BY <1>1 DEF Worker
<1>4. /\ worker' \in [Callers -> Worker] /\ worker'[c] = [worker[c] EXCEPT !.answer = "none"]
      /\ \A d \in Callers \ {c} : worker'[d] = worker[d]
  BY <1>1, <1>2, <1>3, WorkerField
<1>5. /\ Proc(c)' = Proc(c) /\ worker'[c].served = worker[c].served /\ worker'[c].answer = "none"
      /\ worker'[c].input = worker[c].input /\ worker'[c].confirm = worker[c].confirm
  BY <1>1, <1>4 DEF Proc, Worker
<1>6. /\ caller' \in [Callers -> Caller] /\ State(c)' = "WAITING" /\ Callback(c)' = "none"
      /\ ~caller'[c].timer /\ caller'[c].child /\ caller'[c].confirmed = caller[c].confirmed
      /\ \A d \in Callers \ {c} : caller'[d] = caller[d]
  BY <1>1, <1>2, AnsweredFields DEF State, Callback
<1>7. /\ pooled' \subseteq Callers /\ idle' \subseteq Callers /\ unhealthy' \subseteq Callers
      /\ holder' \in [Callers -> Requests \cup {NoRequest}]
      /\ request' \in [Requests -> {"none", "waiting", "served", "ended"}]
      /\ closing' = closing
      /\ \A d \in Callers \ {c} :
           /\ holder'[d] = holder[d] /\ (d \in pooled' <=> d \in pooled)
           /\ (d \in idle' <=> d \in idle) /\ (d \in unhealthy' <=> d \in unhealthy)
      /\ c \in pooled' <=> c \in pooled
      /\ c \in idle' <=> c \in idle \/ Callback(c) = "ping"
      /\ c \in unhealthy' <=> c \in unhealthy
      /\ holder'[c] = holder[c]
  BY <1>1, <1>2, SettledPool
<1>8. TypeOK' /\ OthersStay(c)
  BY <1>1, <1>2, <1>4, <1>6, <1>7 DEF TypeOK, OthersStay
<1>9. (Lent(c)' <=> Lent(c)) /\ Holder(c)' = Holder(c) /\ (c \in running' <=> Callback(c) = "restart")
  BY <1>1, <1>2, <1>7 DEF Lent, Holder
<1>10. StateOK(c)' /\ ServedOK(c)'
  BY <1>1, <1>5, <1>6 DEF CallerOK, StateOK, ServedOK
<1>11. PoolOK(c)'
  BY <1>1, <1>5, <1>6, <1>7, <1>9 DEF CallerOK, PoolOK
<1>12. FlowOK(c)'
  <2>1. SUFFICES ASSUME Proc(c) \in Live PROVE FlowOK(c)'
    BY <1>5, DeadFlow
  <2>2. /\ Callback(c) \in {"ping", "call"} => Replied(c) /\ Proc(c) = "forked" /\ Used(c)
        /\ Callback(c) = "restart" => Replied(c) /\ Renewing(c) /\ Lent(c)
    BY <1>1, <2>1, Stdio3(c) DEF CallerOK, FlowOK, PoolOK, InCall, Unread, InWork, Quiet, Stdio3
  <2>3. Quiet(c)' /\ (Used(c)' <=> Used(c)) /\ (Renewing(c)' <=> Renewing(c))
    <3>1. Used(c)' <=> Used(c)
      BY <1>5, <1>9 DEF Used
    <3>2. Renewed(c)' <=> Renewed(c)
      BY <1>5 DEF Renewed
    <3>3. Renewing(c)' <=> Renewing(c)
      BY <1>5, <1>6, <3>1, <3>2 DEF Renewing
    <3>4. Quiet(c)'
      BY <1>1, <1>5, <2>2 DEF Quiet, Replied
    <3>5. QED
      BY <3>1, <3>3, <3>4
  <2>4. QED
    BY <1>1, <1>5, <1>6, <1>9, <2>2, <2>3 DEF FlowOK
<1>13. QED
  BY <1>8, <1>10, <1>11, <1>12, StepOf DEF CallerOK

\* Nothing that the pool or the caller's state depends on changes.
LEMMA WorkerStep ==
  ASSUME CInv, NEW c \in Callers, UNCHANGED <<caller, running, poolVars, calls>>,
         faults' \in 0..MaxFaults, worker' \in [Callers -> Worker],
         \A d \in Callers \ {c} : worker'[d] = worker[d],
         State(c) # "CREATED", Proc(c)' \in Live => Proc(c) \in Live, FlowOK(c)', ServedOK(c)'
  PROVE  CInv'
<1>1. TypeOK /\ CallerOK(c)
  BY DEF CInv
<1>2. TypeOK' /\ OthersStay(c)
  BY <1>1 DEF TypeOK, OthersStay, poolVars
<1>3. /\ State(c)' = State(c) /\ Callback(c)' = Callback(c) /\ (Lent(c)' <=> Lent(c))
      /\ pooled' = pooled /\ idle' = idle /\ unhealthy' = unhealthy
  BY DEF State, Callback, Lent, poolVars
<1>4. StateOK(c)'
  BY <1>1, <1>3 DEF CallerOK, StateOK
<1>5. PoolOK(c)'
  BY <1>1, <1>3 DEF CallerOK, PoolOK
<1>6. QED
  BY <1>2, <1>4, <1>5, StepOf DEF CallerOK

\* Something that is read from a pipe, and answers nothing.
LEMMA Stdio3OK ==
  ASSUME CInv, NEW c \in Callers, Stdio3(c)
  PROVE  CInv'
<1>1. /\ TypeOK /\ CallerOK(c) /\ c \notin running /\ worker[c] \in Worker
      /\ worker[c].answer # "none" /\ "EXITING" \in States
  BY DEF CInv, Stdio3, TypeOK, States
<1>2. CASE State(c) = "IN_CALL" /\ worker[c].answer # "good"
  <2>1. /\ caller' = Answered(c, "EXITING") /\ Settled(c, FALSE)
        /\ worker' = [Killed(c) EXCEPT ![c].answer = "none"]
        /\ running' = running /\ calls' = calls /\ faults' = faults
    BY <1>1, <1>2 DEF Stdio3
  <2>2. /\ Killed(c) \in [Callers -> Worker] /\ Killed(c)[c] \in Worker
        /\ Killed(c)[c].proc = IF Proc(c) \in Live THEN "killed" ELSE Proc(c)
        /\ Killed(c)[c].served = worker[c].served
        /\ \A d \in Callers \ {c} : Killed(c)[d] = worker[d]
    BY <1>1, KilledWorker
  <2>3. worker' = [Killed(c) EXCEPT ![c] = [Killed(c)[c] EXCEPT !.answer = "none"]]
    BY <2>1, <2>2
  <2>4. [Killed(c)[c] EXCEPT !.answer = "none"] \in Worker
    BY <2>2 DEF Worker
  <2>5. /\ worker' \in [Callers -> Worker] /\ worker'[c] = [Killed(c)[c] EXCEPT !.answer = "none"]
        /\ \A d \in Callers \ {c} : worker'[d] = worker[d]
    BY <2>2, <2>3, <2>4
  <2>6. Proc(c)' \notin Live /\ worker'[c].served = worker[c].served
    BY <2>2, <2>5 DEF Proc, Live, Worker
  <2>7. /\ caller' \in [Callers -> Caller] /\ State(c)' = "EXITING" /\ Callback(c)' = "none"
        /\ ~caller'[c].timer /\ caller'[c].child = caller[c].child
        /\ \A d \in Callers \ {c} : caller'[d] = caller[d]
    BY <1>1, <2>1, AnsweredFields DEF State, Callback
  <2>8. Callback(c) # "none" /\ caller[c].child /\ faults' \in 0..MaxFaults
    BY <1>1, <1>2, <2>1 DEF CallerOK, StateOK, TypeOK
  <2>9. QED
    BY <1>1, <2>1, <2>5, <2>6, <2>7, <2>8, FailsOK
<1>3. CASE State(c) # "IN_CALL"
  <2>1. /\ worker' = [worker EXCEPT ![c] = [worker[c] EXCEPT !.answer = "none"]]
        /\ UNCHANGED <<caller, running, poolVars, calls, faults>>
    BY <1>1, <1>3 DEF Stdio3, TypeOK
  <2>2. [worker[c] EXCEPT !.answer = "none"] \in Worker
    BY <1>1 DEF Worker
  <2>3. /\ worker' \in [Callers -> Worker] /\ worker'[c] = [worker[c] EXCEPT !.answer = "none"]
        /\ \A d \in Callers \ {c} : worker'[d] = worker[d]
    BY <1>1, <2>1, <2>2, WorkerField
  <2>4. Proc(c)' = Proc(c) /\ worker'[c].served = worker[c].served
    BY <1>1, <2>3 DEF Proc, Worker
  <2>5. Proc(c) \notin Live /\ State(c) # "CREATED"
    <3>1. State(c) = "CREATED" => Quiet(c)
      BY <1>1 DEF CallerOK, StateOK
    <3>2. Proc(c) \in Live => State(c) = "WAITING" \/ Callback(c) = "confirm"
      BY <1>1, <1>3, CallerTyped DEF CallerOK, StateOK, States, Live
    <3>3. Proc(c) \in Live => Quiet(c)
      BY <1>1, <3>2 DEF CallerOK, FlowOK
    <3>4. Proc(c) \notin Live
      BY <1>1, <3>3 DEF Quiet
    <3>5. State(c) # "CREATED"
      BY <1>1, <3>1 DEF Quiet
    <3>6. QED
      BY <3>4, <3>5
  <2>6. QED
    BY <1>1, <2>1, <2>3, <2>4, <2>5, DeadFlow, WorkerStep DEF CallerOK, ServedOK, TypeOK
<1>4. CASE State(c) = "IN_CALL" /\ worker[c].answer = "good"
  BY <1>4, AnswerReadOK
<1>5. QED
  BY <1>2, <1>3, <1>4

LEMMA Stdio4OK ==
  ASSUME CInv, NEW c \in Callers, Stdio4(c)
  PROVE  CInv'
<1>1. /\ TypeOK /\ CallerOK(c) /\ c \notin running /\ worker[c] \in Worker /\ caller[c] \in Caller
      /\ worker[c].confirm
  BY DEF CInv, Stdio4, TypeOK
<1>2. /\ worker' = [worker EXCEPT ![c] = [worker[c] EXCEPT !.confirm = FALSE]]
      /\ UNCHANGED <<running, calls, faults>>
  BY <1>1 DEF Stdio4, TypeOK
<1>3. [worker[c] EXCEPT !.confirm = FALSE] \in Worker
  BY <1>1 DEF Worker
<1>4. /\ worker' \in [Callers -> Worker] /\ worker'[c] = [worker[c] EXCEPT !.confirm = FALSE]
      /\ \A d \in Callers \ {c} : worker'[d] = worker[d]
  BY <1>1, <1>2, <1>3, WorkerField
<1>5. /\ Proc(c)' = Proc(c) /\ worker'[c].served = worker[c].served /\ ~worker'[c].confirm
      /\ worker'[c].input = worker[c].input /\ worker'[c].answer = worker[c].answer
  BY <1>1, <1>4 DEF Proc, Worker
<1>6. State(c) # "CREATED"
  BY <1>1 DEF CallerOK, StateOK
<1>7. CASE State(c) = "RESTARTING"
  <2>1. /\ caller' = Restarted(c) /\ Settled(c, TRUE) /\ Callback(c) = "confirm" /\ Lent(c)
        /\ caller[c].child
    BY <1>1, <1>7 DEF Stdio4, CallerOK, StateOK, PoolOK
  <2>2. /\ idle' \subseteq Callers /\ holder' \in [Callers -> Requests \cup {NoRequest}]
        /\ request' \in [Requests -> {"none", "waiting", "served", "ended"}]
        /\ \A d \in Callers \ {c} : holder'[d] = holder[d] /\ (d \in idle' <=> d \in idle)
        /\ c \in idle' /\ holder'[c] = NoRequest
    BY <1>1, <2>1, SettledPool
  <2>3. pooled' = pooled /\ unhealthy' = unhealthy /\ closing' = closing
    BY <2>1 DEF Settled, Release, Callback
  <2>4. Proc(c) \in Live => Renewed(c)' /\ Quiet(c)' /\ ~worker'[c].confirm
    <3>1. Proc(c) \in Live => Quiet(c) /\ Renewed(c)
      BY <1>1, <2>1 DEF CallerOK, FlowOK, Renewing
    <3>2. QED
      BY <1>5, <3>1 DEF Quiet, Renewed
  <2>5. running' \subseteq Callers /\ c \notin running' /\ \A d \in Callers : d \in running' <=> d \in running
    BY <1>1, <1>2 DEF TypeOK
  <2>6. QED
    BY <1>2, <1>4, <1>5, <1>6, <2>1, <2>2, <2>3, <2>4, <2>5, ReleaseOK
<1>8. CASE State(c) # "RESTARTING"
  <2>1. /\ caller' = [caller EXCEPT ![c] = [caller[c] EXCEPT !.confirmed = TRUE]]
        /\ UNCHANGED poolVars
    BY <1>1, <1>8 DEF Stdio4, TypeOK
  <2>2. [caller[c] EXCEPT !.confirmed = TRUE] \in Caller
    BY <1>1 DEF Caller
  <2>3. /\ caller' \in [Callers -> Caller] /\ caller'[c] = [caller[c] EXCEPT !.confirmed = TRUE]
        /\ \A d \in Callers \ {c} : caller'[d] = caller[d]
    BY <1>1, <2>1, <2>2 DEF TypeOK
  <2>4. /\ State(c)' = State(c) /\ Callback(c)' = Callback(c) /\ caller'[c].timer = caller[c].timer
        /\ caller'[c].child = caller[c].child /\ caller'[c].confirmed
    BY <1>1, <2>3 DEF Caller, State, Callback
  <2>5. TypeOK' /\ OthersStay(c)
    BY <1>1, <1>2, <1>4, <2>1, <2>3 DEF TypeOK, OthersStay, poolVars
  <2>6. /\ (Lent(c)' <=> Lent(c)) /\ Holder(c)' = Holder(c)
        /\ pooled' = pooled /\ idle' = idle /\ unhealthy' = unhealthy /\ running' = running
    BY <1>2, <2>1 DEF Lent, Holder, poolVars
  <2>7. StateOK(c)' /\ ServedOK(c)'
    BY <1>1, <1>5, <1>6, <2>4, <2>6 DEF CallerOK, StateOK, ServedOK
  <2>8. PoolOK(c)'
    BY <1>1, <1>5, <2>4, <2>6 DEF CallerOK, PoolOK
  <2>9. FlowOK(c)'
    <3>1. SUFFICES ASSUME Proc(c) \in Live PROVE FlowOK(c)'
      BY <1>5, DeadFlow
    <3>2. ~Used(c)
      BY <1>1 DEF Used
    <3>3. /\ State(c) # "WAITING" /\ Callback(c) # "ping" /\ Callback(c) # "confirm"
          /\ Callback(c) = "call" =>
               /\ worker[c].served \subseteq {Holder(c)} \ {NoRequest}
               /\ Quiet(c) /\ Proc(c) \in {"hung", "leaving", "forked"}
          /\ Callback(c) = "restart" => Replied(c) /\ Renewing(c)
      BY <1>1, <1>8, <3>1, <3>2 DEF CallerOK, FlowOK, StateOK
    <3>4. Renewing(c) => Renewed(c)
      BY <1>1, <3>2 DEF Renewing
    <3>5. (Quiet(c)' <=> Quiet(c)) /\ (Replied(c)' <=> Replied(c)) /\ (Renewed(c)' <=> Renewed(c))
      BY <1>5 DEF Quiet, Replied, Renewed
    <3>6. Renewed(c) => Renewing(c)'
      BY <1>5, <2>4, <3>5 DEF Renewing
    <3>7. QED
      BY <1>5, <2>4, <2>6, <3>3, <3>4, <3>5, <3>6 DEF FlowOK
  <2>10. QED
    BY <2>5, <2>7, <2>8, <2>9, StepOf DEF CallerOK
<1>9. QED
  BY <1>7, <1>8

-----------------------------------------------------------------------------
(* The processes of a caller. *)

LEMMA WorkerTyped ==
  ASSUME CInv, NEW c \in Callers
  PROVE  /\ TypeOK /\ CallerOK(c) /\ worker[c] \in Worker
         /\ \A p \in Processes, i \in BOOLEAN, a \in {"none", "good", "garbled"},
               k \in BOOLEAN, q \in SUBSET Requests :
              [proc |-> p, input |-> i, answer |-> a, confirm |-> k, served |-> q] \in Worker
         /\ worker[c] = [proc |-> Proc(c), input |-> worker[c].input, answer |-> worker[c].answer,
                         confirm |-> worker[c].confirm, served |-> worker[c].served]
         /\ worker[c].served \subseteq Requests
BY DEF CInv, TypeOK, Worker, Proc

LEMMA ReadOK ==
  ASSUME CInv, NEW c \in Callers, Read(c)
  PROVE  CInv'
<1>1. /\ TypeOK /\ CallerOK(c) /\ worker[c] \in Worker /\ Proc(c) = "forked" /\ worker[c].input
      /\ holder[c] \in Requests \cup {NoRequest}
  BY WorkerTyped, CallerTyped DEF Read
<1> DEFINE q == IF Callback(c) = "call" THEN worker[c].served \cup {holder[c]} ELSE worker[c].served
           x == [worker[c] EXCEPT !.proc = "busy", !.input = FALSE, !.served = q]
<1>2. worker' = [worker EXCEPT ![c] = x]
  BY <1>1 DEF Read, TypeOK, Callback
<1>3. q \subseteq Requests
  BY <1>1 DEF CallerOK, PoolOK, Lent, Worker
<1>4. x \in Worker
  BY <1>1, <1>3 DEF Worker, Processes
<1>5. /\ worker' \in [Callers -> Worker] /\ worker'[c] = x
      /\ \A d \in Callers \ {c} : worker'[d] = worker[d]
  BY <1>1, <1>2, <1>4, WorkerField
<1>6. /\ Proc(c)' = "busy" /\ ~worker'[c].input /\ worker'[c].served = q
      /\ worker'[c].answer = worker[c].answer /\ worker'[c].confirm = worker[c].confirm
  BY <1>1, <1>5 DEF Proc, Worker
<1>7. /\ State(c)' = State(c) /\ Callback(c)' = Callback(c) /\ Holder(c)' = Holder(c)
      /\ caller' = caller /\ running' = running
  BY DEF Read, procVars, State, Callback, Holder, poolVars
<1>8. Callback(c) \in {"ping", "call", "restart"} /\ Unread(c) /\ Used(c) /\ State(c) # "WAITING"
      /\ (Callback(c) = "restart" => ~caller[c].confirmed)
  BY <1>1, CallerTyped
     DEF CallerOK, FlowOK, StateOK, States, Callbacks, Live, InCall, Quiet, Replied, Unread, InWork
<1>9. q \subseteq {Holder(c)} \ {NoRequest} /\ Used(c)' /\ InWork(c)'
  BY <1>1, <1>6, <1>7, <1>8 DEF Used, Unread, InWork, Quiet, Holder, CallerOK, PoolOK, Lent
<1>10. FlowOK(c)' /\ ServedOK(c)'
  <2>1. FlowOK(c)'
    BY <1>6, <1>7, <1>8, <1>9 DEF FlowOK, InCall
  <2>2. ServedOK(c)'
    BY <1>6, <1>9 DEF ServedOK
  <2>3. QED
    BY <2>1, <2>2
<1>11. QED
  BY <1>1, <1>5, <1>8, <1>10, WorkerStep DEF Read, procVars, Live, TypeOK, CallerOK, StateOK

\* A worker works only for a caller that waits for its answer.
LEMMA Busy ==
  ASSUME CInv, NEW c \in Callers, Proc(c) = "busy"
  PROVE  /\ Callback(c) \in {"ping", "call", "restart"} /\ State(c) # "WAITING" /\ State(c) # "CREATED"
         /\ InWork(c) /\ Used(c) /\ (Callback(c) = "restart" => ~caller[c].confirmed)
<1>1. TypeOK /\ CallerOK(c)
  BY DEF CInv
<1>2. QED
  BY <1>1, CallerTyped
     DEF CallerOK, FlowOK, StateOK, States, Callbacks, Live, InCall, Quiet, Replied, Unread, InWork,
         Renewing, Renewed

LEMMA AnswerOK ==
  ASSUME CInv, NEW c \in Callers, Answer(c)
  PROVE  CInv'
<1>1. /\ TypeOK /\ CallerOK(c) /\ worker[c] \in Worker /\ Proc(c) = "busy"
  BY WorkerTyped DEF Answer
<1>2. PICK a \in {"good", "garbled"} :
        /\ worker' = [worker EXCEPT ![c] = [worker[c] EXCEPT
             !.proc = IF Callback(c) = "restart" THEN "leaving" ELSE "forked", !.answer = a]]
        /\ IF a = "garbled" THEN Fault /\ Callback(c) = "call" ELSE faults' = faults
  BY <1>1 DEF Answer, TypeOK, Callback
<1> DEFINE x == [worker[c] EXCEPT
                   !.proc = IF Callback(c) = "restart" THEN "leaving" ELSE "forked", !.answer = a]
<1>3. x \in Worker
  BY <1>1 DEF Worker, Processes
<1>4. /\ worker' \in [Callers -> Worker] /\ worker'[c] = x
      /\ \A d \in Callers \ {c} : worker'[d] = worker[d]
  BY <1>1, <1>2, <1>3, WorkerField
<1>5. /\ Proc(c)' = IF Callback(c) = "restart" THEN "leaving" ELSE "forked"
      /\ worker'[c].answer = a /\ worker'[c].input = worker[c].input
      /\ worker'[c].served = worker[c].served /\ worker'[c].confirm = worker[c].confirm
  BY <1>1, <1>4 DEF Proc, Worker
<1>6. /\ State(c)' = State(c) /\ Callback(c)' = Callback(c) /\ Holder(c)' = Holder(c)
      /\ caller' = caller /\ running' = running
  BY DEF Answer, procVars, State, Callback, Holder, poolVars
<1>7. faults' \in 0..MaxFaults
  BY <1>1, <1>2, CallersAssumption DEF Fault, TypeOK
<1>8. Used(c)' /\ Replied(c)'
  BY <1>1, <1>5, <1>6, Busy DEF Used, Replied, InWork, Quiet
<1>9. FlowOK(c)'
  <2>1. CASE Callback(c) = "restart"
    BY <1>1, <1>5, <1>6, <1>8, <2>1, Busy DEF FlowOK, Renewing, Used
  <2>2. CASE Callback(c) \in {"ping", "call"}
    BY <1>1, <1>5, <1>6, <1>8, <2>2, Busy DEF FlowOK, InCall, Used
  <2>3. QED
    BY <1>1, <2>1, <2>2, Busy
<1>10. ServedOK(c)'
  BY <1>1, <1>5 DEF CallerOK, ServedOK
<1>11. QED
  BY <1>1, <1>4, <1>7, <1>9, <1>10, Busy, WorkerStep DEF Answer, procVars, Live

LEMMA MisbehaveOK ==
  ASSUME CInv, NEW c \in Callers, Misbehave(c)
  PROVE  CInv'
<1>1. /\ TypeOK /\ CallerOK(c) /\ worker[c] \in Worker /\ Proc(c) = "busy" /\ Callback(c) = "call"
  BY WorkerTyped DEF Misbehave, Callback
<1>2. PICK p \in {"hung", "leaving"} : worker' = [worker EXCEPT ![c] = [worker[c] EXCEPT !.proc = p]]
  BY <1>1 DEF Misbehave, TypeOK
<1>3. [worker[c] EXCEPT !.proc = p] \in Worker
  BY <1>1 DEF Worker, Processes
<1>4. /\ worker' \in [Callers -> Worker] /\ worker'[c] = [worker[c] EXCEPT !.proc = p]
      /\ \A d \in Callers \ {c} : worker'[d] = worker[d]
  BY <1>1, <1>2, <1>3, WorkerField
<1>5. /\ Proc(c)' = p /\ worker'[c].answer = worker[c].answer /\ worker'[c].input = worker[c].input
      /\ worker'[c].served = worker[c].served /\ worker'[c].confirm = worker[c].confirm
  BY <1>1, <1>4 DEF Proc, Worker
<1>6. /\ State(c)' = State(c) /\ Callback(c)' = Callback(c) /\ Holder(c)' = Holder(c)
      /\ caller' = caller /\ running' = running
  BY DEF Misbehave, procVars, State, Callback, Holder, poolVars
<1>7. faults' \in 0..MaxFaults
  BY <1>1, CallersAssumption DEF Misbehave, Fault, TypeOK
<1>8. Quiet(c)' /\ worker[c].served \subseteq {Holder(c)} \ {NoRequest}
  BY <1>1, <1>5, Busy DEF Used, InWork, Quiet
<1>9. FlowOK(c)'
  BY <1>1, <1>5, <1>6, <1>8, Busy DEF FlowOK
<1>10. ServedOK(c)'
  BY <1>1, <1>5 DEF CallerOK, ServedOK
<1>11. QED
  BY <1>1, <1>4, <1>7, <1>9, <1>10, Busy, WorkerStep DEF Misbehave, procVars, Live

LEMMA ForkOK ==
  ASSUME CInv, NEW c \in Callers, Fork(c)
  PROVE  CInv'
<1>1. TypeOK /\ CallerOK(c) /\ worker[c] \in Worker /\ Proc(c) = "leaving"
  BY WorkerTyped DEF Fork
<1> DEFINE x == [worker[c] EXCEPT !.proc = "forked", !.confirm = TRUE, !.served = {}]
<1>2. worker' = [worker EXCEPT ![c] = x]
  BY <1>1 DEF Fork, TypeOK
<1>3. x \in Worker
  BY <1>1 DEF Worker, Processes
<1>4. /\ worker' \in [Callers -> Worker] /\ worker'[c] = x
      /\ \A d \in Callers \ {c} : worker'[d] = worker[d]
  BY <1>1, <1>2, <1>3, WorkerField
<1>5. /\ Proc(c)' = "forked" /\ worker'[c].answer = worker[c].answer
      /\ worker'[c].input = worker[c].input /\ worker'[c].served = {} /\ worker'[c].confirm
  BY <1>1, <1>4 DEF Proc, Worker
<1>6. /\ State(c)' = State(c) /\ Callback(c)' = Callback(c) /\ Holder(c)' = Holder(c)
      /\ (Lent(c)' <=> Lent(c)) /\ caller' = caller /\ running' = running
  BY DEF Fork, procVars, State, Callback, Holder, poolVars, Lent
<1>7. faults' \in 0..MaxFaults
  BY <1>1 DEF Fork, TypeOK
<1>8. (Quiet(c)' <=> Quiet(c)) /\ (Replied(c)' <=> Replied(c)) /\ Renewed(c)'
  BY <1>5 DEF Quiet, Replied, Renewed
<1>9. Renewing(c) => ~caller[c].confirmed
  BY <1>1 DEF Renewing, Renewed
<1>10. Renewing(c) => Renewing(c)'
  BY <1>5, <1>6, <1>8, <1>9 DEF Renewing
<1>11. FlowOK(c)'
  <2>1. Proc(c) \in Live /\ FlowOK(c) /\ ~InCall(c) /\ ~Unread(c) /\ ~InWork(c)
    BY <1>1 DEF Live, CallerOK, InCall, Unread, InWork
  <2>2. QED
    BY <1>1, <1>5, <1>6, <1>8, <1>9, <1>10, <2>1 DEF FlowOK
<1>12. ServedOK(c)'
  BY <1>5 DEF ServedOK
<1>13. State(c) # "CREATED"
  BY <1>1 DEF CallerOK, StateOK
<1>14. QED
  BY <1>1, <1>4, <1>7, <1>11, <1>12, <1>13, WorkerStep DEF Fork, procVars, Live

LEMMA DieOK ==
  ASSUME CInv, NEW c \in Callers, Die(c)
  PROVE  CInv'
<1>1. TypeOK /\ CallerOK(c) /\ worker[c] \in Worker /\ Proc(c) \in Live \cup {"killed"}
  BY WorkerTyped DEF Die
<1>2. worker' = [worker EXCEPT ![c] = [worker[c] EXCEPT !.proc = "dead"]]
  BY <1>1 DEF Die, TypeOK
<1>3. [worker[c] EXCEPT !.proc = "dead"] \in Worker
  BY <1>1 DEF Worker, Processes
<1>4. /\ worker' \in [Callers -> Worker] /\ worker'[c] = [worker[c] EXCEPT !.proc = "dead"]
      /\ \A d \in Callers \ {c} : worker'[d] = worker[d]
  BY <1>1, <1>2, <1>3, WorkerField
<1>5. Proc(c)' \notin Live /\ worker'[c].served = worker[c].served
  BY <1>1, <1>4 DEF Proc, Worker, Live
<1>6. faults' \in 0..MaxFaults
  BY <1>1, CallersAssumption DEF Die, Fault, TypeOK
<1>7. ServedOK(c)' /\ State(c) # "CREATED"
  BY <1>1, <1>5 DEF CallerOK, ServedOK, StateOK, Live
<1>8. QED
  BY <1>1, <1>4, <1>5, <1>6, <1>7, DeadFlow, WorkerStep DEF Die, procVars

-----------------------------------------------------------------------------
(* The invariant. *)

LEMMA NothingMoves ==
  ASSUME CInv, UNCHANGED <<caller, worker, running, pooled, idle, unhealthy, holder>>, TypeOK'
  PROVE  CInv'
<1>1. SUFFICES ASSUME NEW c \in Callers PROVE CallerOK(c)'
  BY DEF CInv
<1>2. OthersStay(c)
  BY DEF OthersStay
<1>3. CallerOK(c) /\ State(c)' = State(c) /\ Callback(c)' = Callback(c) /\ Proc(c)' = Proc(c)
      /\ Holder(c)' = Holder(c) /\ (Lent(c)' <=> Lent(c))
  BY DEF CInv, State, Callback, Proc, Holder, Lent
<1>4. StateOK(c)' /\ PoolOK(c)' /\ ServedOK(c)'
  BY <1>3 DEF CallerOK, StateOK, PoolOK, ServedOK, Quiet
<1>5. FlowOK(c)'
  BY <1>3 DEF CallerOK, FlowOK, Quiet, Unread, InWork, Replied, InCall, Used, Renewed, Renewing
<1>6. QED
  BY <1>4, <1>5 DEF CallerOK

LEMMA CallersStep == CInv /\ [Next]_vars => CInv'
<1>1. SUFFICES ASSUME CInv, [Next]_vars PROVE CInv'
  OBVIOUS
<1>2. TypeOK
  BY <1>1 DEF CInv
<1>3. ASSUME NEW r \in Requests, Ask(r) PROVE CInv'
  BY <1>1, <1>2, <1>3, NothingMoves DEF Ask, TypeOK
<1>4. CASE Finish
  BY <1>1, <1>2, <1>4, NothingMoves DEF Finish, TypeOK
<1>5. CASE UNCHANGED vars
  BY <1>1, <1>2, <1>5, NothingMoves DEF vars, TypeOK
<1>6. QED
  BY <1>1, <1>3, <1>4, <1>5, StartChildOK, PingOK, MakeCallOK, RestartOK, ResumeOK, PoolCallsOK,
     Stdio3OK, Stdio4OK, ChildExitOK, ChildErrorOK, TimeoutOK, ReadOK, AnswerOK, MisbehaveOK,
     ForkOK, DieOK, AcquireOK DEF Next

LEMMA CallersInvariant == Spec => []CInv
<1>1. QED
  BY InitOK, CallersStep, PTL DEF Spec

\* The fields of a caller have their types and fit its state (_checkState).
THEOREM CallersConsistent == Spec => [](TypeOK /\ Consistent)
<1>1. CInv => TypeOK /\ Consistent
  <2>1. SUFFICES ASSUME CInv, NEW c \in Callers
                 PROVE  /\ caller[c].child = (State(c) \notin {"CREATED", "EXITED"})
                        /\ (caller[c].callback # "none") = (State(c) \in {"IN_CALL", "RESTARTING"})
                        /\ caller[c].timer = (State(c) \in {"IN_CALL", "RESTARTING"})
    BY DEF CInv, Consistent
  <2>2. caller[c].child \in BOOLEAN /\ caller[c].timer \in BOOLEAN /\ Callback(c) \in Callbacks
    BY <2>1, CallerTyped DEF CInv, Caller
  <2>3. StateOK(c)
    BY <2>1 DEF CInv, CallerOK
  <2>4. caller[c].callback # "none" <=> State(c) \in {"IN_CALL", "RESTARTING"}
    BY <2>2, <2>3 DEF StateOK, Callbacks, Callback
  <2>5. QED
    BY <2>2, <2>3, <2>4 DEF StateOK
<1>2. QED
  BY <1>1, CallersInvariant, PTL

\* The worker behind a caller that can be lent has run nothing, and nothing
\* of an earlier request is on its way (withCodeCaller, restart).
THEOREM GivenBackClean == Spec => []ReleasedClean
<1>1. CInv => ReleasedClean
  <2>1. SUFFICES ASSUME CInv, NEW c \in idle, Proc(c) \in Live
                 PROVE  /\ State(c) = "WAITING"
                        /\ worker[c] = [proc |-> "forked", input |-> FALSE, answer |-> "none",
                                        confirm |-> FALSE, served |-> {}]
    BY DEF ReleasedClean
  <2>2. c \in Callers /\ CallerOK(c) /\ TypeOK
    BY <2>1 DEF CInv, TypeOK
  <2>3. ~Lent(c) /\ c \notin running /\ Callback(c) = "none" /\ State(c) = "WAITING"
    BY <2>1, <2>2, CallerTyped DEF CallerOK, PoolOK, StateOK, States, Live
  <2>4. Quiet(c) /\ Proc(c) = "forked" /\ Used(c)
    BY <2>1, <2>2, <2>3 DEF CallerOK, FlowOK
  <2>5. /\ worker[c].served = {} /\ worker[c].proc = "forked" /\ worker[c].answer = "none"
        /\ ~worker[c].input /\ ~worker[c].confirm
    BY <2>3, <2>4 DEF Used, Quiet, Lent, Holder, Proc
  <2>6. /\ worker[c].input \in BOOLEAN /\ worker[c].confirm \in BOOLEAN
        /\ worker[c] = [proc |-> worker[c].proc, input |-> worker[c].input,
                        answer |-> worker[c].answer, confirm |-> worker[c].confirm,
                        served |-> worker[c].served]
    BY <2>2 DEF TypeOK, Worker
  <2>7. worker[c].input = FALSE /\ worker[c].confirm = FALSE
    BY <2>5, <2>6
  <2>8. QED
    BY <2>3, <2>5, <2>6, <2>7
<1>2. QED
  BY <1>1, CallersInvariant, PTL

\* No worker process runs code of two requests.
THEOREM WorkersServeOne == Spec => []OneRequestPerWorker
<1>1. CInv => OneRequestPerWorker
  BY DEF CInv, CallerOK, ServedOK, OneRequestPerWorker
<1>2. QED
  BY <1>1, CallersInvariant, PTL

\* A process that was not told to end has its caller in the pool.
THEOREM NoneOrphaned == Spec => []NoOrphans
<1>1. CInv => NoOrphans
  BY DEF CInv, CallerOK, PoolOK, NoOrphans
<1>2. QED
  BY <1>1, CallersInvariant, PTL
-----------------------------------------------------------------------------
(* The state machine of the comment in code-caller-native.js. *)

Transitions ==
  {<<"CREATED", "WAITING">>, <<"WAITING", "IN_CALL">>, <<"WAITING", "RESTARTING">>,
   <<"WAITING", "EXITING">>, <<"WAITING", "EXITED">>,
   <<"IN_CALL", "WAITING">>, <<"IN_CALL", "EXITING">>, <<"IN_CALL", "EXITED">>,
   <<"RESTARTING", "WAITING">>, <<"RESTARTING", "EXITING">>, <<"EXITING", "EXITED">>}

\* A step moves one caller from a state to another one, or none.
Moved(c, s) ==
  /\ <<State(c), s>> \in Transitions \/ s = State(c)
  /\ State(c)' = s
  /\ \A d \in Callers \ {c} : State(d)' = State(d)

LEMMA StateMoves ==
  ASSUME TypeOK, NEW c \in Callers, NEW x \in Caller, caller' = [caller EXCEPT ![c] = x],
         <<State(c), x.state>> \in Transitions \/ x.state = State(c)
  PROVE  \E s \in States : Moved(c, s)
<1>1. x.state \in States
  BY DEF Caller
<1>2. State(c)' = x.state /\ \A d \in Callers \ {c} : State(d)' = State(d)
  BY DEF State, TypeOK
<1>3. QED
  BY <1>1, <1>2 DEF Moved

LEMMA AnsweredMoves ==
  ASSUME TypeOK, NEW c \in Callers, NEW s \in States, caller' = Answered(c, s),
         <<State(c), s>> \in Transitions
  PROVE  Moved(c, s)
BY AnsweredFields DEF Moved, State

LEMMA CallMoves ==
  ASSUME TypeOK, NEW c \in Callers, NEW kind \in Callbacks, Call(c, kind)
  PROVE  Moved(c, "IN_CALL")
<1>1. State(c) = "WAITING" /\ State(c)' = "IN_CALL" /\ \A d \in Callers \ {c} : caller'[d] = caller[d]
  BY CallFields
<1>2. QED
  BY <1>1 DEF Moved, Transitions, State

LEMMA DoneMoves ==
  ASSUME TypeOK, NEW c \in Callers, Done(c)
  PROVE  UNCHANGED caller \/ Moved(c, "EXITING")
<1>1. CASE State(c) = "WAITING"
  <2>1. caller' = [caller EXCEPT ![c] = [caller[c] EXCEPT !.state = "EXITING"]]
        /\ caller[c] \in Caller
    BY <1>1 DEF Done, TypeOK
  <2>2. State(c)' = "EXITING" /\ \A d \in Callers \ {c} : State(d)' = State(d)
    BY <2>1 DEF State, TypeOK, Caller
  <2>3. QED
    BY <1>1, <2>2 DEF Moved, Transitions
<1>2. CASE State(c) # "WAITING"
  BY <1>2 DEF Done
<1>3. QED
  BY <1>1, <1>2

LEMMA RestartedMoves ==
  ASSUME TypeOK, NEW c \in Callers, caller' = Restarted(c), State(c) \in {"WAITING", "RESTARTING"}
  PROVE  Moved(c, "WAITING")
BY RestartedFields DEF Moved, Transitions, State

LEMMA EveryStepMoves ==
  ASSUME CInv, NEW c \in Callers,
         \/ StartChild(c) \/ Ping(c) \/ MakeCall(c) \/ Restart(c) \/ Resume(c)
         \/ DestroyUnhealthy(c) \/ Clear(c)
         \/ Stdio3(c) \/ Stdio4(c) \/ ChildExit(c) \/ ChildError(c) \/ Timeout(c)
         \/ Read(c) \/ Answer(c) \/ Misbehave(c) \/ Fork(c) \/ Die(c)
  PROVE  UNCHANGED caller \/ \E s \in States : Moved(c, s)
<1>0. /\ TypeOK /\ CallerOK(c) /\ caller[c] \in Caller /\ State(c) \in States
      /\ {"WAITING", "IN_CALL", "RESTARTING", "EXITING", "EXITED"} \subseteq States
      /\ {"ping", "call", "restart"} \subseteq Callbacks
  BY CallerTyped DEF CInv, States, Callbacks
<1>1. CASE StartChild(c)
  <2>1. /\ caller' = [caller EXCEPT ![c] = [caller[c] EXCEPT !.state = "WAITING", !.child = TRUE]]
        /\ State(c) = "CREATED"
    BY <1>0, <1>1 DEF StartChild, TypeOK
  <2>2. [caller[c] EXCEPT !.state = "WAITING", !.child = TRUE] \in Caller
    BY <1>0 DEF Caller
  <2>3. [caller[c] EXCEPT !.state = "WAITING", !.child = TRUE].state = "WAITING"
    BY <1>0 DEF Caller
  <2>4. QED
    BY <1>0, <2>1, <2>2, <2>3, StateMoves DEF Transitions
<1>2. CASE Ping(c) \/ MakeCall(c) \/ Restart(c)
  BY <1>0, <1>2, CallMoves DEF Ping, MakeCall, Restart
<1>3. CASE Resume(c)
  <2>1. State(c) = "WAITING"
    BY <1>0, <1>3 DEF Resume, CallerOK, StateOK
  <2>2. CASE caller[c].confirmed
    BY <1>0, <1>3, <2>1, <2>2, RestartedMoves DEF Resume
  <2>3. CASE ~caller[c].confirmed
    <3> DEFINE x == [caller[c] EXCEPT !.state = "RESTARTING", !.callback = "confirm", !.timer = TRUE]
    <3>1. caller' = [caller EXCEPT ![c] = x]
      BY <1>0, <1>3, <2>3 DEF Resume, TypeOK
    <3>2. x \in Caller /\ x.state = "RESTARTING"
      BY <1>0 DEF Caller, Callbacks
    <3>3. QED
      BY <1>0, <2>1, <3>1, <3>2, StateMoves DEF Transitions
  <2>4. QED
    BY <2>2, <2>3
<1>4. CASE DestroyUnhealthy(c) \/ Clear(c)
  BY <1>0, <1>4, DoneMoves DEF DestroyUnhealthy, Clear
<1>5. CASE Stdio3(c)
  <2>1. CASE State(c) = "IN_CALL"
    BY <1>0, <1>5, <2>1, AnsweredMoves DEF Stdio3, Transitions
  <2>2. CASE State(c) # "IN_CALL"
    BY <1>5, <2>2 DEF Stdio3
  <2>3. QED
    BY <2>1, <2>2
<1>6. CASE Stdio4(c)
  <2>1. CASE State(c) = "RESTARTING"
    BY <1>0, <1>6, <2>1, RestartedMoves DEF Stdio4
  <2>2. CASE State(c) # "RESTARTING"
    <3>1. caller' = [caller EXCEPT ![c] = [caller[c] EXCEPT !.confirmed = TRUE]]
      BY <1>0, <1>6, <2>2 DEF Stdio4, TypeOK
    <3>2. /\ [caller[c] EXCEPT !.confirmed = TRUE] \in Caller
          /\ [caller[c] EXCEPT !.confirmed = TRUE].state = State(c)
      BY <1>0 DEF Caller, State
    <3>3. QED
      BY <1>0, <3>1, <3>2, StateMoves
  <2>3. QED
    BY <2>1, <2>2
<1>7. CASE ChildExit(c)
  <2>1. CASE State(c) = "IN_CALL"
    <3>1. caller' = [Answered(c, "EXITED") EXCEPT ![c].child = FALSE]
      BY <1>7, <2>1 DEF ChildExit
    <3>2. /\ Answered(c, "EXITED") \in [Callers -> Caller] /\ Answered(c, "EXITED")[c].state = "EXITED"
          /\ \A d \in Callers \ {c} : Answered(c, "EXITED")[d] = caller[d]
      BY <1>0, AnsweredFields
    <3>3. State(c)' = "EXITED" /\ \A d \in Callers \ {c} : State(d)' = State(d)
      BY <3>1, <3>2 DEF State, Caller
    <3>4. QED
      BY <1>0, <2>1, <3>3 DEF Moved, Transitions
  <2>2. CASE State(c) \in {"WAITING", "EXITING"}
    <3> DEFINE x == [caller[c] EXCEPT !.state = "EXITED", !.child = FALSE]
    <3>1. caller' = [caller EXCEPT ![c] = x]
      BY <1>0, <1>7, <2>2 DEF ChildExit, TypeOK
    <3>2. x \in Caller /\ x.state = "EXITED"
      BY <1>0 DEF Caller
    <3>3. QED
      BY <1>0, <2>2, <3>1, <3>2, StateMoves DEF Transitions
  <2>3. CASE State(c) \notin {"IN_CALL", "WAITING", "EXITING"}
    BY <1>7, <2>3 DEF ChildExit
  <2>4. QED
    BY <2>1, <2>2, <2>3
<1>8. CASE ChildError(c) \/ Timeout(c)
  <2>1. caller' = Answered(c, "EXITING") /\ State(c) \in {"IN_CALL", "RESTARTING"}
    BY <1>0, <1>8 DEF ChildError, Timeout, CallerOK, StateOK, Callback
  <2>2. QED
    BY <1>0, <2>1, AnsweredMoves DEF Transitions
<1>9. CASE Read(c) \/ Answer(c) \/ Misbehave(c) \/ Fork(c) \/ Die(c)
  BY <1>9 DEF Read, Answer, Misbehave, Fork, Die, procVars
<1>10. QED
  BY <1>1, <1>2, <1>3, <1>4, <1>5, <1>6, <1>7, <1>8, <1>9

\* A promise is pending in the two states in which a caller works.
LEMMA Pending ==
  ASSUME CInv, NEW c \in Callers
  PROVE  (caller[c].callback # "none") = (State(c) \in Lifecycle!Working)
<1>1. StateOK(c) /\ Callback(c) \in Callbacks
  BY CallerTyped DEF CInv, CallerOK
<1>2. QED
  BY <1>1 DEF StateOK, Callbacks, Callback, Lifecycle!Working

LEMMA PendingPrime ==
  ASSUME CInv', NEW c \in Callers
  PROVE  (caller'[c].callback # "none") = (State(c)' \in Lifecycle!Working)
<1>1. StateOK(c)' /\ caller'[c] \in Caller
  BY DEF CInv, CallerOK, TypeOK
<1>2. Callback(c)' \in Callbacks
  BY <1>1 DEF Caller, Callback
<1>3. QED
  BY <1>1, <1>2 DEF StateOK, Callbacks, Callback, Lifecycle!Working

LEMMA LifecycleStep ==
  ASSUME CInv, CInv', NEW c \in Callers, NEW s \in States, Moved(c, s), s # State(c)
  PROVE  Lifecycle!Next
<1>1. \A d \in Callers : caller'[d].state = IF d = c THEN s ELSE caller[d].state
  BY DEF Moved, State
<1>2. [d \in Callers |-> caller[d].state]' = [[d \in Callers |-> caller[d].state] EXCEPT ![c] = s]
  BY <1>1
<1>3. \A d \in Callers :
        (caller'[d].callback # "none") = IF d = c THEN s \in Lifecycle!Working
                                                  ELSE caller[d].callback # "none"
  <2>1. SUFFICES ASSUME NEW d \in Callers
                 PROVE  (caller'[d].callback # "none") =
                          IF d = c THEN s \in Lifecycle!Working ELSE caller[d].callback # "none"
    OBVIOUS
  <2>2. State(d)' = IF d = c THEN s ELSE State(d)
    BY DEF Moved
  <2>3. (caller'[d].callback # "none") = (State(d)' \in Lifecycle!Working)
    BY PendingPrime
  <2>4. (caller[d].callback # "none") = (State(d) \in Lifecycle!Working)
    BY Pending
  <2>5. QED
    BY <2>2, <2>3, <2>4
<1>4. [d \in Callers |-> caller[d].callback # "none"]'
        = [[d \in Callers |-> caller[d].callback # "none"] EXCEPT ![c] = s \in Lifecycle!Working]
  BY <1>3
<1>5. Lifecycle!Become(c, s)
  BY <1>2, <1>4 DEF Lifecycle!Become
<1>6. [d \in Callers |-> caller[d].state][c] = State(c) /\ <<State(c), s>> \in Transitions
  BY DEF State, Moved
<1>7. Lifecycle!Start(c) \/ Lifecycle!Accept(c) \/ Lifecycle!Settle(c) \/ Lifecycle!Leave(c)
  BY <1>5, <1>6 DEF Transitions, Lifecycle!Start, Lifecycle!Accept, Lifecycle!Settle, Lifecycle!Leave
<1>8. QED
  BY <1>7 DEF Lifecycle!Next

LEMMA LifecycleStutter ==
  ASSUME CInv, CInv', \A d \in Callers : State(d)' = State(d)
  PROVE  UNCHANGED Lifecycle!vars
<1>1. \A d \in Callers : caller'[d].state = caller[d].state
  BY DEF State
<1>2. ASSUME NEW d \in Callers
      PROVE  (caller'[d].callback # "none") = (caller[d].callback # "none")
  BY <1>2, Pending, PendingPrime
<1>3. /\ [d \in Callers |-> caller[d].state]' = [d \in Callers |-> caller[d].state]
      /\ [d \in Callers |-> caller[d].callback # "none"]'
           = [d \in Callers |-> caller[d].callback # "none"]
  BY <1>1, <1>2
<1>4. QED
  BY <1>3 DEF Lifecycle!vars

LEMMA StepRefines == CInv /\ CInv' /\ [Next]_vars => [Lifecycle!Next]_(Lifecycle!vars)
<1>1. SUFFICES ASSUME CInv, CInv', [Next]_vars
               PROVE  Lifecycle!Next \/ UNCHANGED Lifecycle!vars
  OBVIOUS
<1>2. ASSUME NEW c \in Callers, NEW s \in States, Moved(c, s)
      PROVE  Lifecycle!Next \/ UNCHANGED Lifecycle!vars
  <2>1. CASE s = State(c)
    <3>1. \A d \in Callers : State(d)' = State(d)
      BY <1>2, <2>1 DEF Moved
    <3>2. QED
      BY <1>1, <3>1, LifecycleStutter
  <2>2. CASE s # State(c)
    BY <1>1, <1>2, <2>2, LifecycleStep
  <2>3. QED
    BY <2>1, <2>2
<1>3. CASE UNCHANGED caller
  BY <1>1, <1>3, LifecycleStutter DEF State
<1>4. ASSUME NEW r \in Requests, Ask(r) \/ Acquire(r) PROVE UNCHANGED caller
  BY <1>4 DEF Ask, Acquire
<1>5. CASE Finish \/ UNCHANGED vars
  BY <1>3, <1>5 DEF Finish, vars
<1>6. QED
  BY <1>1, <1>2, <1>3, <1>4, <1>5, EveryStepMoves DEF Next

\* The callers follow the documented state machine, and the step that leaves
\* a state in which a promise is pending settles it.
THEOREM LifecycleFollowed == Spec => FollowsLifecycle
<1>1. Init => Lifecycle!Init
  <2>1. SUFFICES ASSUME Init PROVE Lifecycle!Init
    OBVIOUS
  <2>2. \A c \in Callers : caller[c].state = "CREATED" /\ (caller[c].callback # "none") = FALSE
    BY <2>1 DEF Init
  <2>3. QED
    BY <2>2 DEF Lifecycle!Init
<1>2. QED
  BY <1>1, CallersInvariant, StepRefines, PTL DEF Spec, FollowsLifecycle, Lifecycle!Spec

=============================================================================
