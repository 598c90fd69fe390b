---------------------------- MODULE SimScheduler ----------------------------
(***************************************************************************)
(* The discrete-event loop everything runs on (lab/sim.py): a queue of     *)
(* events ordered by time and age, repeating timers, pollers between       *)
(* events, and the pacing of virtual time against the wall clock.          *)
(*                                                                         *)
(* One unit of virtual time is one of wall time at the scale 1.0; a larger *)
(* stretch is a slower simulation, and Unpaced is speed = 0.               *)
(***************************************************************************)
EXTENDS Integers, FiniteSets

CONSTANTS
    Series,             \* the repeating timers, started before the loop
    Interval,           \* the interval of each
    Delays,             \* delays a callback may ask for, negative ones too
    PollInterval,       \* virtual time from one poll to the next
    IdleStep,           \* what an idle loop sleeps
    Drains,             \* virtual times drain() is called for
    Stretches,          \* time scales: wall time per unit of virtual time
    MaxTime,            \* bound: virtual time
    MaxEvents           \* bound: events ever scheduled by a callback

Unpaced == 0

ASSUME SimAssumption ==
    /\ IsFiniteSet(Series)
    /\ Interval \in [Series -> Nat \ {0}]
    /\ Delays \subseteq Int
    /\ {PollInterval, IdleStep} \subseteq Nat \ {0}
    /\ IdleStep <= PollInterval    \* 2 ms and 5 ms
    /\ Stretches \subseteq Nat /\ Drains \subseteq Nat
    /\ {MaxTime, MaxEvents} \subseteq Nat
    /\ "once" \notin Series

VARIABLES
    now,                \* virtual time
    queue,              \* the events not yet popped, cancelled ones included
    count,              \* how many were ever scheduled
    cancelled,          \* series that were cancelled
    stage,              \* where the loop is
    nextPoll,           \* virtual time of the next poll
    horizon,            \* virtual time run() was asked to stop at
    stretch,            \* wall time per unit of virtual time
    wall,               \* the wall clock
    wallStart,          \* ... when run() was called
    stopped             \* stop() was called

queueVars == <<queue, count, cancelled>>
paceVars == <<horizon, stretch, wallStart>>
loopVars == <<now, queueVars, stage, nextPoll, paceVars, wall, stopped>>

NoHorizon == -1
Once == "once"
Events == [when : Nat, seq : Nat, of : Series \union {Once}, live : BOOLEAN]
Stages == {"out", "head", "poll", "step"}

Later(a, b) == IF a > b THEN a ELSE b

(* An event; after() never schedules one in the past.                       *)
Event(when, seq, of) == [when |-> when, seq |-> seq, of |-> of, live |-> TRUE]

After(time, delay) == time + Later(0, delay)

\* Mutant of Earlier: at one time, the newest first.
EarlierNewest(e, f) == e.when < f.when \/ (e.when = f.when /\ e.seq >= f.seq)

Earlier(e, f) == e.when < f.when \/ (e.when = f.when /\ e.seq <= f.seq)
Earliest(events) == CHOOSE e \in events : \A f \in events : Earlier(e, f)

LiveOf(events, of) == {e \in events : e.of = of /\ e.live}
Cancel(events, which) == (events \ which) \union {[e EXCEPT !.live = FALSE] : e \in which}

-----------------------------------------------------------------------------
(* The parts are started before the loop runs, in one order or another.     *)
Init ==
    /\ now = 0
    /\ \E age \in [Series -> 0 .. Cardinality(Series) - 1] :
           /\ \A s, t \in Series : age[s] = age[t] => s = t
           /\ queue = {Event(0, age[s], s) : s \in Series}
    /\ count = Cardinality(Series)
    /\ cancelled = {}
    /\ stage = "out"
    /\ nextPoll = 0
    /\ horizon = NoHorizon
    /\ stretch \in Stretches
    /\ wall = 0
    /\ wallStart = 0
    /\ stopped = FALSE

(* run() and drain().  A paced lab calls it once; one that is not, often.   *)
Run(until) ==
    /\ stage = "out"
    /\ now < MaxTime
    /\ stretch # Unpaced => now = 0
    /\ stage' = "head"
    /\ horizon' = until
    /\ wallStart' = wall
    /\ nextPoll' = 0
    /\ UNCHANGED <<now, queueVars, stretch, wall, stopped>>

(* The head of the loop: the pollers run when their time has come.          *)
LoopHead ==
    /\ stage = "head"
    /\ stage' = IF stopped THEN "out" ELSE IF now >= nextPoll THEN "poll" ELSE "step"
    /\ UNCHANGED <<now, queueVars, nextPoll, paceVars, wall, stopped>>

PollDone ==
    /\ stage = "poll"
    /\ nextPoll' = now + PollInterval
    /\ stage' = "step"
    /\ UNCHANGED <<now, queueVars, paceVars, wall, stopped>>

(* Sleep until the wall clock has reached a virtual time.                   *)
Paced(target) ==
    IF stretch = Unpaced THEN wall ELSE Later(wall, wallStart + target * stretch)

(* Nothing to do: wait for the pollers to bring something, or return.       *)
Idle ==
    /\ stage = "step"
    /\ queue = {} /\ horizon = NoHorizon
    /\ now < MaxTime \/ stopped
    /\ IF stretch = Unpaced
       THEN stage' = "out" /\ UNCHANGED <<now, wall>>
       ELSE stage' = "head" /\ now' = now + IdleStep /\ wall' = wall + IdleStep
    /\ UNCHANGED <<queueVars, nextPoll, paceVars, stopped>>

PastHorizon ==
    horizon # NoHorizon /\ \A e \in queue : e.when > horizon

ReachHorizon ==
    /\ stage = "step"
    /\ PastHorizon
    /\ now' = horizon
    /\ stage' = "out"
    /\ UNCHANGED <<queueVars, nextPoll, paceVars, wall, stopped>>

BeyondPoll ==
    stretch # Unpaced /\ \A e \in queue : e.when > nextPoll

(* A paced loop goes to the next poll rather than skipping over it.         *)
GoToPoll ==
    /\ stage = "step"
    /\ queue # {}
    /\ BeyondPoll /\ ~PastHorizon
    /\ wall' = Paced(nextPoll)
    /\ now' = Later(now, nextPoll)
    /\ stage' = "head"
    /\ UNCHANGED <<queueVars, nextPoll, paceVars, stopped>>

(* What code that runs at a time may do to the queue: nothing, schedule a   *)
(* single shot, cancel one, or cancel a repeating timer, its own included.  *)
Effects(events, time) ==
    {[queue |-> events, series |-> cancelled, count |-> count]}
        \union {[queue |-> events \union {Event(After(time, d), count, Once)},
                 series |-> cancelled, count |-> count + 1] :
                   d \in {x \in Delays : count < MaxEvents}}
        \union {[queue |-> Cancel(events, {e}), series |-> cancelled, count |-> count] :
                   e \in LiveOf(events, Once)}
        \union {[queue |-> Cancel(events, LiveOf(events, s)),
                 series |-> cancelled \union {s}, count |-> count] : s \in Series}

TakeEffect(effect) ==
    /\ queue' = effect.queue
    /\ count' = effect.count
    /\ cancelled' = effect.series

\* Mutant of Rearm: the callback's own cancellation is not looked at.
RearmAlways(done, of, time) ==
    IF of \in Series
    THEN [done EXCEPT !.queue = @ \union {Event(After(time, Interval[of]), done.count, of)},
                      !.count = @ + 1]
    ELSE done

(* A repeating timer schedules itself again, unless it was cancelled.       *)
Rearm(done, of, time) ==
    IF of \in Series \ done.series
    THEN [done EXCEPT !.queue = @ \union {Event(After(time, Interval[of]), done.count, of)},
                      !.count = @ + 1]
    ELSE done

RunEvent ==
    /\ stage = "step"
    /\ queue # {}
    /\ ~PastHorizon /\ ~BeyondPoll
    /\ stage' = "head"
    /\ LET e == Earliest(queue)
           rest == queue \ {e}
       IN  IF ~e.live
           THEN queue' = rest /\ UNCHANGED <<now, count, cancelled, wall>>
           ELSE /\ e.when < MaxTime \/ stopped
                /\ wall' = Paced(e.when)
                /\ now' = e.when
                /\ \E effect \in Effects(rest, e.when) :
                       TakeEffect(Rearm(effect, e.of, e.when))
    /\ UNCHANGED <<nextPoll, paceVars, stopped>>

(* SIGINT and SIGTERM call stop() between any two steps.                    *)
Signal ==
    /\ ~stopped
    /\ stopped' = TRUE
    /\ UNCHANGED <<now, queueVars, stage, nextPoll, paceVars, wall>>

Loop == LoopHead \/ Idle \/ ReachHorizon \/ GoToPoll \/ RunEvent

-----------------------------------------------------------------------------
(* The loop's fields keep their types.                                      *)
LoopTypeOK ==
    /\ now \in Nat /\ wall \in Nat /\ wallStart \in Nat
    /\ queue \subseteq Events
    /\ count \in Nat
    /\ cancelled \subseteq Series
    /\ stage \in Stages
    /\ nextPoll \in Nat
    /\ horizon \in Nat \union {NoHorizon}
    /\ stretch \in Stretches
    /\ stopped \in BOOLEAN

(* A repeating timer has exactly one event to come until it is cancelled,   *)
(* and none from then on, whoever cancels it and when: in particular it     *)
(* does not come back when its own callback cancels it.                     *)
SeriesArmed ==
    \A s \in Series :
        IF s \in cancelled THEN LiveOf(queue, s) = {}
        ELSE \E e \in queue : LiveOf(queue, s) = {e}

(* Time never goes back, though run() sets it to the horizon it is given    *)
(* and callbacks may ask for delays below zero.                             *)
TimeForward == [][now' >= now]_loopVars

(* Events run in the order of their times, and at one time in the order     *)
(* they were scheduled: MAPs, SYNCs and answers depend on it.               *)
RunsInTurn ==
    [][\A e \in queue : e.live /\ now' = e.when /\ queue' # queue
           /\ (\A f \in queue' : f.seq # e.seq)
           => \A f \in queue : f.live =>
                  f.when > e.when \/ (f.when = e.when /\ f.seq >= e.seq)]_loopVars

(* The loop never sleeps longer than to the next poll, so the pollers run   *)
(* every 5 ms of simulated time however far ahead the next event is: "time  *)
(* tracks wall-clock time", and the control socket is answered.             *)
SleepsShort ==
    [][wall' - wall <= PollInterval * Later(stretch, 1)]_loopVars
=============================================================================
