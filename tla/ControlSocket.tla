---------------------------- MODULE ControlSocket ----------------------------
(***************************************************************************)
(* The control socket (lab/control.py) on the simulation's loop: a thread  *)
(* per client hands requests over in a queue and waits, with a timeout, on *)
(* a reply queue of the request's own; pump(), a poller, executes them     *)
(* between events.                                                         *)
(***************************************************************************)
EXTENDS SimScheduler, Sequences

CONSTANTS
    Clients,            \* connections, one thread each
    MaxRequests,        \* bound: requests of one client
    RequestTimeout,     \* wall time a thread waits for the answer
    Scales              \* time scales a client may ask for

ASSUME ControlAssumption ==
    /\ MaxRequests \in Nat
    /\ RequestTimeout \in Nat \ {0}
    /\ Scales \subseteq Stretches

VARIABLES
    inbox,              \* requests handed to the simulation
    client,             \* the threads
    reply,              \* what the reply queues hold
    executed,           \* history: requests in the order they were executed
    answered            \* history: what each request was answered with

clientVars == <<inbox, client, reply, executed, answered>>
vars == <<loopVars, clientVars>>

Requests == [by : Clients, number : 1 .. MaxRequests]
Nobody == [by |-> "nobody", number |-> 0]
Busy == [by |-> "busy", number |-> 0]

\* Mutant of ReplyQueue: one queue to a connection.
ReplyQueueOfClient(request) == request.by

(* The queue a request is answered in: it is made for the request.          *)
ReplyQueue(request) == request
Current(c) == [by |-> c, number |-> client[c].number]

-----------------------------------------------------------------------------
ControlInit ==
    /\ Init
    /\ inbox = <<>>
    /\ client = [c \in Clients |-> [waiting |-> FALSE, number |-> 0, since |-> 0]]
    /\ reply = [q \in Requests \union Clients |-> Nobody]
    /\ executed = <<>>
    /\ answered = [r \in Requests |-> Nobody]

(* A thread has read a line: it queues the request and starts to wait.      *)
Send(c) ==
    /\ ~client[c].waiting
    /\ client[c].number < MaxRequests
    /\ client' = [client EXCEPT ![c] =
           [waiting |-> TRUE, number |-> @.number + 1, since |-> wall]]
    /\ inbox' = Append(inbox, [by |-> c, number |-> client[c].number + 1])
    /\ UNCHANGED <<loopVars, reply, executed, answered>>

Answer(c, text) ==
    /\ client' = [client EXCEPT ![c].waiting = FALSE]
    /\ answered' = [answered EXCEPT ![Current(c)] = text]

(* reply.get(): the answer, or "simulation busy" when the time is over.     *)
GetAnswer(c) ==
    /\ client[c].waiting
    /\ reply[ReplyQueue(Current(c))] # Nobody
    /\ Answer(c, reply[ReplyQueue(Current(c))])
    /\ reply' = [reply EXCEPT ![ReplyQueue(Current(c))] = Nobody]
    /\ UNCHANGED <<loopVars, inbox, executed>>

\* Mutant of GiveUp: a thread waits as long as the loop has ended.
GiveUpRunning(c) ==
    /\ client[c].waiting
    /\ stage # "out"
    /\ reply[ReplyQueue(Current(c))] = Nobody
    /\ wall >= client[c].since + RequestTimeout
    /\ Answer(c, Busy)
    /\ UNCHANGED <<loopVars, inbox, reply, executed>>

GiveUp(c) ==
    /\ client[c].waiting
    /\ reply[ReplyQueue(Current(c))] = Nobody
    /\ wall >= client[c].since + RequestTimeout
    /\ Answer(c, Busy)
    /\ UNCHANGED <<loopVars, inbox, reply, executed>>

(* A command reads, changes the simulation, its pace, or shuts it down.     *)
Handle ==
    \/ /\ \E effect \in Effects(queue, now) : TakeEffect(effect)
       /\ UNCHANGED <<stretch, stopped>>
    \/ /\ stretch' \in Scales
       /\ UNCHANGED <<queueVars, stopped>>
    \/ /\ stopped' = TRUE
       /\ UNCHANGED <<queueVars, stretch>>

(* pump() executes what is queued, one after the other; an answer that      *)
(* finds its queue full is dropped.                                         *)
Pump ==
    /\ stage = "poll"
    /\ inbox # <<>>
    /\ Handle
    /\ LET request == Head(inbox)
           q == ReplyQueue(request)
       IN  /\ inbox' = Tail(inbox)
           /\ executed' = Append(executed, request)
           /\ reply' = [reply EXCEPT ![q] = IF @ = Nobody THEN request ELSE @]
    /\ UNCHANGED <<now, stage, nextPoll, horizon, wallStart, wall, client, answered>>

PumpDone == inbox = <<>> /\ PollDone /\ UNCHANGED clientVars

(* Wall time passes while the simulation computes (told apart only when a   *)
(* thread counts it).                                                       *)
Elapse ==
    /\ \E c \in Clients : client[c].waiting /\ wall < client[c].since + RequestTimeout
    /\ wall' = wall + 1
    /\ UNCHANGED <<now, queueVars, stage, nextPoll, paceVars, stopped, clientVars>>

LoopStep == (Loop /\ UNCHANGED clientVars) \/ Pump \/ PumpDone

Next ==
    \/ \E until \in {NoHorizon} \union {now + d : d \in Drains} : Run(until) /\ UNCHANGED clientVars
    \/ Loop /\ UNCHANGED clientVars
    \/ Pump
    \/ PumpDone
    \/ Signal /\ UNCHANGED clientVars
    \/ \E c \in Clients : Send(c) \/ GetAnswer(c) \/ GiveUp(c)
    \/ Elapse

Spec ==
    /\ ControlInit /\ [][Next]_vars
    /\ WF_vars(LoopStep) /\ WF_vars(Elapse)
    /\ \A c \in Clients : WF_vars(GetAnswer(c) \/ GiveUp(c))
-----------------------------------------------------------------------------
(* The loop and the threads keep their types.                               *)
TypeOK ==
    /\ LoopTypeOK
    /\ inbox \in Seq(Requests)
    /\ client \in [Clients -> [waiting : BOOLEAN, number : 0 .. MaxRequests, since : Nat]]
    /\ reply \in [Requests \union Clients -> Requests \union {Nobody}]
    /\ executed \in Seq(Requests)
    /\ answered \in [Requests -> Requests \union {Nobody, Busy}]

(* The answer to a request is its own, never that of an earlier one the     *)
(* client had given up on and the simulation executed late.                 *)
AnswersOwn ==
    \A r \in Requests :
        answered[r] \notin {Nobody, Busy}
            => /\ answered[r] = r
               /\ \E i \in DOMAIN executed : executed[i] = r

(* Each request is executed once at most, also one that was answered        *)
(* "simulation busy", and those of one client in the order it sent them.    *)
ExecutedOnceInOrder ==
    \A i, j \in DOMAIN executed :
        i < j /\ executed[i].by = executed[j].by
            => executed[i].number < executed[j].number

(* A client's requests are executed and answered as it sent them.           *)
RequestsRight == AnswersOwn /\ ExecutedOnceInOrder

(* Behind the requests the loop is sound: a repeating timer has one event   *)
(* to come, or none once it was cancelled.                                  *)
LoopSound == TypeOK /\ SeriesArmed

(* The loop keeps time, however events, horizons and polls fall together.   *)
KeepsTime == TimeForward /\ RunsInTurn /\ SleepsShort

(* No client waits for ever: it is answered, or told that the simulation is *)
(* busy, also when the loop has ended and nobody executes requests.         *)
EveryRequestAnswered ==
    \A c \in Clients : client[c].waiting ~> ~client[c].waiting

(* Virtual time passes while the loop runs, whatever the callbacks and the  *)
(* clients do (up to the bound on time).                                    *)
TimePasses ==
    \A t \in 1 .. MaxTime - PollInterval :
        stage # "out" /\ now < t ~> now >= t \/ stage = "out"

(* Neither the clients nor the clock are held up for ever.                  *)
GoesOn == EveryRequestAnswered /\ TimePasses
=============================================================================
