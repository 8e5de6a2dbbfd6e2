------------------------------ MODULE EventBus ------------------------------
(***************************************************************************)
(* pkg/eventbus: the four drivers of core/eventbus.  "memory", "redis" and *)
(* "nats" hand an event to every subscription that listens; "redisstream"  *)
(* adds it to a stream that the subscriptions of a consumer group share.   *)
(* Subscribe is walked step by step against a Close of its bus, and a      *)
(* subscription's loop against the end of its context.                     *)
(*                                                                         *)
(* One topic.  A bus of another driver than "memory" is one process among  *)
(* several.  The connection a NATS bus may own, which Close closes after   *)
(* the subscriptions, and a Publish that fails are left out.               *)
(***************************************************************************)
EXTENDS Integers, Sequences, SequencesExt

CONSTANTS
    Buses, Subs, Events,
    Drivers,        \* of "memory", "redis", "nats", "redisstream"
    MaxLen,         \* the stream is trimmed beyond this length
    Batch,          \* entries one XREADGROUP returns
    Faults          \* TRUE: processes die, clients and replies lose events

ASSUME BusAssumption ==
    /\ Drivers \subseteq {"memory", "redis", "nats", "redisstream"}
    /\ MaxLen \in Nat \ {0} /\ Batch \in Nat \ {0}
    /\ Faults \in BOOLEAN

VARIABLES
    driver,
    bus,       \* bus -> closed or not, its subscriptions, those Close is ending
    sub,       \* subscription -> where it stands
    log,       \* what has been published, in order
    group,     \* the consumer group: where it began, and how far it has read
    pending,   \* events read by the group and not acknowledged
    runs,      \* <<subscription, event>> -> times its handler was called
    due,       \* the pairs where the one listened when the other was published
    lost       \* the pairs a fault or a trim has kept apart

busVars == <<driver, bus, sub, log, group, pending, runs, due, lost>>

Grouped == driver = "redisstream"

\* Buses are alike: which of them one of the subscriptions is made on is all one.
OneFixed == sub[CHOOSE s \in Subs : TRUE].bus = CHOOSE b \in Buses : TRUE

BusInit ==
    /\ driver \in Drivers
    /\ bus = [b \in Buses |-> [closed |-> FALSE, subs |-> {}, ending |-> {}]]
    /\ sub \in [Subs -> [bus : Buses, st : {"new"}, at : {1}, listening : {FALSE},
                         cancelled : {FALSE}, inbox : {<<>>}, hand : {{}}]]
    /\ OneFixed
    /\ log = <<>>
    /\ group = [base |-> -1, read |-> -1, first |-> 0]
    /\ pending = {}
    /\ runs = [p \in Subs \X Events |-> 0]
    /\ due = {}
    /\ lost = {}

stream == <<log, group, pending>>
delivery == <<runs, due, lost>>

-----------------------------------------------------------------------------
(* Subscribe and Close.                                                    *)

\* What Subscribe does after its arguments, in order.
Route == CASE driver = "memory" -> <<"register">>
           [] driver = "redis" -> <<"check", "register", "attach">>
           [] driver \in {"nats", "redisstream"} -> <<"check", "attach", "register">>

Doing(s, what) == sub[s].st \in {"new", "joining"} /\ Route[sub[s].at] = what
Of(s) == bus[sub[s].bus]

\* It has returned an error, or its loop has; a handler may still be at work.
Over(r) == [r EXCEPT !.st = "over", !.at = 1, !.listening = FALSE, !.cancelled = FALSE,
                     !.inbox = <<>>]

\* The next step of Subscribe, or its return.
Onward(r) == [r EXCEPT !.st = IF r.at = Len(Route) THEN "on" ELSE "joining",
                       !.at = @ + 1]

\* ensureOpen.
Check(s) ==
    /\ Doing(s, "check")
    /\ sub' = [sub EXCEPT ![s] = IF Of(s).closed THEN Over(@) ELSE Onward(@)]
    /\ UNCHANGED <<driver, bus, stream, delivery>>

\* SUBSCRIBE and the ping, conn.Subscribe, or ensureGroup, whose group begins at
\* the end of the stream.  Each may fail.
Attach(s) ==
    /\ Doing(s, "attach")
    /\ \/ /\ driver # "nats" => ~sub[s].cancelled
          /\ sub' = [sub EXCEPT ![s] = [Onward(@) EXCEPT !.listening = ~Grouped]]
          /\ group' = IF Grouped /\ group.base = -1
                        THEN [group EXCEPT !.base = Len(log), !.read = Len(log)]
                        ELSE group
       \/ sub' = [sub EXCEPT ![s] = Over(@)] /\ UNCHANGED group
    /\ UNCHANGED <<driver, bus, log, pending, delivery>>

\* The bus is asked again whether it is closed, under its lock, and takes the
\* subscription.
\* Faulty: it is not asked again.
RegisterUnasked(s) ==
    /\ Doing(s, "register")
    /\ bus' = [bus EXCEPT ![sub[s].bus].subs = @ \union {s}]
    /\ sub' = [sub EXCEPT ![s] = [Onward(@) EXCEPT
                                 !.listening = sub[s].listening \/ driver = "memory"]]
    /\ UNCHANGED <<driver, stream, delivery>>
Register(s) ==
    /\ Doing(s, "register")
    /\ IF Of(s).closed
         THEN sub' = [sub EXCEPT ![s] = Over(@)] /\ UNCHANGED bus
         ELSE /\ bus' = [bus EXCEPT ![sub[s].bus].subs = @ \union {s}]
              /\ sub' = [sub EXCEPT ![s] = [Onward(@) EXCEPT
                                   !.listening = sub[s].listening \/ driver = "memory"]]
    /\ UNCHANGED <<driver, stream, delivery>>

\* Close, in its lock: the subscriptions it has now are to end.
Close(b) ==
    /\ ~bus[b].closed
    /\ bus' = [bus EXCEPT ![b] = [closed |-> TRUE, subs |-> {}, ending |-> @.subs]]
    /\ sub' = [s \in Subs |-> IF driver = "memory" /\ sub[s].bus = b
                                THEN [sub[s] EXCEPT !.listening = FALSE] ELSE sub[s]]
    /\ UNCHANGED <<driver, stream, delivery>>

\* Close, after it: each context is cancelled; NATS only unsubscribes.
EndSub(s) ==
    /\ s \in Of(s).ending
    /\ bus' = [bus EXCEPT ![sub[s].bus].ending = @ \ {s}]
    /\ sub' = [sub EXCEPT ![s] = IF driver = "nats" THEN Over(@)
                                 ELSE [@ EXCEPT !.cancelled = sub[s].st # "over"]]
    /\ UNCHANGED <<driver, stream, delivery>>

\* The caller's context ends, or the caller closes the subscription.
CancelSub(s) ==
    /\ sub[s].st \in {"joining", "on"} /\ ~sub[s].cancelled
    /\ sub' = [sub EXCEPT ![s].cancelled = TRUE]
    /\ UNCHANGED <<driver, bus, stream, delivery>>

\* The loop sees the end of its context, between two events, and a stream's only
\* between two batches; the other drivers wait for it in a goroutine.
\* Faulty: a batch is left where the context ends.
MayLeaveEarly(s) ==
    CASE driver \in {"memory", "nats"} -> TRUE
      [] driver \in {"redis", "redisstream"} -> sub[s].hand = {}
MayLeave(s) ==
    CASE driver \in {"memory", "nats"} -> TRUE
      [] driver = "redis" -> sub[s].hand = {}
      [] driver = "redisstream" -> sub[s].hand = {} /\ sub[s].inbox = <<>>
LeaveLoop(s) ==
    /\ sub[s].st = "on" /\ sub[s].cancelled /\ MayLeave(s)
    /\ sub' = [sub EXCEPT ![s] = Over(@)]
    /\ bus' = IF driver = "memory" THEN [bus EXCEPT ![sub[s].bus].subs = @ \ {s}] ELSE bus
    /\ UNCHANGED <<driver, stream, delivery>>

-----------------------------------------------------------------------------
(* Events.                                                                 *)

\* Those an event of bus b reaches: memory's of the same bus.
Listeners(b) == {s \in Subs : sub[s].listening /\ (driver = "memory" => sub[s].bus = b)}

\* Publish to those who listen: memory's snapshot, PUBLISH, conn.Publish.
Publish(b, e) ==
    /\ ~Grouped
    /\ ~bus[b].closed /\ e \notin ToSet(log)
    /\ log' = Append(log, e)
    /\ sub' = [s \in Subs |-> IF s \in Listeners(b)
                                THEN [sub[s] EXCEPT !.inbox = Append(@, e)] ELSE sub[s]]
    /\ due' = due \union (Listeners(b) \X {e})
    /\ UNCHANGED <<driver, bus, group, pending, runs, lost>>

\* XADD, which may trim the stream to about MaxLen, read or not.
PublishStream(b, e) ==
    /\ Grouped
    /\ ~bus[b].closed /\ e \notin ToSet(log)
    /\ log' = Append(log, e)
    /\ \E first \in group.first .. Len(log') :
         /\ first > group.first => first <= Len(log') - MaxLen
         /\ group' = [group EXCEPT !.first = first]
         /\ lost' = lost \union
                (Subs \X {log'[n] : n \in {k \in 1 .. first : k > group.read}})
    /\ UNCHANGED <<driver, bus, sub, pending, runs, due>>

\* consume: XREADGROUP of what no consumer of the group has read.  The reply may
\* be lost, and is not asked for again.
Least(m, n) == IF m < n THEN m ELSE n
NextUnread == (IF group.read > group.first THEN group.read ELSE group.first) + 1
Read(s) ==
    /\ Grouped
    /\ sub[s].st = "on" /\ ~sub[s].cancelled
    /\ sub[s].hand = {} /\ sub[s].inbox = <<>>
    /\ NextUnread <= Len(log)
    /\ LET last == Least(NextUnread + Batch - 1, Len(log))
           events == SubSeq(log, NextUnread, last)
       IN  /\ group' = [group EXCEPT !.read = last]
           /\ pending' = pending \union ToSet(events)
           /\ \/ sub' = [sub EXCEPT ![s].inbox = events] /\ UNCHANGED lost
              \/ /\ Faults
                 /\ lost' = lost \union (Subs \X ToSet(events)) /\ UNCHANGED sub
    /\ UNCHANGED <<driver, bus, log, runs, due>>

\* A handler is called, whatever has become of the context: memory's Publish
\* skips a subscription whose context has ended and calls one after the other,
\* the others one event after the other.
Take(s) ==
    \E k \in DOMAIN sub[s].inbox :
        LET e == sub[s].inbox[k]
        IN  /\ IF driver = "memory"
                 THEN ~sub[s].cancelled /\ \A t \in Subs : e \notin sub[t].hand
                 ELSE k = 1 /\ sub[s].hand = {}
            /\ sub' = [sub EXCEPT ![s].inbox = RemoveAt(@, k), ![s].hand = @ \union {e}]
            /\ runs' = [runs EXCEPT ![<<s, e>>] = @ + 1]
            /\ UNCHANGED <<driver, bus, stream, due, lost>>

\* SafeHandle returns: an error leaves a stream's event pending for good, a panic
\* counts as success.  XACK fails once the context has ended, and may fail before.
HandlerEnds(s) ==
    \E e \in sub[s].hand :
        /\ sub' = [sub EXCEPT ![s].hand = @ \ {e}]
        /\ \/ UNCHANGED pending
           \/ Grouped /\ ~sub[s].cancelled /\ pending' = pending \ {e}
        /\ UNCHANGED <<driver, bus, log, group, delivery>>

-----------------------------------------------------------------------------
(* Faults.                                                                 *)

InHand(s) == ToSet(sub[s].inbox) \union sub[s].hand

\* A client drops an event: a full buffer, a connection that was away.
Drop(s) ==
    /\ Faults /\ driver \in {"redis", "nats"}
    /\ sub[s].inbox # <<>>
    /\ sub' = [sub EXCEPT ![s].inbox = Tail(@)]
    /\ lost' = lost \union {<<s, Head(sub[s].inbox)>>}
    /\ UNCHANGED <<driver, bus, stream, runs, due>>

\* The process of a bus dies, and what it had in hand with it.
Die(b) ==
    /\ Faults
    /\ \E s \in Subs : sub[s].bus = b /\ sub[s].st \notin {"new", "over"}
    /\ bus' = [bus EXCEPT ![b] = [closed |-> TRUE, subs |-> {}, ending |-> {}]]
    /\ sub' = [s \in Subs |-> IF sub[s].bus = b
                                THEN [Over(sub[s]) EXCEPT !.hand = {}] ELSE sub[s]]
    /\ lost' = lost \union
         (Subs \X UNION {InHand(s) : s \in {t \in Subs : sub[t].bus = b}})
    /\ UNCHANGED <<driver, stream, runs, due>>

BusNext ==
    \/ \E s \in Subs :
         \/ Check(s) \/ Attach(s) \/ Register(s) \/ EndSub(s) \/ CancelSub(s) \/ LeaveLoop(s)
         \/ Read(s) \/ Take(s) \/ HandlerEnds(s) \/ Drop(s)
    \/ \E b \in Buses :
         \/ Close(b) \/ Die(b)
         \/ \E e \in Events : Publish(b, e) \/ PublishStream(b, e)

BusSpec == BusInit /\ [][BusNext]_busVars

\* Goroutines that can go on do, and handlers return.
BusFairness ==
    \A s \in Subs :
        /\ WF_busVars(Check(s) /\ sub[s].st # "new") /\ WF_busVars(Attach(s))
        /\ WF_busVars(Register(s) /\ sub[s].st # "new")
        /\ WF_busVars(EndSub(s)) /\ WF_busVars(LeaveLoop(s))
        /\ WF_busVars(Take(s)) /\ WF_busVars(HandlerEnds(s))

LiveBusSpec == BusSpec /\ BusFairness

-----------------------------------------------------------------------------
(* Properties.                                                             *)

InUse(s) == sub[s].st \in {"joining", "on"} /\ ~sub[s].cancelled

\* Publish of memory, redis and nats: a subscription handles what was published
\* while it listened, once, as long as it has not been cancelled or closed.
\* consume: what the group has read one of its consumers handles, once, whether
\* cancelled meanwhile or not, but for lost replies, trimming and dead processes;
\* and only what was handled is acknowledged.
HandledOnce ==
    /\ ~Grouped => \A s \in Subs, e \in Events :
         /\ runs[<<s, e>>] <= 1
         /\ <<s, e>> \in due /\ InUse(s) /\ ~Of(s).closed =>
              \/ runs[<<s, e>>] = 1
              \/ e \in ToSet(sub[s].inbox)
              \/ <<s, e>> \in lost
    /\ Grouped => \A n \in 1 .. Len(log) :
         LET e == log[n]
             by == {s \in Subs : runs[<<s, e>>] > 0}
             waits == {s \in Subs : e \in ToSet(sub[s].inbox)}
         IN  /\ \A s \in by : runs[<<s, e>>] = 1
             /\ \A s, t \in by \union waits : s = t
             /\ group.base < n /\ n <= group.read =>
                  \/ by \union waits # {}
                  \/ \E s \in Subs : <<s, e>> \in lost
             /\ n <= group.read /\ n > group.base /\ e \notin pending =>
                  by # {} \/ \E s \in Subs : <<s, e>> \in lost

\* Subscribe, Close: when a bus is closed every subscription of it ends, those
\* included that were being made.
ClosedEnds ==
    \A s \in Subs : (sub[s].st \in {"joining", "on"} /\ Of(s).closed)
                      ~> (sub[s].st = "over")
=============================================================================
