----------------------------- MODULE Reminders ------------------------------
(***************************************************************************)
(* Push reminders of one user: RemindersService.dispatchDue, the choice of  *)
(* due blocks (reminder-blocks.util.ts, reminder-due.util.ts), and the      *)
(* table of deliveries that keeps two instances, and two ticks, from        *)
(* reminding twice.  Every await of a tick is a step: blocks move, Google   *)
(* catches up, browsers come and go, and another instance ticks between.    *)
(*                                                                         *)
(* A unit of time is the interval between ticks.  A block is a task that    *)
(* may also have an event in Google, which follows the task later.          *)
(***************************************************************************)
EXTENDS Naturals, FiniteSets

CONSTANTS Instances, Blocks, Browsers,
          Seats,      \* times at which a block may start
          Lookahead,  \* REMINDER_LOOKAHEAD_MS
          Ttl,        \* DELIVERY_TTL_MS
          MaxTick,    \* bound: how long a tick works
          MaxTime,    \* bound
          MaxMishaps, \* bound: moves, failed pushes, broken ticks, browsers that change
          Nowhere     \* the start of a block that is not seated

ASSUME TimesAssumption ==
    /\ {Ttl, MaxTick, MaxMishaps} \subseteq Nat /\ {Lookahead, MaxTime} \subseteq Nat \ {0}
    /\ Lookahead + MaxTick <= Ttl + 1   \* 30 minutes and a tick against 3 days
    /\ Seats \subseteq 0..MaxTime /\ Nowhere \notin Nat

VARIABLES now,
          start,       \* where each task sits
          event,       \* where its event is in Google, if it has one
          browsers,    \* rows of push_subscriptions
          deliveries,  \* rows of reminder_deliveries
          tick,        \* dispatchDue in each instance
          accepted,    \* history: <<browser, key>> a push service answered that it took
          silenced,    \* history: keys whose tick broke off while it held them
          steady,      \* history: blocks left alone since the unit began
          spent        \* mishaps so far

vars == <<now, start, event, browsers, deliveries, tick, accepted, silenced, steady, spent>>
world == <<start, event, browsers>>

Times == 0..MaxTime
Starts == Seats \cup {Nowhere}

\* dedupeKey: what is shown, and when it starts.
Keys == [kind : {"event", "task"}, block : Blocks, start : Seats]
Rows == [key : Keys, at : Times]
Ticks == [pc : {"idle", "begun", "read", "claiming", "pushing"}, at : Times,
          to : SUBSET Browsers, tasks : [Blocks -> Starts], known : SUBSET Keys,
          due : SUBSET Keys, holds : SUBSET Keys, left : SUBSET Browsers, ok : BOOLEAN]

TypeOK ==
    /\ now \in Times
    /\ start \in [Blocks -> Starts] /\ event \in [Blocks -> Starts]
    /\ browsers \subseteq Browsers
    /\ deliveries \subseteq Rows
    /\ tick \in [Instances -> Ticks]
    /\ accepted \subseteq Browsers \X Keys
    /\ silenced \subseteq Keys
    /\ steady \subseteq Blocks
    /\ spent \in 0..MaxMishaps

-----------------------------------------------------------------------------

\* Slip: the far end of the window is left out.
ImminentBefore(s, at) == s # Nowhere /\ s > at /\ s < at + Lookahead

\* startsWithinLookahead
Imminent(s, at) == s # Nowhere /\ s > at /\ s <= at + Lookahead

Key(kind, b, s) == [kind |-> kind, block |-> b, start |-> s]

\* buildTimedReminderBlocks, selectDueReminders: the events that are seen, and
\* the tasks whose event is not among them.
Due(events, tasks, at) ==
    {Key("event", b, events[b]) : b \in {c \in Blocks : Imminent(events[c], at)}}
        \cup {Key("task", b, tasks[b]) : b \in {c \in Blocks :
                  ~Imminent(events[c], at) /\ Imminent(tasks[c], at)}}

KeysOf(rows) == {r.key : r \in rows}

Expired(rows, at) == {r \in rows : r.at + Ttl < at}

Idle == [pc |-> "idle", at |-> 0, to |-> {}, tasks |-> [b \in Blocks |-> Nowhere], known |-> {},
         due |-> {}, holds |-> {}, left |-> {}, ok |-> FALSE]

Over(i) == [Idle EXCEPT !.at = tick[i].at]

Init ==
    /\ now = 1
    /\ start \in [Blocks -> Starts]
    /\ event \in {[b \in Blocks |-> IF b \in shown THEN start[b] ELSE Nowhere] : shown \in SUBSET Blocks}
    /\ browsers = Browsers
    /\ deliveries = {}
    /\ tick = [i \in Instances |-> Idle]
    /\ accepted = {} /\ silenced = {}
    /\ steady = Blocks
    /\ spent = 0

-----------------------------------------------------------------------------
(* A tick.                                                                 *)

\* dispatchDue: not while this process ticks; expired rows go first, and a user
\* without a browser is left out.  (Another step between the two would be the
\* same before the first.)
Begin(i) ==
    /\ tick[i].pc = "idle" /\ tick[i].at < now
    /\ deliveries' = deliveries \ Expired(deliveries, now)
    /\ tick' = [tick EXCEPT ![i] = IF browsers = {} THEN [Idle EXCEPT !.at = now]
                                   ELSE [Idle EXCEPT !.pc = "begun", !.at = now, !.to = browsers]]
    /\ UNCHANGED <<now, world, accepted, silenced, steady, spent>>

\* The tasks, and the deliveries that are not past their time.
Read(i) ==
    /\ tick[i].pc = "begun"
    /\ tick' = [tick EXCEPT ![i] = [@ EXCEPT !.pc = "read", !.tasks = start,
                !.known = KeysOf({r \in deliveries : r.at + Ttl > tick[i].at})]]
    /\ UNCHANGED <<now, world, deliveries, accepted, silenced, steady, spent>>

\* loadDisplayEvents, which answers nothing when the calendars cannot be read.
Choose(i) ==
    /\ tick[i].pc = "read"
    /\ \E events \in {event, [b \in Blocks |-> Nowhere]} :
           tick' = [tick EXCEPT ![i] = [@ EXCEPT !.pc = "claiming",
                       !.tasks = Idle.tasks, !.known = {},
                       !.due = Due(events, tick[i].tasks, tick[i].at) \ tick[i].known]]
    /\ UNCHANGED <<now, world, deliveries, accepted, silenced, steady, spent>>

\* Slip: the insert does not meet the unique index.
ClaimableAlways(k) == TRUE

\* UNIQUE (userId, dedupeKey)
Claimable(k) == k \notin KeysOf(deliveries)

\* claim: the row is inserted before anything is sent.
Claim(i, k) ==
    /\ tick[i].pc = "claiming" /\ k \in tick[i].due
    /\ IF Claimable(k)
       THEN /\ deliveries' = deliveries \cup {[key |-> k, at |-> now]}
            /\ tick' = [tick EXCEPT ![i] = [@ EXCEPT !.pc = "pushing", !.due = tick[i].due \ {k},
                                           !.holds = {k}, !.left = tick[i].to, !.ok = FALSE]]
       ELSE /\ tick' = [tick EXCEPT ![i] = [@ EXCEPT !.due = tick[i].due \ {k}]]
            /\ UNCHANGED deliveries
    /\ UNCHANGED <<now, world, accepted, silenced, steady, spent>>

\* deliver: the push service answers that it took the push.
Push(i, s) ==
    /\ tick[i].pc = "pushing" /\ s \in tick[i].left
    /\ accepted' = accepted \cup {<<s, k>> : k \in tick[i].holds}
    /\ tick' = [tick EXCEPT ![i] = [@ EXCEPT !.left = tick[i].left \ {s}, !.ok = TRUE]]
    /\ UNCHANGED <<now, world, deliveries, silenced, steady, spent>>

\* A push that fails, or that may be shown although its answer is lost: the tick
\* cannot tell, and counts neither as sent.
Refuse(i, s) ==
    /\ tick[i].pc = "pushing" /\ s \in tick[i].left
    /\ spent < MaxMishaps
    /\ tick' = [tick EXCEPT ![i] = [@ EXCEPT !.left = tick[i].left \ {s}]]
    /\ spent' = spent + 1
    /\ UNCHANGED <<now, world, deliveries, accepted, silenced, steady>>

\* 404 or 410: the endpoint is over, its row goes.
Gone(i, s) ==
    /\ tick[i].pc = "pushing" /\ s \in tick[i].left
    /\ spent < MaxMishaps
    /\ browsers' = browsers \ {s}
    /\ tick' = [tick EXCEPT ![i] = [@ EXCEPT !.left = tick[i].left \ {s}]]
    /\ steady' = {}
    /\ spent' = spent + 1
    /\ UNCHANGED <<now, start, event, deliveries, accepted, silenced>>

\* The rows a tick gives back: its claim, when no push was taken.
Released(i) == IF tick[i].ok THEN {} ELSE {r \in deliveries : r.key \in tick[i].holds}

Settle(i) ==
    /\ tick[i].pc = "pushing" /\ tick[i].left = {}
    /\ deliveries' = deliveries \ Released(i)
    /\ tick' = [tick EXCEPT ![i] = [@ EXCEPT !.pc = "claiming", !.holds = {}, !.ok = FALSE]]
    /\ steady' = IF tick[i].ok THEN steady ELSE steady \ {k.block : k \in tick[i].holds}
    /\ UNCHANGED <<now, world, accepted, silenced, spent>>

\* The loops are over; `ticking` is taken back.
End(i) ==
    /\ tick[i].pc = "claiming" /\ tick[i].due = {}
    /\ tick' = [tick EXCEPT ![i] = Over(i)]
    /\ UNCHANGED <<now, world, deliveries, accepted, silenced, steady, spent>>

\* A statement throws, or the process ends and is started again: what the
\* tick held stays in the table.
Break(i) ==
    /\ tick[i].pc # "idle"
    /\ spent < MaxMishaps
    /\ tick' = [tick EXCEPT ![i] = Over(i)]
    /\ silenced' = silenced \cup tick[i].holds
    /\ steady' = {}
    /\ spent' = spent + 1
    /\ UNCHANGED <<now, world, deliveries, accepted>>

-----------------------------------------------------------------------------
(* Around it.                                                              *)

\* Placement, the user or a status change moves the task.
Move(b, s) ==
    /\ spent < MaxMishaps
    /\ start[b] # s
    /\ start' = [start EXCEPT ![b] = s]
    /\ steady' = steady \ {b}
    /\ spent' = spent + 1
    /\ UNCHANGED <<now, event, browsers, deliveries, tick, accepted, silenced>>

\* The Google queue writes the event where the task is now.
CatchUp(b) ==
    /\ event[b] # start[b]
    /\ event' = [event EXCEPT ![b] = start[b]]
    /\ steady' = steady \ {b}
    /\ UNCHANGED <<now, start, browsers, deliveries, tick, accepted, silenced, spent>>

\* saveSubscription, removeSubscription.
Change(rows) ==
    /\ spent < MaxMishaps
    /\ browsers' = rows /\ rows # browsers
    /\ steady' = {}
    /\ spent' = spent + 1
    /\ UNCHANGED <<now, start, event, deliveries, tick, accepted, silenced>>

\* The next unit begins when a tick of this one is over; no tick works longer
\* than MaxTick.
Pass ==
    /\ now < MaxTime
    /\ \E i \in Instances : tick[i].pc = "idle" /\ tick[i].at = now
    /\ \A i \in Instances : tick[i].pc # "idle" => now < tick[i].at + MaxTick
    /\ now' = now + 1
    /\ steady' = Blocks
    /\ UNCHANGED <<world, deliveries, tick, accepted, silenced, spent>>

Step(i) ==
    \/ Begin(i) \/ Read(i) \/ Choose(i)
    \/ \E k \in tick[i].due : Claim(i, k)
    \/ \E s \in Browsers : Push(i, s) \/ Refuse(i, s) \/ Gone(i, s)
    \/ Settle(i) \/ End(i) \/ Break(i)

Next ==
    \/ \E i \in Instances : Step(i)
    \/ \E b \in Blocks, s \in Starts : Move(b, s)
    \/ \E b \in Blocks : CatchUp(b)
    \/ \E rows \in SUBSET Browsers : Change(rows)
    \/ Pass

Spec == Init /\ [][Next]_vars

-----------------------------------------------------------------------------

Held(k) == \E i \in Instances : k \in tick[i].holds
Taken(k) == \E s \in Browsers : <<s, k>> \in accepted

\* Once one push service answered that it took a reminder, no other try of it is
\* made, to any browser, and the try that was answered goes on only to the
\* browsers it has not reached: whatever ticks overlap, end half way or come
\* after the table was cleared (claim, reminders.service.ts:227-237).  A push
\* whose answer is lost does not count: if no other was answered, the claim is
\* taken back (reminders.service.ts:193) and the reminder is sent once more.
NotSentAgain ==
    \A i \in Instances : \A k \in tick[i].holds :
        Taken(k) => tick[i].ok /\ \A s \in tick[i].left : <<s, k>> \notin accepted

\* A row keeps a reminder from being sent only if a push service answered that
\* it took the reminder, it is being sent, or was held by a tick that broke off.
RowsAreEarned ==
    \A k \in KeysOf(deliveries) : Taken(k) \/ Held(k) \/ k \in silenced

\* Somebody reminded of the block where it sits.
Reminded(b) ==
    \E kind \in {"event", "task"} :
        LET k == Key(kind, b, start[b])
        IN  Taken(k) \/ Held(k) \/ k \in silenced

\* A block that starts soon, that nobody touched since the unit began and that
\* Google shows where it is (or not at all), does not see the unit end without
\* its reminder, unless a tick died with it: also when the calendars could not
\* be read, and after an earlier try reached nobody ("Sends one reminder when a
\* start is still ahead", api-reference.md:153).
NobodyMissed ==
    [][now' # now =>
           \A b \in steady :
               browsers # {} /\ start[b] \in now + 1 .. now + Lookahead /\ event[b] \in {start[b], Nowhere}
                   => Reminded(b)]_vars

=============================================================================
