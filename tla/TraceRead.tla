------------------------------ MODULE TraceRead ------------------------------
(***************************************************************************)
(* Reading from a trace: the flags of plt.py's _trace, the libtrace handle  *)
(* behind it, and the event loop of event_read_packet, while packets arrive *)
(* and time passes.                                                         *)
(*                                                                         *)
(* time_now and idle_timeout are kept relative to the clock: `since' counts *)
(* the ticks since the whole second that time_now holds began, so that the  *)
(* loop's time(NULL) - time_now is since \div Second.                       *)
(***************************************************************************)
EXTENDS Integers

CONSTANTS
    Second,      \* ticks in a second
    Timeouts,    \* the values given to conf_timeout
    Sleeps,      \* the waits, in ticks, libtrace asks for between two polls
    MaxWaiting   \* bound: packets libtrace can hold for the trace

ASSUME TraceReadAssumption ==
    /\ Second \in Nat \ {0}
    /\ Timeouts \subseteq Nat
    /\ Sleeps \subseteq Nat
    /\ MaxWaiting \in Nat

VARIABLES
    started,   \* _trace.started
    timeout,   \* _trace.timeout, the user_timeout of event_read_packet
    handle,    \* state of the libtrace_t
    source,    \* what trace_event reports of an idle trace: IOWAIT or SLEEP
    waiting,   \* packets that have arrived and were not read
    ended,     \* no more will arrive
    noise,     \* the descriptor is readable for something else
    pc,        \* where the program is
    since,     \* ticks since the second of time_now began
    limit,     \* the timeval of the select, in ticks
    slept,     \* ticks spent in the select
    ret        \* outcome of the last call

trace == <<started, timeout, handle>>
loop == <<since, limit, slept>>
world == <<source, waiting, ended, noise>>
vars == <<trace, loop, world, pc, ret>>

Reading == pc # "program"
InLoop == pc \in {"event", "select"}

\* Counting further than this cannot change what the loop does.
Cap == (timeout + 1) * Second
Plus1(n) == IF n < Cap THEN n + 1 ELSE n

-----------------------------------------------------------------------------
(* The methods of _trace *)

\* A call the program makes between two reads.
Call == ~Reading /\ ret # "freed" /\ UNCHANGED <<pc, loop, world>>

Answer(r) == ret' = r /\ UNCHANGED trace

\* A libtrace function was handed the destroyed handle.
Freed == handle = "destroyed" /\ Answer("freed")

\* A negative value raises before it is stored.
ConfTimeout(v) ==
    /\ Call
    /\ timeout' = v /\ ret' = "ok"
    /\ UNCHANGED <<started, handle>>

Start ==
    /\ Call
    /\ \/ started /\ Answer("raised")
       \/ ~started /\ Freed
       \/ ~started /\ handle # "destroyed" /\ Answer("raised")
       \/ /\ ~started /\ handle # "destroyed"
          /\ started' = TRUE /\ handle' = "running" /\ ret' = "ok"
          /\ UNCHANGED timeout

\* Mutant: the flag is left set.
PauseKeepsStarted ==
    /\ Call
    /\ \/ ~started /\ Answer("raised")
       \/ started /\ Freed
       \/ /\ started /\ handle # "destroyed"
          /\ handle' = "paused" /\ ret' = "ok"
          /\ UNCHANGED <<started, timeout>>

Pause ==
    /\ Call
    /\ \/ ~started /\ Answer("raised")
       \/ started /\ Freed
       \/ started /\ handle # "destroyed" /\ Answer("raised")
       \/ /\ started /\ handle # "destroyed"
          /\ started' = FALSE /\ handle' = "paused" /\ ret' = "ok"
          /\ UNCHANGED timeout

\* close leaves the flag as it is, and destroys only a started trace.
Close ==
    /\ Call
    /\ \/ ~started /\ Answer("ok")
       \/ started /\ Freed
       \/ /\ started /\ handle # "destroyed"
          /\ handle' = "destroyed" /\ ret' = "ok"
          /\ UNCHANGED <<started, timeout>>

ReadPacket ==
    /\ ~Reading /\ ret # "freed"
    /\ \/ ~started /\ Answer("raised") /\ UNCHANGED <<pc, loop>>
       \/ started /\ Freed /\ UNCHANGED <<pc, loop>>
       \/ /\ started /\ handle # "destroyed" /\ timeout = 0
          /\ pc' = "blocked" /\ Answer("none") /\ UNCHANGED loop
       \/ /\ started /\ handle # "destroyed" /\ timeout # 0
          /\ pc' = "event" /\ Answer("none")
          /\ since' \in 0 .. Second - 1
          /\ UNCHANGED <<limit, slept>>
    /\ UNCHANGED world

-----------------------------------------------------------------------------
(* The end of a read *)

Return(r) == pc' = "program" /\ ret' = r /\ UNCHANGED trace

\* Mutant: taken without looking whether one has arrived.
TakePacketUnseen ==
    /\ waiting' = waiting - 1
    /\ \E r \in {"packet", "raised"} : Return(r)
    /\ UNCHANGED <<source, ended, noise>>

\* The packet is taken from libtrace even if get_pkt_info then rejects it.
TakePacket ==
    /\ waiting > 0
    /\ waiting' = waiting - 1
    /\ \E r \in {"packet", "raised"} : Return(r)
    /\ UNCHANGED <<source, ended, noise>>

AtEnd == waiting = 0 /\ ended /\ Return("eof") /\ UNCHANGED world

LibtraceFails == Return("raised") /\ UNCHANGED world

\* trace_read_packet, which waits for as long as it takes.
BlockingRead ==
    /\ pc = "blocked"
    /\ TakePacket \/ AtEnd \/ LibtraceFails
    /\ UNCHANGED loop

-----------------------------------------------------------------------------
(* event_read_packet *)

\* Mutant: a sleep of less than the timeout leaves tp unset.
SelectLimitUnset(d) ==
    IF d < timeout * Second THEN Cap + 1 ELSE timeout * Second

\* For a SLEEP event, whole seconds only.
SelectLimit(d) ==
    IF d < timeout * Second THEN (d \div Second) * Second
                            ELSE timeout * Second

\* One trace_event, and the select that follows if there is nothing to read.
TraceEvent ==
    /\ pc = "event"
    /\ \/ /\ TakePacket \/ AtEnd \/ LibtraceFails
          /\ UNCHANGED loop
       \/ /\ waiting = 0 /\ ~ended
          /\ pc' = "select" /\ slept' = 0
          /\ limit' \in IF source = "fd" THEN {timeout * Second}
                        ELSE {SelectLimit(d) : d \in Sleeps}
          /\ noise' = FALSE
          /\ UNCHANGED <<trace, source, waiting, ended, since, ret>>

\* select returns when its time is up, or earlier if the descriptor that an
\* IOWAIT event named is readable.
Woken ==
    \/ slept >= limit
    \/ source = "fd" /\ (waiting > 0 \/ ended \/ noise)

\* Mutants: the loop ends a second early; or only past the timeout.
ExpiredEarly == since \div Second >= timeout - 1
ExpiredLate == since \div Second > timeout

\* The loop's exit test; idle_timeout was set just before the select.
Expired == since \div Second >= timeout

SelectReturns ==
    /\ pc = "select" /\ Woken
    /\ \/ Expired /\ Return("timeout") /\ UNCHANGED since
       \/ /\ ~Expired
          /\ pc' = "event" /\ since' = since % Second
          /\ UNCHANGED <<trace, ret>>
    /\ UNCHANGED <<world, limit, slept>>

-----------------------------------------------------------------------------
(* The world outside *)

Idle == UNCHANGED <<trace, pc, ret>>

\* Time passes while the program waits; trace_event itself does not wait.
Tick ==
    /\ pc = "select"
    /\ since' = Plus1(since) /\ slept' = Plus1(slept)
    /\ UNCHANGED <<world, limit>> /\ Idle

Arrive ==
    /\ ~ended /\ waiting < MaxWaiting
    /\ waiting' = waiting + 1
    /\ UNCHANGED <<source, ended, noise, loop>> /\ Idle

End ==
    /\ ~ended /\ ended' = TRUE
    /\ UNCHANGED <<source, waiting, noise, loop>> /\ Idle

\* For example a packet that conf_filter rejects.
Noise ==
    /\ source = "fd" /\ noise' = TRUE
    /\ UNCHANGED <<source, waiting, ended, loop>> /\ Idle

-----------------------------------------------------------------------------

Init ==
    /\ started = FALSE /\ timeout = 0 /\ handle = "created"
    /\ source \in {"fd", "poll"}
    /\ waiting = 0 /\ ended = FALSE /\ noise = FALSE
    /\ pc = "program" /\ ret = "ok"
    /\ since = 0 /\ limit = 0 /\ slept = 0

Program ==
    \/ \E v \in Timeouts : ConfTimeout(v)
    \/ Start \/ Pause \/ Close \/ ReadPacket

Next ==
    \/ Program
    \/ BlockingRead \/ TraceEvent \/ SelectReturns
    \/ Tick \/ Arrive \/ End \/ Noise

Spec == Init /\ [][Next]_vars

\* Time goes on, however often the select is interrupted, and the C code does
\* not stop; nothing is assumed of what the program calls or what arrives.
FairSpec ==
    /\ Spec
    /\ SF_vars(Tick) /\ WF_vars(SelectReturns)
    /\ WF_vars(TraceEvent) /\ WF_vars(BlockingRead)

-----------------------------------------------------------------------------
(* Properties *)

\* Flags, states and counters are in range.
TypeOK ==
    /\ started \in BOOLEAN /\ timeout \in Nat
    /\ handle \in {"created", "running", "paused", "destroyed"}
    /\ source \in {"fd", "poll"} /\ waiting \in Nat
    /\ ended \in BOOLEAN /\ noise \in BOOLEAN
    /\ pc \in {"program", "blocked", "event", "select"}
    /\ since \in Nat /\ limit \in Nat /\ slept \in Nat
    /\ ret \in {"ok", "none", "raised", "freed", "packet", "eof", "timeout"}

\* Until close, _trace.started says whether libtrace has the trace running,
\* also after a start or a pause that failed, and a read is under way only
\* on a running trace.
StartedMirrorsHandle ==
    /\ handle # "destroyed" => (started <=> handle = "running")
    /\ Reading => started /\ handle = "running"

\* The whole-second clock makes event_read_packet give up early, but by less
\* than a second: it has waited longer than timeout - 1 in its last select.
TimeoutNotEarly == ret = "timeout" => slept > (timeout - 1) * Second

\* A read during which a packet arrives, or the trace ends, returns, whatever
\* the timeout and however libtrace waits.
PacketEndsRead == (Reading /\ (waiting > 0 \/ ended)) ~> ~Reading

\* On a descriptor with no other traffic, the timeout ends every read.
QuietReadEnds == (InLoop /\ source = "fd") ~> (~Reading \/ noise)

=============================================================================
