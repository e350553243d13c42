------------------------------- MODULE MainLoop -------------------------------
(***************************************************************************)
(* What wakes ion up: X events, timers, other file descriptors and signals *)
(* (signal.c, readfds.c and the loops of event.c).                         *)
(*                                                                         *)
(* Signal handlers only set flags.  check_signals looks at the flags, and  *)
(* then the loop may sleep in select: a signal that comes in between does  *)
(* not wake it.  Timers are kept in a queue of which the first one has the *)
(* alarm; the alarm repeats.                                               *)
(*                                                                         *)
(* Time is counted in ticks from the beginning of the current second:      *)
(* clock is the tv_usec of now, whose tv_sec is 0, and Tick moves all      *)
(* other times down when a second is over.                                 *)
(***************************************************************************)
EXTENDS Integers, Sequences

CONSTANTS
  Timer,     \* WTimers
  Fd,        \* descriptors other than the connection to the X server
  Second,    \* ticks in a second: 1000000 in the code
  Delays     \* the delays that timers are set to, in ticks

ASSUME MainLoopAssumption ==
  /\ Second \in Nat \ {0}
  /\ Delays \subseteq Nat \ {0}

VARIABLES
  clock,
  tm,        \* the timers
  kill_sig,  \* a signal to end or to restart has come
  sock, xq,  \* X events on the connection and in Xlib's queue
  fds,       \* input_fds
  ready,     \* those that have something to read
  grabbed,   \* the loop is get_event_mask, called by a handler, not get_event
  pc         \* where the loop is

xvars == <<sock, xq>>
io    == <<xvars, fds, ready, grabbed>>
vars  == <<clock, tm, kill_sig, io, pc>>

-----------------------------------------------------------------------------
(* Timers. *)

Time(s, u) == [sec |-> s, usec |-> u]
Now == Time(0, clock)
Never == Time(0, 0)

\* Mutant: the seconds decide.
LaterSecond(a, b) == a.sec >= b.sec

\* TIMEVAL_LATER
Later(a, b) == a.sec > b.sec \/ (a.sec = b.sec /\ a.usec > b.usec)

\* Ticks from the beginning of the current second, whether tv_usec is below a
\* second or not.
Ticks(t) == t.sec * Second + t.usec

\* add_to_current_time
AddToCurrentTime(msecs) == Time((clock + msecs) \div Second, (clock + msecs) % Second)

\* queue: the timers that are set, the first one first; when: the time of each;
\* left: ticks until the alarm, or 0; interval: it_interval; had: had_tmr.
NoTimers == [queue |-> <<>>, when |-> [t \in Timer |-> Never],
             left |-> 0, interval |-> 0, had |-> FALSE]

Queued(s, t) == \E i \in DOMAIN s.queue : s.queue[i] = t
First(s) == s.when[Head(s.queue)]

\* Mutant: the alarm goes off once.
AlarmOnce(s, n) == [s EXCEPT !.left = n, !.interval = 0]

Alarm(s, n) == [s EXCEPT !.left = n, !.interval = n]

\* do_set_timer writes a second that it borrows back to the queue.
Borrow(s) ==
  IF First(s).usec < clock
  THEN [s EXCEPT !.when[Head(s.queue)] = Time(@.sec - 1, @.usec + Second)]
  ELSE s

\* setitimer refuses a second or more in tv_usec, which a time has from which a
\* second was borrowed before; the alarm then stays as it was.
SetITimer(s) ==
  IF First(s).usec - clock < Second THEN Alarm(s, Ticks(First(s)) - clock)
  ELSE [s EXCEPT !.had = TRUE]

\* Mutant: a first timer that is due leaves the alarm off.
DoSetTimerNotHad(s) ==
  IF s.queue # <<>> /\ Later(First(s), Now) THEN SetITimer(Borrow(s)) ELSE Alarm(s, 0)

\* do_set_timer
DoSetTimer(s) ==
  IF s.queue = <<>> THEN Alarm(s, 0)
  ELSE IF Later(First(s), Now) THEN SetITimer(Borrow(s))
  ELSE [s EXCEPT !.had = TRUE]

Place(q, t) == CHOOSE i \in DOMAIN q : q[i] = t
Without(q, t) ==
  IF \E i \in DOMAIN q : q[i] = t
  THEN [i \in 1 .. Len(q) - 1 |-> IF i < Place(q, t) THEN q[i] ELSE q[i + 1]]
  ELSE q
InsertAt(q, n, t) ==
  [i \in 1 .. Len(q) + 1 |-> IF i < n THEN q[i] ELSE IF i = n THEN t ELSE q[i - 1]]

\* A new timer comes before the first one that it is not later than.
PlaceFor(q, when, time) ==
  CHOOSE n \in 1 .. Len(q) + 1 :
    /\ n = Len(q) + 1 \/ ~Later(time, when[q[n]])
    /\ \A i \in 1 .. n - 1 : Later(time, when[q[i]])

\* set_timer
SetTimer(s, t, msecs) ==
  LET q    == Without(s.queue, t)
      time == AddToCurrentTime(msecs)
      when == [s.when EXCEPT ![t] = time]
  IN  DoSetTimer([s EXCEPT !.queue = InsertAt(q, PlaceFor(q, when, time), t), !.when = when])

\* reset_timer
ResetTimer(s, t) ==
  IF Queued(s, t)
  THEN DoSetTimer([s EXCEPT !.queue = Without(@, t), !.when[t] = Never])
  ELSE s

-----------------------------------------------------------------------------
(* The loop.  "check": check_signals begins; "timers": its loop over the    *)
(* queue; "fire": a timer's handler; "queue": the flags have been looked    *)
(* at; "select": asleep; "fds": check_input_fds; "handle": an event's       *)
(* handler; "ended": ion has saved its state and is gone.                   *)

At(label) == pc.at = label
Go(label) == [at |-> label, time |-> Never, rfds |-> {}, x |-> FALSE]

Kinds == {"input", "other"}
InSeq(q, x) == \E i \in DOMAIN q : q[i] = x

Init ==
  /\ clock = 0 /\ tm = NoTimers /\ kill_sig = FALSE
  /\ sock = <<>> /\ xq = <<>> /\ grabbed = FALSE
  /\ fds = {} /\ ready = {}
  /\ pc = Go("check")

\* check_signals, up to its loop: restart_other, exit or kill, all after deinit.
CheckSignals ==
  /\ At("check")
  /\ pc' = IF kill_sig THEN Go("ended")
           ELSE IF tm.had /\ tm.queue # <<>> THEN [Go("timers") EXCEPT !.time = Now]
           ELSE Go("queue")
  /\ UNCHANGED <<clock, tm, kill_sig, io>>

Due == tm.queue # <<>> /\ Later(pc.time, First(tm))

\* The first timer of the queue is due: it leaves the queue and its handler runs.
FireTimer ==
  /\ At("timers") /\ Due
  /\ tm' = [tm EXCEPT !.queue = Tail(@), !.when[Head(tm.queue)] = Never]
  /\ pc' = [pc EXCEPT !.at = "fire"]
  /\ UNCHANGED <<clock, kill_sig, io>>

TimersDone ==
  /\ At("timers") /\ ~Due
  /\ tm' = DoSetTimer([tm EXCEPT !.had = FALSE])
  /\ pc' = Go("queue")
  /\ UNCHANGED <<clock, kill_sig, io>>

\* get_event: an event is in Xlib's queue.
GetQueued ==
  /\ At("queue") /\ ~grabbed /\ xq # <<>>
  /\ xq' = Tail(xq)
  /\ pc' = Go("handle")
  /\ UNCHANGED <<clock, tm, kill_sig, sock, fds, ready, grabbed>>

\* get_event_mask: XCheckMaskEvent reads what there is and takes an event of the
\* button or a key, wherever it is in the queue.
GetMasked ==
  LET q == xq \o sock IN
  /\ At("queue") /\ grabbed
  /\ sock' = <<>>
  /\ IF InSeq(q, "input")
     THEN xq' = Without(q, "input") /\ pc' = Go("handle")
     ELSE xq' = q /\ pc' = Go("select")
  /\ UNCHANGED <<clock, tm, kill_sig, fds, ready, grabbed>>

\* Mutant: get_event sleeps without looking at Xlib's queue.
SleepUnlooked ==
  /\ At("queue") /\ ~grabbed
  /\ pc' = Go("select")
  /\ UNCHANGED <<clock, tm, kill_sig, io>>

Sleep ==
  /\ At("queue") /\ ~grabbed /\ xq = <<>>
  /\ pc' = Go("select")
  /\ UNCHANGED <<clock, tm, kill_sig, io>>

\* What select waits for.
ReadyFds == IF grabbed THEN {} ELSE ready
Readable == sock # <<>> \/ ReadyFds # {}

\* select returns to get_event: check_input_fds begins.
Wake ==
  /\ At("select") /\ ~grabbed /\ Readable
  /\ pc' = [Go("fds") EXCEPT !.rfds = ReadyFds, !.x = sock # <<>>]
  /\ UNCHANGED <<clock, tm, kill_sig, io>>

\* select returns to get_event_mask, which waits for the X server only.
WakeMasked ==
  /\ At("select") /\ grabbed /\ Readable
  /\ pc' = Go("check")
  /\ UNCHANGED <<clock, tm, kill_sig, io>>

\* check_input_fds: the callbacks of the descriptors that are set.  They may not take
\* a descriptor off the list, whose next is read after the callback.
InputFds ==
  /\ At("fds") /\ pc.rfds # {}
  /\ ready' = ready \ pc.rfds
  /\ pc' = [pc EXCEPT !.rfds = {}]
  /\ UNCHANGED <<clock, tm, kill_sig, xvars, fds, grabbed>>

\* The rest of get_event: XNextEvent if there was an event.
FdsDone ==
  /\ At("fds") /\ pc.rfds = {}
  /\ IF pc.x
     THEN xq' = Tail(xq \o sock) /\ sock' = <<>> /\ pc' = Go("handle")
     ELSE pc' = Go("check") /\ UNCHANGED xvars
  /\ UNCHANGED <<clock, tm, kill_sig, fds, ready, grabbed>>

\* A handler returns: the loop over the queue of timers goes on, or mainloop reads
\* what else has come (XSync), unless the handler is called by another one.
Return(inner) ==
  IF At("fire")
  THEN pc' = [pc EXCEPT !.at = "timers"] /\ UNCHANGED <<xvars, grabbed>>
  ELSE /\ At("handle")
       /\ pc' = Go("check")
       /\ grabbed' = inner
       /\ IF inner THEN UNCHANGED xvars ELSE xq' = xq \o sock /\ sock' = <<>>

\* A handler sets a timer, its own or another one.
HandlerSets(t, msecs) ==
  /\ Return(grabbed)
  /\ tm' = SetTimer(tm, t, msecs)
  /\ UNCHANGED <<clock, kill_sig, fds, ready>>

HandlerResets(t) ==
  /\ Return(grabbed)
  /\ tm' = ResetTimer(tm, t)
  /\ UNCHANGED <<clock, kill_sig, fds, ready>>

HandlerRegisters(fd) ==
  /\ Return(grabbed)
  /\ fds' = fds \cup {fd}
  /\ UNCHANGED <<clock, tm, kill_sig, ready>>

HandlerUnregisters(fd) ==
  /\ Return(grabbed)
  /\ fds' = fds \ {fd} /\ ready' = ready \ {fd}
  /\ UNCHANGED <<clock, tm, kill_sig>>

\* A button is pressed, and default_pointer_handler reads events until the button
\* is released; nothing else of interest happens in a handler.
HandlerGrabsOrNot ==
  /\ \E inner \in BOOLEAN : Return(inner)
  /\ UNCHANGED <<clock, tm, kill_sig, fds, ready>>

Loop ==
  \/ CheckSignals \/ FireTimer \/ TimersDone
  \/ GetQueued \/ GetMasked \/ Sleep \/ Wake \/ WakeMasked
  \/ InputFds \/ FdsDone \/ HandlerGrabsOrNot
  \/ \E t \in Timer : HandlerResets(t) \/ \E msecs \in Delays : HandlerSets(t, msecs)
  \/ \E fd \in Fd : HandlerRegisters(fd) \/ HandlerUnregisters(fd)

-----------------------------------------------------------------------------
(* What happens to the program, at any time. *)

\* A signal interrupts select, unless there is something to return.
Interrupted == IF At("select") /\ ~Readable THEN Go("check") ELSE pc

\* No time is farther back than this: a timer that is due is only compared with
\* times since, and the loop over the queue takes less time than that.
Earliest == -2
Ago(t) == IF t.sec = Earliest THEN Time(Earliest, 0) ELSE Time(t.sec - 1, t.usec)

\* Time passes; when the alarm is over, timer_handler sets the flag.
Tick ==
  LET over  == clock + 1 = Second
      rings == tm.left = 1
      loop  == At("timers") \/ At("fire")
  IN  /\ ~At("ended")
      /\ (over /\ loop) => pc.time.sec > Earliest + 1
      /\ clock' = IF over THEN 0 ELSE clock + 1
      /\ tm' = [tm EXCEPT
                  !.when = IF over THEN [t \in Timer |-> IF Queued(tm, t) THEN Ago(@[t]) ELSE Never]
                           ELSE @,
                  !.left = IF @ = 0 THEN 0 ELSE IF rings THEN tm.interval ELSE @ - 1,
                  !.had = @ \/ rings]
      /\ pc' = IF over /\ loop THEN [pc EXCEPT !.time = Ago(@)]
               ELSE IF rings THEN Interrupted ELSE pc
      /\ UNCHANGED <<kill_sig, io>>

\* deadly_signal_handler, exit_handler
KillSignal ==
  /\ ~At("ended") /\ ~kill_sig
  /\ kill_sig' = TRUE
  /\ pc' = Interrupted
  /\ UNCHANGED <<clock, tm, io>>

EventArrives(kind) ==
  /\ ~At("ended") /\ ~InSeq(xq \o sock, kind)
  /\ sock' = Append(sock, kind)
  /\ UNCHANGED <<clock, tm, kill_sig, xq, fds, ready, grabbed, pc>>

InputArrives(fd) ==
  /\ ~At("ended") /\ fd \in fds \ ready
  /\ ready' = ready \cup {fd}
  /\ UNCHANGED <<clock, tm, kill_sig, xvars, fds, grabbed, pc>>

Ended == At("ended") /\ UNCHANGED vars

Next ==
  \/ Loop \/ Ended
  \/ Tick \/ KillSignal
  \/ \E kind \in Kinds : EventArrives(kind)
  \/ \E fd \in Fd : InputArrives(fd)

\* The program is run and time passes; nobody needs to do anything else.
Fairness == WF_vars(Loop) /\ WF_vars(Tick)

Spec == Init /\ [][Next]_vars /\ Fairness

-----------------------------------------------------------------------------
(* Properties. *)

\* Every variable has its type.
TypeOK ==
  /\ clock \in 0 .. Second - 1
  /\ tm.queue \in Seq(Timer)
  /\ tm.when \in [Timer -> [sec : Int, usec : Nat]]
  /\ tm.left \in Nat /\ tm.interval \in Nat /\ tm.had \in BOOLEAN
  /\ kill_sig \in BOOLEAN /\ grabbed \in BOOLEAN
  /\ sock \in Seq(Kinds) /\ xq \in Seq(Kinds)
  /\ fds \subseteq Fd /\ ready \subseteq fds
  /\ pc.at \in {"check", "timers", "fire", "queue", "select", "fds", "handle", "ended"}
  /\ pc.time \in [sec : Int, usec : Nat]
  /\ pc.rfds \subseteq Fd /\ pc.x \in BOOLEAN

\* As long as a timer is set the alarm is on and will repeat, whatever timers
\* were set and reset before, by whom, and whatever signal was missed:
\* do_set_timer leaves it alone when the first timer is due already, and so does
\* setitimer when it fails.
AlarmArmed == tm.queue # <<>> => tm.left > 0 /\ tm.interval > 0

\* No timer is in the queue twice, and the times of the queue are in order, also
\* when do_set_timer has borrowed a second from one of them.
QueueInOrder ==
  \A i, j \in DOMAIN tm.queue :
    i < j => /\ tm.queue[i] # tm.queue[j]
             /\ ~Later(tm.when[tm.queue[i]], tm.when[tm.queue[j]])

\* The timers are sound wherever the loop is: one that is set is in its place in the
\* queue, and will be looked at.
TimersSound == TypeOK /\ AlarmArmed /\ QueueInOrder

\* No timer fires before its time, except one from which do_set_timer has borrowed
\* a second, when the flag is set for another reason: that one fires less than a
\* second early.
FiresOnTime ==
  [][FireTimer => \/ Ticks(First(tm)) <= Ticks(pc.time)
                  \/ /\ First(tm).usec >= Second
                     /\ Ticks(First(tm)) < Ticks(pc.time) + Second]_vars

\* A timer that is set fires, or is set again or reset, although the alarm may
\* come when the loop is about to sleep (had_tmr, it_interval).
TimerFires ==
  \A t \in Timer :
    []<>(~Queued(tm, t) \/ At("ended")) \/ []<><<\E msecs \in Delays : HandlerSets(t, msecs)>>_vars

\* An X event is handled, although Xlib may have read it from the connection
\* already; another descriptor is served, unless there are always more events in
\* the queue of Xlib, with which get_event does not come to select.  While a handler
\* waits for the release of a button, only the events of the button are handled.
EventsServed ==
  /\ \A kind \in Kinds :
       InSeq(xq \o sock, kind)
         ~> (~InSeq(xq \o sock, kind) \/ At("ended") \/ (grabbed /\ kind = "other"))
  /\ \A fd \in Fd :
       \/ []<>(fd \notin ready \/ At("ended") \/ grabbed)
       \/ []<>(xq # <<>>)

\* A signal to end that comes too late for check_signals does not end the sleep that
\* follows; it is obeyed after the next thing that does, be it a timer, an event or
\* another descriptor.
KillObeyed == (kill_sig /\ At("select") /\ (Readable \/ tm.queue # <<>>)) ~> At("ended")

\* Whatever the loop promises to serve is served, whichever else comes meanwhile.
EverythingServed == EventsServed /\ KillObeyed

=============================================================================
