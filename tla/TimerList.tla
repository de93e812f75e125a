------------------------------ MODULE TimerList ------------------------------
(***************************************************************************)
(* The timer list of one priority (src/core/cpu/st20.cpp): sleepers linked *)
(* through their workspaces in the order of their deadlines, an alarm      *)
(* register with the first deadline, a clock that wraps around, and the    *)
(* timed alternative, which a sender and the clock may both wake.          *)
(*                                                                         *)
(* Times are compared as the signed difference of two words, so they mean  *)
(* something only within half the range of the clock: the program asks for *)
(* times in Distance of the clock, and processes whose time has passed do  *)
(* not let more than MaxLag further ticks go by (a bound of the model).    *)
(* Timer traps are disabled here.                                          *)
(***************************************************************************)
EXTENDS Integers, Sequences, FiniteSets

CONSTANTS
  Proc,       \* the workspaces of the processes of this priority
  Roles,      \* programs: which processes execute tin, which alternatives
  NoProcess,  \* NO_PROCESS, the end of the list
  Modulus,    \* the clock counts modulo this power of two
  Distance,   \* how far from the clock the program asks for, behind or ahead
  MaxGuards,  \* bound of the model on the timer guards of an alternative
  MaxTicks,   \* bound of the model on the ticks of one clock advance
  MaxLag      \* bound of the model on how late a process acts on its time

Half == Modulus \div 2
Time == 0 .. Modulus - 1

\* The values of pw::Temp that are not the branch of a timer guard.
NONE_SELECTED == -1
CHANNEL       == -2

ASSUME TimerAssumption ==
  /\ IsFiniteSet(Proc) /\ NoProcess \notin Proc \union {"notSet", "set"}
  /\ Proc \intersect {"notSet", "set"} = {}
  /\ Roles \subseteq [sleepers : SUBSET Proc, choosers : SUBSET Proc]
  /\ Half \in Nat \ {0} /\ Modulus = 2 * Half
  /\ MaxTicks \in Nat \ {0} /\ MaxGuards \in Nat
  /\ MaxLag \in Nat /\ MaxLag + 1 < Half
  /\ \A d \in Distance : d \in -MaxLag .. Half - MaxLag - 1

VARIABLES
  roles,    \* the program, which stays the same
  clock,    \* omrState.ClockReg of the priority
  alarms,   \* its TIMER_ALRM_ENB bit of Enables
  tptr,     \* omrState.TptrReg
  tnext,    \* omrState.TnextReg
  held,     \* the front of a list the program took out with swaptimer
  time,     \* the pw::Time word of every workspace
  tlink,    \* the pw::TLink word
  state,    \* the pw::State word
  temp,     \* the pw::Temp word: the branch an alternative has selected
  turns,    \* how often a process is running or queued
  pc,       \* where its program is, or will be when it wakes
  guards,   \* the times its alternative has enabled and not yet disabled
  armed,    \* the same of its channel guard
  sender,   \* a sender waits in its channel
  left,     \* history: ticks until the clock is after each time asked for
  sleepers  \* history: the processes of the list, in order

vars == <<roles, clock, alarms, tptr, tnext, held, time, tlink, state, temp,
          turns, pc, guards, armed, sender, left, sleepers>>
registers == <<roles, clock, alarms, held>>
program   == <<temp, pc, guards, armed, sender>>

\* Mutant of After: a time is past when the clock comes to it.
AfterOrAt(a, b) == (a - b) % Modulus \in 0 .. Half - 1
\* static_cast<int32_t>(a - b) > 0
After(a, b)   == (a - b) % Modulus \in 1 .. Half - 1
\* Mutant of Reached: times are compared as unsigned numbers.
ReachedUnsigned(c, t) == c >= t
\* timeReached
Reached(c, t) == (c - t) % Modulus < Half

------------------------------------------------------------------------------
(* The list, with the words and turns its operations change *)

List == [tptr |-> tptr, tnext |-> tnext, time |-> time, tlink |-> tlink,
         state |-> state, turns |-> turns, sleepers |-> sleepers]

SetList(q) ==
  /\ tptr' = q.tptr /\ tnext' = q.tnext /\ sleepers' = q.sleepers
  /\ time' = q.time /\ tlink' = q.tlink /\ state' = q.state
  /\ turns' = q.turns

\* The entries in the order of their links; Walk(q)[1] is the front.
Walk(q) ==
  LET At[n \in 1 .. Cardinality(Proc) + 1] ==
        IF n = 1 THEN q.tptr
        ELSE IF At[n - 1] \in Proc THEN q.tlink[At[n - 1]] ELSE NoProcess
  IN  At

\* The first place of a walk that ends the list or holds one of the processes.
FirstPlace(walk, processes) ==
  CHOOSE n \in DOMAIN walk :
    /\ walk[n] \in processes \union {NoProcess}
    /\ \A m \in 1 .. n - 1 : walk[m] \notin processes \union {NoProcess}

\* Mutant of Sleep: an entry goes in front of those with the same deadline.
SleepFirst(q, p, t, mark) ==
  LET deadline == (t + 1) % Modulus
      walk == Walk(q)
      n    == FirstPlace(walk, {w \in Proc : ~After(deadline, q.time[w])})
  IN  [q EXCEPT !.tptr     = IF n = 1 THEN p ELSE @,
                !.tnext    = IF n = 1 THEN deadline ELSE @,
                !.tlink    = IF n = 1 THEN [@ EXCEPT ![p] = walk[1]]
                             ELSE [@ EXCEPT ![p] = walk[n], ![walk[n - 1]] = p],
                !.time[p]  = deadline,
                !.state[p] = mark,
                !.turns[p] = @ - 1,
                !.sleepers = SubSeq(@, 1, n - 1) \o <<p>> \o SubSeq(@, n, Len(@))]

\* waitTimer: p joins behind the entries due no later than one tick after t,
\* and is descheduled.
Sleep(q, p, t, mark) ==
  LET deadline == (t + 1) % Modulus
      walk == Walk(q)
      n    == FirstPlace(walk, {w \in Proc : After(q.time[w], deadline)})
  IN  [q EXCEPT !.tptr     = IF n = 1 THEN p ELSE @,
                !.tnext    = IF n = 1 THEN deadline ELSE @,
                !.tlink    = IF n = 1 THEN [@ EXCEPT ![p] = walk[1]]
                             ELSE [@ EXCEPT ![p] = walk[n], ![walk[n - 1]] = p],
                !.time[p]  = deadline,
                !.state[p] = mark,
                !.turns[p] = @ - 1,
                !.sleepers = SubSeq(@, 1, n - 1) \o <<p>> \o SubSeq(@, n, Len(@))]

\* timersDue, and the test in the loop of releaseDueTimers: time t was reached
\* when the clock was old, or so many ticks more reach it.
Due(old, ticks, t) == Reached(old, t) \/ ticks >= (t - old) % Modulus

\* releaseDueTimers: the released processes that have to be queued.
Woken(q, gone) == {p \in gone : q.state[p] # "ready"}

\* releaseDueTimers: due entries leave from the front.  The ones that belong
\* to an alternative are marked ready and record the clock.
Released(q, old, ticks) ==
  LET walk == Walk(q)
      n    == FirstPlace(walk, {w \in Proc : ~Due(old, ticks, q.time[w])})
      gone == {walk[m] : m \in 1 .. n - 1}
      alts == {p \in gone : q.state[p] \in {"waiting", "ready"}}
      now  == (old + ticks) % Modulus
  IN  [q EXCEPT
        !.tptr     = walk[n],
        !.tnext    = IF walk[n] # NoProcess THEN q.time[walk[n]]
                     ELSE IF n > 2 THEN q.time[walk[n - 1]] ELSE @,
        !.state    = [p \in Proc |-> IF p \in alts THEN "ready" ELSE @[p]],
        !.time     = [p \in Proc |-> IF p \in alts THEN now ELSE @[p]],
        !.tlink    = [p \in Proc |-> IF p \in alts THEN "set" ELSE @[p]],
        !.turns    = [p \in Proc |-> @[p] + IF p \in Woken(q, gone) THEN 1 ELSE 0],
        !.sleepers = SubSeq(@, n, Len(@))]

\* releaseTimers: the list is only walked when its alarm has been reached.
ReleaseTimers(q, old, ticks) ==
  IF alarms' /\ q.tptr # NoProcess /\ Due(old, ticks, q.tnext)
  THEN SetList(Released(q, old, ticks)) ELSE SetList(q)

\* Every instruction ends in a poll, which releases with no ticks of its own.
EndInstruction(q) == ReleaseTimers(q, clock', 0)

\* While the list is out, only the process that took it runs.
Runs(p, at) == turns[p] > 0 /\ pc[p] = at /\ held = NoProcess

------------------------------------------------------------------------------
(* The clock *)

Asked(p) == DOMAIN left[p]
Nothing  == [t \in {} |-> 0]

\* The history keeps what is asked for until its process goes on from tin.
Keep(asked) ==
  left' = [p \in Proc |-> IF pc'[p] = "free" /\ turns'[p] > 0 THEN Nothing
                                                             ELSE asked[p]]

\* applyClockCycles and syncClocks: ticks go by, then timers are released.
Tick(ticks) ==
  /\ \A p \in Proc : \A t \in Asked(p) : left[p][t] - ticks >= -MaxLag
  /\ clock' = (clock + ticks) % Modulus
  /\ UNCHANGED <<roles, alarms, held, program>>
  /\ ReleaseTimers(List, clock, ticks)
  /\ Keep([p \in Proc |-> [t \in Asked(p) |-> left[p][t] - ticks]])

\* gintdis and gintenb of the timer alarm.
SwitchAlarms ==
  /\ alarms' = ~alarms
  /\ UNCHANGED <<roles, clock, held, program>>
  /\ EndInstruction(List)
  /\ Keep(left)

\* sttimer, and stclock with a clockenb: while nobody has asked for a time.
StoreTimer(value) ==
  /\ \A p \in Proc : Asked(p) = {}
  /\ clock' = value
  /\ UNCHANGED <<roles, alarms, held, program>>
  /\ EndInstruction(List)
  /\ Keep(left)

\* swaptimer: the program takes the list out, and puts it back.
SwapTimer ==
  /\ held # NoProcess \/ tptr # NoProcess
  /\ held' = tptr
  /\ UNCHANGED <<roles, clock, alarms, program>>
  /\ EndInstruction([List EXCEPT
       !.tptr = held,
       !.tnext = IF held # NoProcess THEN time[held] ELSE @])
  /\ Keep(left)

------------------------------------------------------------------------------
(* Waiting *)

\* How many ticks until the clock is strictly after t, t being at distance d.
Until(d) == d + 1

\* tin
Tin(p, d) ==
  LET t == (clock + d) % Modulus IN
  /\ Runs(p, "free")
  /\ UNCHANGED <<registers, program>>
  /\ EndInstruction(IF After(clock, t) THEN List ELSE Sleep(List, p, t, "enabling"))
  /\ Keep([left EXCEPT ![p] = [u \in {t} |-> Until(d)]])

\* talt: beginAlternative.
BeginTimed(p) ==
  /\ Runs(p, "free")
  /\ pc' = [pc EXCEPT ![p] = "enabling"]
  /\ left' = [left EXCEPT ![p] = Nothing]
  /\ UNCHANGED <<registers, temp, guards, armed, sender>>
  /\ EndInstruction([List EXCEPT !.state[p] = "enabling", !.tlink[p] = "notSet"])

\* Mutant of Earliest: the last time enabled wins.
EarliestLast(p, t) == Runs(p, "enabling")
\* enableAltTimer keeps the earliest time enabled.
Earliest(p, t) == tlink[p] = "notSet" \/ After(time[p], t)

\* enbt
EnableTimer(p, d) ==
  LET t == (clock + d) % Modulus IN
  /\ Runs(p, "enabling")
  /\ t \notin guards[p] /\ Cardinality(guards[p]) < MaxGuards
  /\ guards' = [guards EXCEPT ![p] = @ \union {t}]
  /\ left' = [left EXCEPT ![p] = [u \in guards'[p] |->
                                    IF u = t THEN Until(d) ELSE left[p][u]]]
  /\ UNCHANGED <<registers, temp, pc, armed, sender>>
  /\ EndInstruction([List EXCEPT
       !.tlink[p] = IF @ = "notSet" THEN "set" ELSE @,
       !.time[p] = IF Earliest(p, t) THEN t ELSE @])

\* enbc: enableAltChannel registers, or finds a sender.
EnableChannel(p) ==
  /\ Runs(p, "enabling") /\ ~armed[p]
  /\ armed' = [armed EXCEPT ![p] = TRUE]
  /\ UNCHANGED <<registers, temp, pc, guards, sender, left>>
  /\ EndInstruction([List EXCEPT !.state[p] = IF sender[p] THEN "ready" ELSE @])

\* A sender comes to the channel of p: the alternative case of transferChannel.
Send(p) ==
  /\ ~sender[p]
  /\ sender' = [sender EXCEPT ![p] = TRUE]
  /\ UNCHANGED <<registers, temp, pc, guards, armed, left>>
  /\ EndInstruction(IF ~armed[p] THEN List ELSE
       [List EXCEPT !.state[p] = "ready",
                    !.turns[p] = IF state[p] = "waiting" THEN @ + 1 ELSE @])

\* waitTimedAlternative, when it does not sleep: the clock is recorded.
FoundReady(p) ==
  /\ \/ state[p] = "ready"
     \/ tlink[p] = "set" /\ After(clock, time[p])
  /\ EndInstruction([List EXCEPT !.state[p] = "ready", !.time[p] = clock])

\* ... without a timer guard, it is waitAlternative.
SleepUntimed(p) ==
  /\ state[p] # "ready" /\ tlink[p] = "notSet"
  /\ EndInstruction([List EXCEPT !.state[p] = "waiting", !.turns[p] = @ - 1])

\* ... and otherwise it joins the list with the earliest time enabled.
SleepTimed(p) ==
  /\ state[p] # "ready" /\ tlink[p] = "set" /\ ~After(clock, time[p])
  /\ EndInstruction(Sleep(List, p, time[p], "waiting"))

\* taltwt
WaitTimed(p) ==
  /\ Runs(p, "enabling")
  /\ guards[p] # {} \/ armed[p]
  /\ pc' = [pc EXCEPT ![p] = "disabling"]
  /\ temp' = [temp EXCEPT ![p] = NONE_SELECTED]
  /\ UNCHANGED <<registers, guards, armed, sender, left>>
  /\ FoundReady(p) \/ SleepUntimed(p) \/ SleepTimed(p)

------------------------------------------------------------------------------
(* Selecting *)

\* disableAltSkip of a guard that is ready.
Selected(p, branch) ==
  temp' = [temp EXCEPT ![p] = IF @ = NONE_SELECTED THEN branch ELSE @]

\* Mutant of Detached: an entry that is not in front stays in the list.
DetachedFront(q, p) ==
  IF q.tptr = p
  THEN [q EXCEPT !.tptr = q.tlink[p], !.tlink[p] = "notSet", !.sleepers = Tail(@),
                 !.tnext = IF q.tlink[p] = NoProcess THEN @ ELSE q.time[q.tlink[p]]]
  ELSE q

\* disableAltTimer takes the process out of the list it may still be in.
Detached(q, p) ==
  LET walk == Walk(q)
      next == q.tlink[p]
      n    == FirstPlace(walk, {p})
  IN  IF walk[n] = NoProcess THEN q
      ELSE [q EXCEPT
             !.tptr  = IF n = 1 THEN next ELSE @,
             !.tnext = IF n = 1 /\ next # NoProcess THEN q.time[next] ELSE @,
             !.tlink = IF n = 1 THEN [@ EXCEPT ![p] = "notSet"]
                       ELSE [@ EXCEPT ![p] = "notSet", ![walk[n - 1]] = next],
             !.sleepers = SubSeq(@, 1, n - 1) \o SubSeq(@, n + 1, Len(@))]

\* dist
DisableTimer(p, t) ==
  /\ Runs(p, "disabling")
  /\ t \in guards[p]
  /\ guards' = [guards EXCEPT ![p] = @ \ {t}]
  /\ IF tlink[p] = "set" /\ After(time[p], t) THEN Selected(p, t) ELSE UNCHANGED temp
  /\ UNCHANGED <<registers, pc, armed, sender, left>>
  /\ EndInstruction(Detached(List, p))

\* disc
DisableChannel(p) ==
  /\ Runs(p, "disabling") /\ armed[p]
  /\ armed' = [armed EXCEPT ![p] = FALSE]
  /\ IF sender[p] THEN Selected(p, CHANNEL) ELSE UNCHANGED temp
  /\ UNCHANGED <<registers, pc, guards, sender, left>>
  /\ EndInstruction(List)

\* altend, and the in of the channel's branch.
Finish(p) ==
  /\ Runs(p, "disabling")
  /\ guards[p] = {} /\ ~armed[p]
  /\ pc' = [pc EXCEPT ![p] = "free"]
  /\ left' = [left EXCEPT ![p] = Nothing]
  /\ sender' = IF temp[p] = CHANNEL THEN [sender EXCEPT ![p] = FALSE] ELSE sender
  /\ UNCHANGED <<registers, temp, guards, armed>>
  /\ EndInstruction(List)

------------------------------------------------------------------------------
Init ==
  /\ roles \in Roles
  /\ clock \in Time
  /\ alarms = TRUE
  /\ tptr = NoProcess /\ tnext = 0 /\ held = NoProcess /\ sleepers = <<>>
  /\ time = [p \in Proc |-> 0]
  /\ tlink = [p \in Proc |-> "notSet"]
  /\ state = [p \in Proc |-> "enabling"]
  /\ temp = [p \in Proc |-> NONE_SELECTED]
  /\ turns = [p \in Proc |-> 1]
  /\ pc = [p \in Proc |-> "free"]
  /\ guards = [p \in Proc |-> {}]
  /\ armed = [p \in Proc |-> FALSE]
  /\ sender = [p \in Proc |-> FALSE]
  /\ left = [p \in Proc |-> Nothing]

Alternative(p) ==
  \/ \E d \in Distance : EnableTimer(p, d)
  \/ EnableChannel(p) \/ WaitTimed(p)
  \/ \E t \in guards[p] : DisableTimer(p, t)
  \/ DisableChannel(p) \/ Finish(p)

Next ==
  \/ \E ticks \in 1 .. MaxTicks : Tick(ticks)
  \/ SwitchAlarms \/ SwapTimer
  \/ \E value \in Time : StoreTimer(value)
  \/ \E p \in roles.sleepers, d \in Distance : Tin(p, d)
  \/ \E p \in roles.choosers : BeginTimed(p) \/ Send(p) \/ Alternative(p)

Spec == Init /\ [][Next]_vars

------------------------------------------------------------------------------
(* Properties *)

Mark == {"enabling", "waiting", "ready"}

\* The words hold what the operations write there.
TypeOK ==
  /\ clock \in Time /\ alarms \in BOOLEAN
  /\ tptr \in Proc \union {NoProcess} /\ held \in Proc \union {NoProcess}
  /\ tnext \in Time
  /\ time \in [Proc -> Time]
  /\ tlink \in [Proc -> Proc \union {NoProcess, "notSet", "set"}]
  /\ state \in [Proc -> Mark]
  /\ temp \in [Proc -> Time \union {NONE_SELECTED, CHANNEL}]
  /\ turns \in [Proc -> 0 .. 1]
  /\ pc \in [Proc -> {"free", "enabling", "disabling"}]
  /\ guards \in [Proc -> SUBSET Time]
  /\ armed \in [Proc -> BOOLEAN] /\ sender \in [Proc -> BOOLEAN]

\* The ticks until the first of the times a process asked for.
Remaining(p) == CHOOSE n \in {left[p][t] : t \in Asked(p)} :
                  \A t \in Asked(p) : n <= left[p][t]

\* The links from the front register, or from the front the program holds,
\* are the sleepers, in the order in which their times come wherever the clock
\* wraps; the alarm is the first deadline; and no process leaves its
\* alternative with its entry still linked.
ListInOrder ==
  LET n == Len(sleepers)
      front == IF held # NoProcess THEN held ELSE tptr
  IN  /\ TypeOK
      /\ front = IF n = 0 THEN NoProcess ELSE sleepers[1]
      /\ tptr # NoProcess => tnext = time[tptr]
      /\ \A i \in 1 .. n :
           /\ tlink[sleepers[i]] = IF i = n THEN NoProcess ELSE sleepers[i + 1]
           /\ pc[sleepers[i]] = "disabling" \/ turns[sleepers[i]] = 0
      /\ \A i \in 1 .. n :
           \A j \in i + 1 .. n : Remaining(sleepers[i]) <= Remaining(sleepers[j])

\* Nobody goes on from tin before the clock is after the time asked for.
NeverEarly ==
  [][\A p \in Proc : pc[p] = "free" /\ turns[p] = 0 /\ turns'[p] > 0 =>
       \A t \in Asked(p) : left[p][t] <= (clock' - clock) % Modulus]_vars

\* Nobody whose time has passed still sleeps, while alarms are on and the
\* list is in its place.
DueAreAwake ==
  alarms /\ held = NoProcess =>
    \A p \in Proc : turns[p] = 0 => \A t \in Asked(p) : left[p][t] > 0

\* A timer's branch is selected only after its time, a channel's only when a
\* sender waits; and an alternative never ends without a branch, whoever woke
\* it and in whatever order its guards are disabled.
SelectionReady ==
  \A p \in Proc : pc[p] = "disabling" /\ turns[p] > 0 =>
    /\ temp[p] \in Time => left[p][temp[p]] <= 0
    /\ temp[p] = CHANNEL => sender[p]
    /\ guards[p] = {} /\ ~armed[p] => temp[p] # NONE_SELECTED
==============================================================================
