---------------------------- MODULE ExternalProofs ----------------------------
(***************************************************************************)
(* What the external channels promise, for any processes, endpoints,       *)
(* capacities and lengths.                                                 *)
(***************************************************************************)
EXTENDS ExternalChannels, NumberLemmas, SequenceTheorems, FiniteSetTheorems

-----------------------------------------------------------------------------
(***************************************************************************)
(* The invariant.  Of one state at a time: the helpers take states that an *)
(* action only passes through, in the middle of a poll or of an            *)
(* instruction, where a transfer that can be done is still to be done.     *)
(***************************************************************************)

\* A process, or none.
Somebody == ExtProcess \union {NobodyWaits}

\* A registered channel.
ExtRecord ==
  [registered : {TRUE}, input : 0 .. ExtCapacity, output : 0 .. ExtCapacity, waiter : Somebody,
   length : 0 .. ExtCapacity, inputWait : BOOLEAN, queued : BOOLEAN, altOwner : Somebody,
   altWake : BOOLEAN, altNotified : BOOLEAN]

\* A state; the error of a second waiter is never raised.
ExtState ==
  [channel : [Endpoint -> ExtRecord \union {Unregistered}], trap : BOOLEAN,
   handlerTrap : BOOLEAN, interrupt : BOOLEAN, ready : Seq(ExtProcess), running : Somebody, handler : Somebody,
   word : [ExtProcess -> {"ready", "enabling", "waiting"}],
   guards : [ExtProcess -> SUBSET Endpoint],
   phase : [ExtProcess -> {"none", "enabling", "disabling", "branch"}],
   chosen : [ExtProcess -> Endpoint \union {NobodyWaits}], canceled : Somebody,
   error : {FALSE}, fed : [Endpoint -> Int], sent : [Endpoint -> Int]]

\* The places of a process that does not sleep.
InReady(s, p) == \E i \in DOMAIN s.ready : s.ready[i] = p
Awake(s, p) == InReady(s, p) \/ s.running = p \/ s.handler = p

\* It is in one of them, once.
Places(s) ==
  /\ \A i, j \in DOMAIN s.ready : s.ready[i] = s.ready[j] => i = j
  /\ s.running # NobodyWaits => s.running # s.handler /\ ~InReady(s, s.running)
  /\ s.handler # NobodyWaits => ~InReady(s, s.handler)

\* The process that waits for a transfer sleeps, until it is queued or the kernel told of it.
\* It waits on no other channel, and no alternative uses this one.
WaitOk(s, c) ==
  LET e == s.channel[c]
      p == e.waiter
  IN  /\ p = NobodyWaits => ~e.queued
      /\ p # NobodyWaits =>
           /\ s.phase[p] = "none" /\ s.canceled # p /\ e.altOwner = NobodyWaits
           /\ e.queued => Awake(s, p) /\ s.running # p /\ e.length = 0
           /\ ~e.queued => ~Awake(s, p)
           /\ \A d \in Registered(s) : s.channel[d].waiter = p => d = c
           /\ \A q \in ExtProcess : s.chosen[q] # c

\* So do all of them; the one that a reset has canceled sleeps too.
Waits(s) ==
  /\ \A c \in Registered(s) : WaitOk(s, c)
  /\ s.canceled # NobodyWaits => ~Awake(s, s.canceled) /\ s.phase[s.canceled] = "none"

\* The alternative of the channel is to be released, and was not yet.
Waked(s, c) == s.channel[c].altWake /\ ~s.channel[c].altNotified

\* The alternative of a process: what its state word and its phase say of each other, of the
\* channels that it has enabled, and of the one that it has selected.  A channel that is to
\* wake it has input, and is the only one that is.
AltOk(s, p) ==
  /\ \A c \in Endpoint : (c \in s.guards[p]) <=> (c \in Registered(s) /\ s.channel[c].altOwner = p)
  /\ s.guards[p] # {} => s.phase[p] \in {"enabling", "disabling"}
  /\ s.phase[p] = "disabling" => s.guards[p] # {}
  /\ s.word[p] = "enabling" => s.phase[p] = "enabling"
  /\ s.word[p] = "waiting" => s.phase[p] = "disabling" /\ ~Awake(s, p) /\ s.chosen[p] = NobodyWaits
  /\ s.phase[p] \in {"enabling", "branch"} => Awake(s, p)
  /\ s.phase[p] = "branch" => s.chosen[p] # NobodyWaits
  /\ s.chosen[p] # NobodyWaits =>
       /\ s.phase[p] \in {"disabling", "branch"} /\ Awake(s, p)
       /\ s.chosen[p] \in Registered(s) /\ s.channel[s.chosen[p]].input > 0
       /\ s.channel[s.chosen[p]].altOwner = NobodyWaits
  /\ s.word[p] \in {"enabling", "waiting"} =>
       \A c \in s.guards[p] : ~s.channel[c].altWake /\ ~s.channel[c].altNotified
  /\ \A c \in s.guards[p] : Waked(s, c) =>
       /\ s.phase[p] = "disabling" /\ ~Awake(s, p) /\ s.channel[c].input > 0
       /\ \A d \in s.guards[p] : Waked(s, d) => d = c
  /\ s.phase[p] \in {"enabling", "disabling"} /\ s.word[p] = "ready" /\ s.chosen[p] = NobodyWaits =>
       \E c \in s.guards[p] : s.channel[c].input > 0

\* Of all the processes.
Alts(s) == \A p \in ExtProcess : AltOk(s, p)

\* A process that sleeps is known to what is to wake it.
SleepOk(s, p) ==
  Awake(s, p) \/ s.canceled = p \/ s.word[p] = "waiting"
    \/ (\E c \in Registered(s) : s.channel[c].waiter = p)
    \/ (\E c \in s.guards[p] : Waked(s, c))

\* All of them.
Sleeps(s) == \A p \in ExtProcess : SleepOk(s, p)

\* A FIFO holds what was fed and not asked for, and what was asked for and not yet moved.
Books(s) ==
  \A c \in Registered(s) :
    /\ s.channel[c].input = s.fed[c] + Pending(s.channel[c], TRUE)
    /\ s.channel[c].output = s.sent[c] - Pending(s.channel[c], FALSE)

\* The invariant, in the middle of an action.
ExtGood(s) == s \in ExtState /\ Places(s) /\ Waits(s) /\ Alts(s) /\ Sleeps(s) /\ Books(s)

\* At its end, nothing is left on a channel that a poll could do.
QuietAt(s, c) ==
  LET e == s.channel[c]
  IN  /\ e.waiter # NobodyWaits /\ ~e.queued =>
           (e.length = 0 => ~MayRelease(s)) /\ (e.length # 0 => ~TransferReady(e))
      /\ e.altOwner # NobodyWaits =>
           (s.word[e.altOwner] = "waiting" => e.input = 0) /\ (Waked(s, c) => ~MayRelease(s))

\* On any channel.
Quiet(s) == \A c \in Registered(s) : QuietAt(s, c)

-----------------------------------------------------------------------------
(***************************************************************************)
(* Records and states.                                                     *)
(***************************************************************************)

\* The constants.
LEMMA ExtConstants ==
  /\ ExtCapacity \in Nat /\ ExtCapacity > 0 /\ Lengths \subseteq 1 .. ExtCapacity
  /\ NobodyWaits \notin ExtProcess /\ NobodyWaits \notin Endpoint
  /\ 0 \in 0 .. ExtCapacity /\ \A n \in Lengths : n \in 0 .. ExtCapacity /\ n # 0
BY ExternalAssumption

\* The fields of a state.
LEMMA StateFields ==
  ASSUME NEW s \in ExtState
  PROVE  /\ s.channel \in [Endpoint -> ExtRecord \union {Unregistered}] /\ s.trap \in BOOLEAN
         /\ s.handlerTrap \in BOOLEAN /\ s.interrupt \in BOOLEAN
         /\ s.ready \in Seq(ExtProcess) /\ s.running \in Somebody /\ s.handler \in Somebody
         /\ s.word \in [ExtProcess -> {"ready", "enabling", "waiting"}]
         /\ s.guards \in [ExtProcess -> SUBSET Endpoint]
         /\ s.phase \in [ExtProcess -> {"none", "enabling", "disabling", "branch"}]
         /\ s.chosen \in [ExtProcess -> Endpoint \union {NobodyWaits}] /\ s.canceled \in Somebody
         /\ s.error = FALSE /\ s.fed \in [Endpoint -> Int] /\ s.sent \in [Endpoint -> Int]
BY DEF ExtState

\* And those of a process.
LEMMA ProcessFields ==
  ASSUME NEW s \in ExtState, NEW q \in ExtProcess
  PROVE  /\ s.guards[q] \subseteq Endpoint /\ s.word[q] \in {"ready", "enabling", "waiting"}
         /\ s.phase[q] \in {"none", "enabling", "disabling", "branch"}
         /\ s.chosen[q] \in Endpoint \union {NobodyWaits} /\ q # NobodyWaits /\ q \in Somebody
<1>1. s.guards[q] \in SUBSET Endpoint
  BY DEF ExtState
<1>2. /\ s.word[q] \in {"ready", "enabling", "waiting"}
      /\ s.phase[q] \in {"none", "enabling", "disabling", "branch"}
      /\ s.chosen[q] \in Endpoint \union {NobodyWaits}
  BY DEF ExtState
<1>3. q # NobodyWaits /\ q \in Somebody
  BY ExtConstants DEF Somebody
<1> QED BY <1>1, <1>2, <1>3

\* And those of an endpoint.
LEMMA EndpointFields ==
  ASSUME NEW s \in ExtState, NEW c \in Endpoint
  PROVE  /\ s.channel[c] \in ExtRecord \union {Unregistered}
         /\ s.fed[c] \in Int /\ s.sent[c] \in Int
BY DEF ExtState

\* The fields of a channel.
LEMMA RecordFields ==
  ASSUME NEW e \in ExtRecord
  PROVE  /\ e.registered = TRUE /\ e.input \in 0 .. ExtCapacity /\ e.output \in 0 .. ExtCapacity
         /\ e.waiter \in Somebody /\ e.length \in 0 .. ExtCapacity /\ e.inputWait \in BOOLEAN
         /\ e.queued \in BOOLEAN /\ e.altOwner \in Somebody /\ e.altWake \in BOOLEAN
         /\ e.altNotified \in BOOLEAN
BY DEF ExtRecord

\* The registered channels are those with a record.
LEMMA RegisteredRecords ==
  ASSUME NEW s \in ExtState
  PROVE  /\ Registered(s) \subseteq Endpoint
         /\ \A c \in Registered(s) : s.channel[c] \in ExtRecord
         /\ \A c \in Endpoint : s.channel[c] \in ExtRecord => c \in Registered(s)
         /\ \A c \in Endpoint \ Registered(s) : s.channel[c] = Unregistered
<1>1. s.channel \in [Endpoint -> ExtRecord \union {Unregistered}]
  BY StateFields
<1>2. Unregistered.registered = FALSE
  BY DEF Unregistered
<1>3. \A e \in ExtRecord : e.registered = TRUE
  BY RecordFields
<1> QED BY <1>1, <1>2, <1>3 DEF Registered

\* A transfer that can be done.
LEMMA TransferFields ==
  ASSUME NEW e \in ExtRecord, TransferReady(e)
  PROVE  LET f == transferNativeExternalBytes(e)
         IN  /\ f \in ExtRecord /\ f.length = 0
             /\ f.input = (IF e.inputWait THEN e.input - e.length ELSE e.input)
             /\ f.output = (IF e.inputWait THEN e.output ELSE e.output + e.length)
             /\ f.waiter = e.waiter /\ f.inputWait = e.inputWait /\ f.queued = e.queued
             /\ f.altOwner = e.altOwner /\ f.altWake = e.altWake /\ f.altNotified = e.altNotified
<1> DEFINE f == transferNativeExternalBytes(e)
           n == IF e.inputWait THEN e.input - e.length ELSE e.input
           m == IF e.inputWait THEN e.output ELSE e.output + e.length
<1>1. /\ e.input \in 0 .. ExtCapacity /\ e.output \in 0 .. ExtCapacity
      /\ e.length \in 0 .. ExtCapacity /\ e.inputWait \in BOOLEAN /\ ExtCapacity \in Nat
  BY RecordFields, ExtConstants
<1>2. n \in 0 .. ExtCapacity /\ m \in 0 .. ExtCapacity
  BY <1>1 DEF TransferReady
<1>3. f = [e EXCEPT !.input = n, !.output = m, !.length = 0]
  <2>1. CASE e.inputWait
    BY <1>1, <2>1 DEF transferNativeExternalBytes, ExtRecord
  <2>2. CASE ~e.inputWait
    BY <1>1, <2>2 DEF transferNativeExternalBytes, ExtRecord
  <2> QED BY <2>1, <2>2
<1> HIDE DEF f
<1>4. /\ f.length = 0 /\ f.input = n /\ f.output = m
      /\ f.waiter = e.waiter /\ f.inputWait = e.inputWait /\ f.queued = e.queued
      /\ f.altOwner = e.altOwner /\ f.altWake = e.altWake /\ f.altNotified = e.altNotified
  BY <1>3 DEF ExtRecord
<1>5. f \in ExtRecord
  <2> HIDE DEF n, m
  <2>1. 0 \in 0 .. ExtCapacity
    BY ExtConstants
  <2> QED BY <1>2, <1>3, <2>1 DEF ExtRecord
<1> QED BY <1>4, <1>5 DEF f

-----------------------------------------------------------------------------
(***************************************************************************)
(* Releasing a process, to the ready queue or to the kernel.               *)
(***************************************************************************)

\* A release may be made in the one if it may in the other.
SameMask(s, t) == t.trap = s.trap /\ t.interrupt = s.interrupt /\ t.handler = s.handler

\* All that the invariant looks at, but for the channels and places.
SameRest(s, t) ==
  /\ t.word = s.word /\ t.guards = s.guards /\ t.phase = s.phase
  /\ t.chosen = s.chosen /\ t.canceled = s.canceled /\ t.fed = s.fed /\ t.sent = s.sent

\* A process that is in no place is put in the ready queue.
LEMMA AppendedPlaces ==
  ASSUME NEW s \in ExtState, Places(s), NEW p \in ExtProcess, ~Awake(s, p),
         NEW t \in ExtState, t.ready = Append(s.ready, p), t.running = s.running,
         t.handler = s.handler
  PROVE  /\ Places(t) /\ \A q \in ExtProcess : Awake(t, q) <=> (Awake(s, q) \/ q = p)
<1> DEFINE n == Len(s.ready)
<1>1. /\ s.ready \in Seq(ExtProcess) /\ n \in Nat /\ DOMAIN s.ready = 1 .. n
      /\ DOMAIN t.ready = 1 .. n + 1
      /\ t.ready[n + 1] = p /\ \A i \in 1 .. n : t.ready[i] = s.ready[i]
  <2>1. s.ready \in Seq(ExtProcess)
    BY StateFields
  <2>2. Len(Append(s.ready, p)) = n + 1 /\ Append(s.ready, p) \in Seq(ExtProcess)
    BY <2>1, AppendProperties
  <2>3. DOMAIN t.ready = 1 .. n + 1
    BY <2>2, LenProperties
  <2> QED BY <2>1, <2>2, <2>3, LenProperties, AppendProperties
<1> HIDE DEF n
<1>2. \A i \in 1 .. n + 1 : i # n + 1 => i \in 1 .. n
  BY <1>1
<1>3. \A i \in 1 .. n : s.ready[i] # p
  BY <1>1 DEF Awake, InReady
<1>4. \A q : InReady(t, q) <=> (InReady(s, q) \/ q = p)
  <2>1. n + 1 \in 1 .. n + 1 /\ \A i \in 1 .. n : i \in 1 .. n + 1
    BY <1>1
  <2> QED BY <1>1, <1>2, <2>1 DEF InReady
<1>5. \A i, j \in DOMAIN t.ready : t.ready[i] = t.ready[j] => i = j
  <2>1. \A i, j \in 1 .. n : s.ready[i] = s.ready[j] => i = j
    BY <1>1 DEF Places
  <2> QED BY <1>1, <1>2, <1>3, <2>1
<1>6. s.running # p /\ s.handler # p
  BY DEF Awake
<1>7. Places(t)
  BY <1>4, <1>5, <1>6 DEF Places
<1> QED BY <1>4, <1>7 DEF Awake

\* Or given to the kernel.
LEMMA HandledPlaces ==
  ASSUME NEW s \in ExtState, Places(s), NEW p \in ExtProcess, ~Awake(s, p),
         s.handler = NobodyWaits,
         NEW t \in ExtState, t.ready = s.ready, t.running = s.running, t.handler = p
  PROVE  /\ Places(t) /\ \A q \in ExtProcess : Awake(t, q) <=> (Awake(s, q) \/ q = p)
<1>1. NobodyWaits \notin ExtProcess
  BY ExtConstants
<1>2. \A q : InReady(t, q) <=> InReady(s, q)
  BY DEF InReady
<1>3. ~InReady(s, p) /\ s.running # p
  BY DEF Awake
<1>4. Places(t)
  BY <1>2, <1>3 DEF Places
<1> QED BY <1>1, <1>2, <1>4 DEF Awake

\* A release.
LEMMA ReleaseFacts ==
  ASSUME NEW s \in ExtState, Places(s), NEW p \in ExtProcess, ~Awake(s, p), MayRelease(s)
  PROVE  LET t == releaseExternalOwner(s, p)
         IN  /\ t \in ExtState /\ SameRest(s, t) /\ t.channel = s.channel /\ t.running = s.running
             /\ Places(t) /\ \A q \in ExtProcess : Awake(t, q) <=> (Awake(s, q) \/ q = p)
<1> DEFINE t == releaseExternalOwner(s, p)
<1>0. p \in Somebody
  BY DEF Somebody
<1>1. CASE s.trap
  <2>1. t = [s EXCEPT !.handler = p, !.trap = s.handlerTrap]
    BY <1>1 DEF releaseExternalOwner
  <2> HIDE DEF t
  <2>2. t \in ExtState
    BY <1>0, <2>1, StateFields DEF ExtState
  <2>3. /\ SameRest(s, t) /\ t.channel = s.channel /\ t.running = s.running
        /\ t.ready = s.ready /\ t.handler = p
    BY <2>1 DEF ExtState, SameRest
  <2>4. s.handler = NobodyWaits
    BY <1>1 DEF MayRelease, HandlerActive
  <2>5. Places(t) /\ \A q \in ExtProcess : Awake(t, q) <=> (Awake(s, q) \/ q = p)
    BY <2>2, <2>3, <2>4, HandledPlaces
  <2> QED BY <2>2, <2>3, <2>5 DEF t
<1>2. CASE ~s.trap
  <2>1. t = [s EXCEPT !.ready = Append(s.ready, p)]
    BY <1>2 DEF releaseExternalOwner
  <2> HIDE DEF t
  <2>2. Append(s.ready, p) \in Seq(ExtProcess)
    BY StateFields, AppendProperties
  <2>3. t \in ExtState
    BY <2>1, <2>2 DEF ExtState
  <2>4. /\ SameRest(s, t) /\ t.channel = s.channel /\ t.running = s.running
        /\ t.ready = Append(s.ready, p) /\ t.handler = s.handler
    BY <2>1 DEF ExtState, SameRest
  <2>5. Places(t) /\ \A q \in ExtProcess : Awake(t, q) <=> (Awake(s, q) \/ q = p)
    BY <2>3, <2>4, AppendedPlaces
  <2> QED BY <2>3, <2>4, <2>5 DEF t
<1> QED BY <1>1, <1>2

-----------------------------------------------------------------------------
(***************************************************************************)
(* The poll of an endpoint: a transfer that can be done.                   *)
(***************************************************************************)

\* One channel changes, and stays registered.
LEMMA OneChannel ==
  ASSUME NEW s \in ExtState, NEW c \in Registered(s), NEW f \in ExtRecord, NEW t \in ExtState,
         t.channel = [s.channel EXCEPT ![c] = f]
  PROVE  /\ Registered(t) = Registered(s) /\ t.channel[c] = f /\ c \in Endpoint
         /\ \A d \in Endpoint : d # c => t.channel[d] = s.channel[d]
<1>1. c \in Endpoint /\ s.channel \in [Endpoint -> ExtRecord \union {Unregistered}]
  BY RegisteredRecords, StateFields
<1>2. t.channel[c] = f /\ \A d \in Endpoint : d # c => t.channel[d] = s.channel[d]
  BY <1>1
<1>3. f.registered /\ s.channel[c].registered
  BY RecordFields, RegisteredRecords
<1>4. Registered(t) = Registered(s)
  BY <1>1, <1>2, <1>3 DEF Registered
<1> QED BY <1>1, <1>2, <1>4

\* One channel changes.
Changed(s, t, c, f) ==
  /\ Registered(t) = Registered(s) /\ t.channel[c] = f
  /\ \A d \in Endpoint : d # c => t.channel[d] = s.channel[d]

\* A channel whose transfer is done.
Transferred(e, f, released) ==
  /\ f.queued = released /\ f.waiter = e.waiter /\ f.length = 0 /\ f.inputWait = e.inputWait
  /\ f.altOwner = e.altOwner /\ f.altWake = e.altWake /\ f.altNotified = e.altNotified
  /\ f.input = (IF e.inputWait THEN e.input - e.length ELSE e.input)
  /\ f.output = (IF e.inputWait THEN e.output ELSE e.output + e.length)

\* A transfer is done, and its process released or not.
LEMMA TransferDone ==
  ASSUME NEW s \in ExtState, ExtGood(s), NEW c \in Registered(s), NEW e, e = s.channel[c],
         NEW p \in ExtProcess, e.waiter = p, ~e.queued,
         NEW released \in BOOLEAN, NEW f, Transferred(e, f, released),
         NEW t, Changed(s, t, c, f), SameRest(s, t), t \in ExtState,
         t.running = s.running, Places(t),
         \A q \in ExtProcess : Awake(t, q) <=> (Awake(s, q) \/ (released /\ q = p))
  PROVE  ExtGood(t)
<1>1. /\ Registered(t) = Registered(s) /\ t.channel[c] = f /\ c \in Endpoint
      /\ Registered(s) \subseteq Endpoint
      /\ \A d \in Endpoint : d # c => t.channel[d] = s.channel[d]
      /\ e \in ExtRecord
  BY RegisteredRecords DEF Changed
<1>2. /\ f.queued = released /\ f.waiter = p /\ f.length = 0 /\ f.inputWait = e.inputWait
      /\ f.altOwner = e.altOwner /\ f.altWake = e.altWake /\ f.altNotified = e.altNotified
      /\ f.input = (IF e.inputWait THEN e.input - e.length ELSE e.input)
      /\ f.output = (IF e.inputWait THEN e.output ELSE e.output + e.length)
  BY DEF Transferred
<1>3. /\ s.phase[p] = "none" /\ s.canceled # p /\ e.altOwner = NobodyWaits /\ ~Awake(s, p)
      /\ \A d \in Registered(s) : s.channel[d].waiter = p => d = c
      /\ \A q \in ExtProcess : s.chosen[q] # c
      /\ p # NobodyWaits
  <2>1. WaitOk(s, c) /\ p # NobodyWaits
    BY ExtConstants DEF ExtGood, Waits
  <2> QED BY <2>1 DEF WaitOk
<1>4. \A d \in Registered(s) : /\ t.channel[d].waiter = s.channel[d].waiter
                               /\ t.channel[d].altOwner = s.channel[d].altOwner
                               /\ t.channel[d].altWake = s.channel[d].altWake
                               /\ t.channel[d].altNotified = s.channel[d].altNotified
  BY <1>1, <1>2
<1>5. Waits(t)
  <2>1. ASSUME NEW d \in Registered(s), d # c PROVE WaitOk(t, d)
    <3>1. WaitOk(s, d) /\ t.channel[d] = s.channel[d]
      BY <1>1, <2>1 DEF ExtGood, Waits
    <3> DEFINE w == s.channel[d].waiter
    <3>2. w \in Somebody
      BY <2>1, RegisteredRecords, RecordFields
    <3>3. w # p
      BY <1>3, <2>1
    <3>4. w # NobodyWaits => w \in ExtProcess /\ (Awake(t, w) <=> Awake(s, w))
      BY <3>2, <3>3 DEF Somebody
    <3> QED BY <1>1, <1>4, <3>1, <3>4 DEF WaitOk, SameRest
  <2>2. WaitOk(t, c)
    <3>1. Awake(t, p) <=> released
      BY <1>3
    <3>2. t.running # p
      BY <1>3 DEF Awake
    <3>3. /\ t.phase[p] = "none" /\ t.canceled # p /\ f.altOwner = NobodyWaits
          /\ \A q \in ExtProcess : t.chosen[q] # c
      BY <1>2, <1>3 DEF SameRest
    <3>4. \A d \in Registered(t) : t.channel[d].waiter = p => d = c
      BY <1>1, <1>3, <1>4
    <3> QED BY <1>1, <1>2, <1>3, <3>1, <3>2, <3>3, <3>4 DEF WaitOk
  <2>3. s.canceled # NobodyWaits => ~Awake(t, s.canceled) /\ s.phase[s.canceled] = "none"
    <3>1. s.canceled \in Somebody
      BY StateFields
    <3> QED BY <1>3, <3>1 DEF ExtGood, Waits, Somebody
  <2> QED BY <1>1, <2>1, <2>2, <2>3 DEF Waits, SameRest
<1>6. Alts(t)
  <2>1. SUFFICES ASSUME NEW q \in ExtProcess PROVE AltOk(t, q)
    BY DEF Alts
  <2>2. AltOk(s, q)
    BY DEF ExtGood, Alts
  <2>3. c \notin s.guards[q] /\ s.guards[q] \subseteq Registered(s)
    <3>1. s.guards[q] \subseteq Endpoint /\ q # NobodyWaits
      BY ProcessFields
    <3> QED BY <1>1, <1>3, <2>2, <3>1 DEF AltOk
  <2>4. \A d \in s.guards[q] : t.channel[d] = s.channel[d] /\ (Waked(t, d) <=> Waked(s, d))
    BY <1>1, <2>3 DEF Waked
  <2>5. s.chosen[q] # NobodyWaits => t.channel[s.chosen[q]] = s.channel[s.chosen[q]]
    <3>1. s.chosen[q] \in Endpoint \union {NobodyWaits}
      BY StateFields
    <3> QED BY <1>1, <1>3, <3>1
  <2>6. Awake(s, q) => Awake(t, q)
    OBVIOUS
  <2>7. s.phase[q] # "none" => (Awake(t, q) <=> Awake(s, q))
    BY <1>3
  <2>8. \A d \in Endpoint : (d \in s.guards[q]) <=> (d \in Registered(t) /\ t.channel[d].altOwner = q)
    BY <1>1, <1>4, <2>2 DEF AltOk
  <2> QED BY <1>1, <2>2, <2>4, <2>5, <2>6, <2>7, <2>8 DEF AltOk, SameRest
<1>7. Sleeps(t)
  <2>1. SUFFICES ASSUME NEW q \in ExtProcess PROVE SleepOk(t, q)
    BY DEF Sleeps
  <2>2. SleepOk(s, q) /\ AltOk(s, q)
    BY DEF ExtGood, Sleeps, Alts
  <2>3. \A d \in s.guards[q] : Waked(s, d) => Waked(t, d)
    <3>1. s.guards[q] \subseteq Registered(s)
      BY ProcessFields, <2>2 DEF AltOk
    <3> QED BY <1>4, <3>1 DEF Waked
  <2> QED BY <1>1, <1>4, <2>2, <2>3 DEF SleepOk, SameRest
<1>8. Books(t)
  <2>1. SUFFICES ASSUME NEW d \in Registered(s)
                 PROVE  /\ t.channel[d].input = s.fed[d] + Pending(t.channel[d], TRUE)
                        /\ t.channel[d].output = s.sent[d] - Pending(t.channel[d], FALSE)
    BY <1>1 DEF Books, SameRest
  <2>2. /\ s.channel[d].input = s.fed[d] + Pending(s.channel[d], TRUE)
        /\ s.channel[d].output = s.sent[d] - Pending(s.channel[d], FALSE)
    BY DEF ExtGood, Books
  <2>3. CASE d # c
    BY <1>1, <2>2, <2>3
  <2>4. CASE d = c
    <3>1. /\ e.input \in Int /\ e.output \in Int /\ e.length \in Int /\ e.inputWait \in BOOLEAN
          /\ s.fed[c] \in Int /\ s.sent[c] \in Int
      <4>1. /\ e.input \in 0 .. ExtCapacity /\ e.output \in 0 .. ExtCapacity
            /\ e.length \in 0 .. ExtCapacity /\ e.inputWait \in BOOLEAN /\ ExtCapacity \in Nat
        BY <1>1, RecordFields, ExtConstants
      <4>2. s.fed[c] \in Int /\ s.sent[c] \in Int
        BY <1>1, EndpointFields
      <4> QED BY <4>1, <4>2
    <3> DEFINE fed == s.fed[c]
               sent == s.sent[c]
               i == e.input
               o == e.output
               n == e.length
    <3>a. fed \in Int /\ sent \in Int /\ i \in Int /\ o \in Int /\ n \in Int
      BY <3>1
    <3>2. Pending(f, TRUE) = 0 /\ Pending(f, FALSE) = 0
      BY <1>2 DEF Pending
    <3>3. e.input = s.fed[c] + Pending(e, TRUE) /\ e.output = s.sent[c] - Pending(e, FALSE)
      BY <2>2, <2>4
    <3>4. f.input = s.fed[c] + Pending(f, TRUE) /\ f.output = s.sent[c] - Pending(f, FALSE)
      <4>1. CASE e.inputWait
        <5>1. f.input = e.input - e.length /\ f.output = e.output
          BY <1>2, <4>1
        <5>2. Pending(e, TRUE) = e.length /\ Pending(e, FALSE) = 0
          <6>1. e.inputWait = TRUE
            BY <3>1, <4>1
          <6> QED BY <1>3, <6>1 DEF Pending
        <5>3. i = fed + n /\ o = sent - 0
          BY <3>3, <5>2
        <5>4. i - n = fed + 0 /\ o = sent - 0
          <6> HIDE DEF fed, sent, i, o, n
          <6> QED BY <3>a, <5>3
        <5> QED BY <3>2, <5>1, <5>4
      <4>2. CASE ~e.inputWait
        <5>1. f.input = e.input /\ f.output = e.output + e.length
          BY <1>2, <4>2
        <5>2. Pending(e, TRUE) = 0 /\ Pending(e, FALSE) = e.length
          <6>1. e.inputWait = FALSE
            BY <3>1, <4>2
          <6> QED BY <1>3, <6>1 DEF Pending
        <5>3. i = fed + 0 /\ o = sent - n
          BY <3>3, <5>2
        <5>4. i = fed + 0 /\ o + n = sent - 0
          <6> HIDE DEF fed, sent, i, o, n
          <6> QED BY <3>a, <5>3
        <5> QED BY <3>2, <5>1, <5>4
      <4> QED BY <4>1, <4>2
    <3> QED BY <1>1, <2>4, <3>4
  <2> QED BY <2>3, <2>4
<1> QED BY <1>5, <1>6, <1>7, <1>8 DEF ExtGood

\* What the poll of an endpoint leaves alone.
Polled(s, t, c) ==
  /\ Registered(t) = Registered(s) /\ (MayRelease(t) => MayRelease(s))
  /\ \A d \in Endpoint : d # c => t.channel[d] = s.channel[d]
  /\ \A q \in ExtProcess : t.word[q] = "waiting" => s.word[q] = "waiting"

\* The two halves of a quiet endpoint.
WaiterQuiet(s, c) ==
  LET e == s.channel[c]
  IN  e.waiter # NobodyWaits /\ ~e.queued =>
        (e.length = 0 => ~MayRelease(s)) /\ (e.length # 0 => ~TransferReady(e))

\* And of its alternative.
AltQuiet(s, c) ==
  LET e == s.channel[c]
  IN  e.altOwner # NobodyWaits =>
        (s.word[e.altOwner] = "waiting" => e.input = 0) /\ (Waked(s, c) => ~MayRelease(s))

\* Nothing to do.
LEMMA PolledSame == \A s, c : Polled(s, s, c)
BY DEF Polled

\* A wait that has nothing left to transfer is ready.
LEMMA NothingLeftIsReady ==
  ASSUME NEW e \in ExtRecord, e.length = 0 PROVE TransferReady(e)
<1>1. e.input \in 0 .. ExtCapacity /\ e.output \in 0 .. ExtCapacity /\ ExtCapacity \in Nat
  BY RecordFields, ExtConstants
<1>2. e.input >= 0 /\ ExtCapacity - e.output >= 0
  BY <1>1
<1> QED BY <1>2 DEF TransferReady

\* The poll of a waiter.
LEMMA WaiterPolled ==
  ASSUME NEW s, ExtGood(s), NEW c \in Registered(s), NEW t, t = PollWaiter(s, c)
  PROVE  ExtGood(t) /\ Polled(s, t, c) /\ WaiterQuiet(t, c)
<1> DEFINE e == s.channel[c]
           f == transferNativeExternalBytes(e)
           u == [s EXCEPT !.channel[c] = f]
<1>1. s \in ExtState /\ Places(s) /\ e \in ExtRecord /\ c \in Endpoint
  BY RegisteredRecords DEF ExtGood
<1>2. CASE e.waiter = NobodyWaits \/ e.queued \/ ~TransferReady(e)
  <2>1. t = s
    BY <1>2 DEF PollWaiter
  <2>2. WaiterQuiet(s, c)
    BY <1>1, <1>2, NothingLeftIsReady DEF WaiterQuiet
  <2> QED BY <2>1, <2>2, PolledSame
<1>3. CASE ~(e.waiter = NobodyWaits \/ e.queued \/ ~TransferReady(e))
  <2> DEFINE p == e.waiter
  <2>1. p \in ExtProcess /\ ~e.queued /\ TransferReady(e) /\ ~Awake(s, p)
    <3>1. p \in Somebody
      BY <1>1, RecordFields
    <3>2. WaitOk(s, c)
      BY DEF ExtGood, Waits
    <3> QED BY <1>3, <3>1, <3>2 DEF WaitOk, Somebody
  <2>2. f \in ExtRecord /\ Transferred(e, f, FALSE)
    <3>1. e.queued = FALSE
      BY <1>1, <2>1, RecordFields
    <3> QED BY <1>1, <2>1, <3>1, TransferFields DEF Transferred
  <2> HIDE DEF f
  <2>3. /\ u \in ExtState /\ u.channel = [s.channel EXCEPT ![c] = f] /\ SameRest(s, u)
        /\ SameMask(s, u) /\ u.running = s.running /\ u.handler = s.handler /\ u.ready = s.ready
    <3>1. s.channel \in [Endpoint -> ExtRecord \union {Unregistered}]
      BY <1>1, StateFields
    <3>2. [s.channel EXCEPT ![c] = f] \in [Endpoint -> ExtRecord \union {Unregistered}]
      BY <1>1, <2>2, <3>1
    <3>3. u = [s EXCEPT !.channel = [s.channel EXCEPT ![c] = f]]
      BY <1>1 DEF ExtState
    <3> HIDE DEF u
    <3>4. u \in ExtState
      BY <1>1, <3>2, <3>3 DEF ExtState
    <3> QED BY <1>1, <3>3, <3>4 DEF ExtState, SameRest, SameMask
  <2> HIDE DEF u
  <2>3a. MayRelease(u) <=> MayRelease(s)
    BY <2>3 DEF MayRelease, HandlerActive, SameMask
  <2>4. Changed(s, u, c, f)
    BY <1>1, <2>2, <2>3, OneChannel DEF Changed
  <2>5. Places(u) /\ \A q \in ExtProcess : Awake(u, q) <=> Awake(s, q)
    BY <1>1, <2>3 DEF Places, Awake, InReady
  <2>6. CASE ~MayRelease(s)
    <3>1. t = u
      BY <1>3, <2>6 DEF PollWaiter, u, f
    <3>2. ExtGood(u)
      BY <1>1, <2>1, <2>2, <2>3, <2>4, <2>5, TransferDone
    <3>3. Polled(s, u, c)
      BY <2>3, <2>3a, <2>4 DEF Polled, Changed, SameRest
    <3>4. ~MayRelease(u)
      BY <2>3a, <2>6
    <3>5. WaiterQuiet(u, c)
      BY <2>2, <2>4, <3>4 DEF WaiterQuiet, Changed, Transferred
    <3> QED BY <3>1, <3>2, <3>3, <3>5
  <2>7. CASE MayRelease(s)
    <3> DEFINE v == releaseExternalOwner(u, p)
               g == [f EXCEPT !.queued = TRUE]
               w == [v EXCEPT !.channel[c].queued = TRUE]
    <3>1. t = w
      BY <1>3, <2>7 DEF PollWaiter, u, f
    <3>2. MayRelease(u)
      BY <2>3a, <2>7
    <3>3. /\ v \in ExtState /\ SameRest(u, v) /\ v.channel = u.channel /\ v.running = u.running
          /\ Places(v) /\ \A q \in ExtProcess : Awake(v, q) <=> (Awake(u, q) \/ q = p)
      BY <2>1, <2>3, <2>5, <3>2, ReleaseFacts
    <3> HIDE DEF v
    <3>4. g \in ExtRecord /\ Transferred(e, g, TRUE)
      BY <2>2 DEF ExtRecord, Transferred
    <3>5. /\ w \in ExtState /\ w.channel = [s.channel EXCEPT ![c] = g] /\ SameRest(v, w)
          /\ w.running = v.running /\ w.handler = v.handler /\ w.ready = v.ready
      <4>1. v.channel = [s.channel EXCEPT ![c] = f] /\ v.channel[c] = f
            /\ s.channel \in [Endpoint -> ExtRecord \union {Unregistered}]
        <5>1. s.channel \in [Endpoint -> ExtRecord \union {Unregistered}]
          BY <1>1, StateFields
        <5>2. v.channel = [s.channel EXCEPT ![c] = f]
          BY <2>3, <3>3
        <5> QED BY <1>1, <5>1, <5>2
      <4>2. [s.channel EXCEPT ![c] = g] \in [Endpoint -> ExtRecord \union {Unregistered}]
        BY <1>1, <3>4, <4>1
      <4>3. [v.channel EXCEPT ![c] = g] = [s.channel EXCEPT ![c] = g]
        BY <1>1, <4>1
      <4>4. w = [v EXCEPT !.channel = [s.channel EXCEPT ![c] = g]]
        BY <3>3, <4>1, <4>3 DEF ExtState
      <4> HIDE DEF w, g
      <4>5. w \in ExtState
        BY <3>3, <4>2, <4>4 DEF ExtState
      <4> QED BY <3>3, <4>4, <4>5 DEF ExtState, SameRest
    <3> HIDE DEF w, g
    <3>6. Changed(s, w, c, g)
      BY <1>1, <3>4, <3>5, OneChannel DEF Changed
    <3>7. Places(w) /\ \A q \in ExtProcess : Awake(w, q) <=> (Awake(s, q) \/ q = p)
      BY <2>5, <3>3, <3>5 DEF Places, Awake, InReady
    <3>8. SameRest(s, w) /\ w.running = s.running
      BY <2>3, <3>3, <3>5 DEF SameRest
    <3>9. ExtGood(w)
      <4>1. \A q \in ExtProcess : Awake(w, q) <=> (Awake(s, q) \/ (TRUE /\ q = p))
        BY <3>7
      <4> HIDE DEF p
      <4>2. p = e.waiter /\ e.waiter \in ExtProcess
        BY <2>1 DEF p
      <4> QED BY <1>1, <2>1, <3>4, <3>5, <3>6, <3>7, <3>8, <4>1, <4>2, TransferDone
    <3>10. Polled(s, w, c)
      BY <2>7, <3>6, <3>8 DEF Polled, Changed, SameRest
    <3>11. WaiterQuiet(w, c)
      BY <3>4, <3>6 DEF WaiterQuiet, Changed, Transferred
    <3> QED BY <3>1, <3>9, <3>10, <3>11
  <2> QED BY <2>6, <2>7
<1> QED BY <1>2, <1>3

-----------------------------------------------------------------------------
(***************************************************************************)
(* The poll of an endpoint: an alternative.                                *)
(***************************************************************************)

\* A channel that tells its alternative of its input.
Told(e, f) ==
  /\ f.waiter = e.waiter /\ f.length = e.length /\ f.inputWait = e.inputWait /\ f.queued = e.queued
  /\ f.altOwner = e.altOwner /\ f.input = e.input /\ f.output = e.output

\* The alternative's word becomes ready.
Woken(s, t, p) ==
  /\ t.guards = s.guards /\ t.phase = s.phase
  /\ t.chosen = s.chosen /\ t.canceled = s.canceled /\ t.fed = s.fed /\ t.sent = s.sent
  /\ t.word[p] = "ready" /\ \A q \in ExtProcess : q # p => t.word[q] = s.word[q]

\* An alternative is told while it enables, or woken, and then released or not.
LEMMA AlternativeTold ==
  ASSUME NEW s, s \in ExtState, ExtGood(s), NEW c \in Registered(s), NEW e, e = s.channel[c],
         NEW p \in ExtProcess, e.altOwner = p, e.input > 0, e.altNotified = FALSE,
         NEW released \in BOOLEAN, NEW f, Told(e, f),
         f.altNotified = released \/ (f.altNotified /\ ~f.altWake),
         f.altWake => s.word[p] = "waiting" \/ Waked(s, c),
         released => f.altWake, ~f.altWake => s.word[p] = "enabling",
         NEW t, Changed(s, t, c, f), Woken(s, t, p), t \in ExtState,
         t.running = s.running, Places(t),
         \A q \in ExtProcess : Awake(t, q) <=> (Awake(s, q) \/ (released /\ q = p))
  PROVE  ExtGood(t)
<1>1. /\ Registered(t) = Registered(s) /\ t.channel[c] = f /\ c \in Endpoint
      /\ Registered(s) \subseteq Endpoint
      /\ \A d \in Endpoint : d # c => t.channel[d] = s.channel[d]
      /\ e \in ExtRecord /\ p # NobodyWaits
  BY RegisteredRecords, ProcessFields DEF Changed
<1>2. c \in s.guards[p] /\ AltOk(s, p) /\ s.guards[p] \subseteq Endpoint
  <2>1. AltOk(s, p)
    BY DEF ExtGood, Alts
  <2> QED BY <1>1, <2>1, ProcessFields DEF AltOk
<1>3. s.phase[p] \in {"enabling", "disabling"}
  BY <1>2 DEF AltOk
<1>4. f.altWake => s.phase[p] = "disabling" /\ ~Awake(s, p) /\ s.chosen[p] = NobodyWaits
  <2>1. f.altWake => s.phase[p] = "disabling" /\ ~Awake(s, p)
    BY <1>2 DEF AltOk
  <2> QED BY <1>2, <2>1 DEF AltOk
<1>5. \A d \in Registered(s) :
        /\ t.channel[d].waiter = s.channel[d].waiter /\ t.channel[d].queued = s.channel[d].queued
        /\ t.channel[d].length = s.channel[d].length /\ t.channel[d].inputWait = s.channel[d].inputWait
        /\ t.channel[d].altOwner = s.channel[d].altOwner
        /\ t.channel[d].input = s.channel[d].input /\ t.channel[d].output = s.channel[d].output
  BY <1>1 DEF Told
<1>6. \A d \in s.guards[p] : d # c => ~Waked(t, d) \/ ~f.altWake
  <2>1. SUFFICES ASSUME NEW d \in s.guards[p], d # c, f.altWake PROVE ~Waked(t, d)
    OBVIOUS
  <2>2. ~Waked(s, d)
    BY <1>2, <2>1 DEF AltOk, Waked
  <2> QED BY <1>1, <1>2, <2>1, <2>2 DEF Waked
<1>7. \A d \in s.guards[p] : d # c => (Waked(t, d) <=> Waked(s, d))
  BY <1>1, <1>2 DEF Waked
<1>8. Waked(t, c) => f.altWake /\ ~released
  BY <1>1 DEF Waked
<1>9. Waits(t)
  <2>1. ASSUME NEW d \in Registered(s) PROVE WaitOk(t, d)
    <3>1. WaitOk(s, d)
      BY DEF ExtGood, Waits
    <3> DEFINE w == s.channel[d].waiter
    <3>2. w \in Somebody
      BY <2>1, RegisteredRecords, RecordFields
    <3>3. w # NobodyWaits => w \in ExtProcess /\ (Awake(t, w) <=> Awake(s, w))
      <4>1. w # NobodyWaits => s.phase[w] = "none"
        BY <3>1 DEF WaitOk
      <4>2. w # NobodyWaits => w # p
        BY <1>3, <4>1
      <4> QED BY <3>2, <4>2 DEF Somebody
    <3> QED BY <1>1, <1>5, <2>1, <3>1, <3>3 DEF WaitOk, Woken
  <2>2. t.canceled # NobodyWaits => ~Awake(t, t.canceled) /\ t.phase[t.canceled] = "none"
    <3>1. s.canceled \in Somebody
      BY StateFields
    <3>2. s.canceled # NobodyWaits => ~Awake(s, s.canceled) /\ s.phase[s.canceled] = "none"
      BY DEF ExtGood, Waits
    <3>3. s.canceled # NobodyWaits => s.canceled # p /\ s.canceled \in ExtProcess
      BY <1>3, <3>1, <3>2 DEF Somebody
    <3> QED BY <3>2, <3>3 DEF Woken
  <2> QED BY <1>1, <2>1, <2>2 DEF Waits
<1>10. Alts(t)
  <2>1. ASSUME NEW q \in ExtProcess, q # p PROVE AltOk(t, q)
    <3>1. AltOk(s, q) /\ s.guards[q] \subseteq Endpoint
      BY ProcessFields DEF ExtGood, Alts
    <3>2. c \notin s.guards[q]
      BY <1>1, <2>1, <3>1 DEF AltOk
    <3>3. \A d \in s.guards[q] : t.channel[d] = s.channel[d] /\ (Waked(t, d) <=> Waked(s, d))
      BY <1>1, <3>1, <3>2 DEF Waked
    <3>4. \A d \in Endpoint : (d \in s.guards[q]) <=> (d \in Registered(t) /\ t.channel[d].altOwner = q)
      BY <1>1, <1>5, <3>1 DEF AltOk
    <3>5. s.chosen[q] \in Registered(s) =>
            /\ t.channel[s.chosen[q]].input = s.channel[s.chosen[q]].input
            /\ t.channel[s.chosen[q]].altOwner = s.channel[s.chosen[q]].altOwner
      BY <1>5
    <3>6. Awake(t, q) <=> Awake(s, q)
      BY <2>1
    <3> QED BY <1>1, <2>1, <3>1, <3>3, <3>4, <3>5, <3>6 DEF AltOk, Woken
  <2>2. AltOk(t, p)
    <3>1. \A d \in Endpoint : (d \in s.guards[p]) <=> (d \in Registered(t) /\ t.channel[d].altOwner = p)
      BY <1>1, <1>2, <1>5 DEF AltOk
    <3>2. t.word[p] = "ready" /\ t.guards = s.guards /\ t.phase = s.phase /\ t.chosen = s.chosen
      BY DEF Woken
    <3>3. Awake(s, p) => Awake(t, p)
      OBVIOUS
    <3>4. s.chosen[p] # NobodyWaits =>
            /\ s.phase[p] \in {"disabling", "branch"} /\ Awake(t, p)
            /\ s.chosen[p] \in Registered(t) /\ t.channel[s.chosen[p]].input > 0
            /\ t.channel[s.chosen[p]].altOwner = NobodyWaits
      BY <1>1, <1>2, <1>5, <3>3 DEF AltOk
    <3>5. \A d \in s.guards[p] : Waked(t, d) =>
            /\ s.phase[p] = "disabling" /\ ~Awake(t, p) /\ t.channel[d].input > 0
            /\ \A x \in s.guards[p] : Waked(t, x) => x = d
      <4>1. CASE f.altWake
        <5>1. \A d \in s.guards[p] : Waked(t, d) => d = c /\ ~released
          BY <1>6, <1>8, <4>1
        <5> QED BY <1>1, <1>4, <4>1, <5>1 DEF Told
      <4>2. CASE ~f.altWake
        <5>1. \A d \in s.guards[p] : ~Waked(s, d)
          BY <1>2, <4>2 DEF AltOk, Waked
        <5>2. ~Waked(t, c)
          BY <1>8, <4>2
        <5> QED BY <1>7, <5>1, <5>2
      <4> QED BY <4>1, <4>2
    <3>6. \E d \in s.guards[p] : t.channel[d].input > 0
      BY <1>1, <1>2 DEF Told
    <3>7. s.phase[p] = "enabling" => Awake(t, p)
      BY <1>2, <3>3 DEF AltOk
    <3>8. s.phase[p] = "disabling" => s.guards[p] # {}
      BY <1>2
    <3> QED BY <1>1, <1>3, <3>1, <3>2, <3>4, <3>5, <3>6, <3>7, <3>8 DEF AltOk
  <2> QED BY <2>1, <2>2 DEF Alts
<1>11. Sleeps(t)
  <2>1. SUFFICES ASSUME NEW q \in ExtProcess PROVE SleepOk(t, q)
    BY DEF Sleeps
  <2>2. SleepOk(s, q) /\ AltOk(s, q) /\ s.guards[q] \subseteq Endpoint
    BY ProcessFields DEF ExtGood, Sleeps, Alts
  <2>3. CASE q = p
    <3>1. CASE f.altWake
      <4>1. released \/ Waked(t, c)
        BY <1>1, <3>1 DEF Waked
      <4> QED BY <1>2, <2>3, <4>1 DEF SleepOk, Woken
    <3>2. CASE ~f.altWake
      <4>1. Awake(s, p)
        BY <1>2, <3>2 DEF AltOk
      <4> QED BY <2>3, <4>1 DEF SleepOk
    <3> QED BY <3>1, <3>2
  <2>4. CASE q # p
    <3>1. c \notin s.guards[q]
      BY <1>1, <2>2, <2>4 DEF AltOk
    <3>2. \A d \in s.guards[q] : Waked(t, d) <=> Waked(s, d)
      BY <1>1, <2>2, <3>1 DEF Waked
    <3> QED BY <1>1, <1>5, <2>2, <2>4, <3>2 DEF SleepOk, Woken
  <2> QED BY <2>3, <2>4
<1>12. Books(t)
  <2>1. \A d \in Registered(s) : /\ Pending(t.channel[d], TRUE) = Pending(s.channel[d], TRUE)
                                 /\ Pending(t.channel[d], FALSE) = Pending(s.channel[d], FALSE)
    BY <1>5 DEF Pending
  <2>2. ASSUME NEW d \in Registered(s)
        PROVE  /\ t.channel[d].input = t.fed[d] + Pending(t.channel[d], TRUE)
               /\ t.channel[d].output = t.sent[d] - Pending(t.channel[d], FALSE)
    <3>1. /\ s.channel[d].input = s.fed[d] + Pending(s.channel[d], TRUE)
          /\ s.channel[d].output = s.sent[d] - Pending(s.channel[d], FALSE)
      BY DEF ExtGood, Books
    <3>2. /\ t.channel[d].input = s.channel[d].input /\ t.channel[d].output = s.channel[d].output
          /\ t.fed[d] = s.fed[d] /\ t.sent[d] = s.sent[d]
      BY <1>5 DEF Woken
    <3> QED BY <2>1, <3>1, <3>2
  <2> QED BY <1>1, <2>2 DEF Books
<1> QED BY <1>9, <1>10, <1>11, <1>12 DEF ExtGood

\* A state with another channel.
SetsChannel(v, w, c, g) == w = [v EXCEPT !.channel = [v.channel EXCEPT ![c] = g]]

\* Only the channel is another.
LEMMA AnotherChannel ==
  ASSUME NEW v \in ExtState, NEW c \in Endpoint, NEW g \in ExtRecord \union {Unregistered}, NEW w,
         SetsChannel(v, w, c, g)
  PROVE  /\ w \in ExtState /\ w.channel[c] = g /\ \A d \in Endpoint : d # c => w.channel[d] = v.channel[d]
         /\ SameRest(v, w) /\ SameMask(v, w)
         /\ w.running = v.running /\ w.handler = v.handler /\ w.ready = v.ready
<1>1. v.channel \in [Endpoint -> ExtRecord \union {Unregistered}]
  BY StateFields
<1>2. [v.channel EXCEPT ![c] = g] \in [Endpoint -> ExtRecord \union {Unregistered}]
  BY <1>1
<1>3. w \in ExtState
  BY <1>2 DEF ExtState, SetsChannel
<1>4. w.channel = [v.channel EXCEPT ![c] = g]
  BY DEF ExtState, SetsChannel
<1>5. w.channel[c] = g /\ \A d \in Endpoint : d # c => w.channel[d] = v.channel[d]
  BY <1>1, <1>4
<1> QED BY <1>3, <1>5 DEF ExtState, SameRest, SameMask, SetsChannel

\* And it is still registered.
LEMMA AnotherRecord ==
  ASSUME NEW v \in ExtState, NEW c \in Registered(v), NEW g \in ExtRecord, NEW w,
         SetsChannel(v, w, c, g)
  PROVE  /\ w \in ExtState /\ Changed(v, w, c, g)
         /\ SameRest(v, w) /\ SameMask(v, w)
         /\ w.running = v.running /\ w.handler = v.handler /\ w.ready = v.ready
<1>1. c \in Endpoint /\ v.channel[c] \in ExtRecord
  BY RegisteredRecords
<1>2. /\ w \in ExtState /\ w.channel[c] = g /\ \A d \in Endpoint : d # c => w.channel[d] = v.channel[d]
      /\ SameRest(v, w) /\ SameMask(v, w)
      /\ w.running = v.running /\ w.handler = v.handler /\ w.ready = v.ready
  BY <1>1, AnotherChannel
<1>3. v.channel[c].registered /\ g.registered
  BY <1>1, RecordFields
<1>4. Registered(w) = Registered(v)
  BY <1>1, <1>2, <1>3 DEF Registered
<1> QED BY <1>2, <1>4 DEF Changed

\* A state with another word of a process.
LEMMA AnotherWord ==
  ASSUME NEW s \in ExtState, NEW p \in ExtProcess, NEW u, u = [s EXCEPT !.word[p] = "ready"]
  PROVE  /\ u \in ExtState /\ u.channel = s.channel /\ Woken(s, u, p) /\ SameMask(s, u)
         /\ u.running = s.running /\ u.handler = s.handler /\ u.ready = s.ready
<1>1. s.word \in [ExtProcess -> {"ready", "enabling", "waiting"}]
  BY StateFields
<1>2. [s.word EXCEPT ![p] = "ready"] \in [ExtProcess -> {"ready", "enabling", "waiting"}]
  BY <1>1
<1>3. u = [s EXCEPT !.word = [s.word EXCEPT ![p] = "ready"]]
  BY DEF ExtState
<1>4. u \in ExtState /\ u.word = [s.word EXCEPT ![p] = "ready"]
  BY <1>2, <1>3 DEF ExtState
<1>5. /\ u.channel = s.channel /\ u.running = s.running /\ u.handler = s.handler /\ u.ready = s.ready
      /\ SameMask(s, u) /\ u.guards = s.guards /\ u.phase = s.phase /\ u.chosen = s.chosen
      /\ u.canceled = s.canceled /\ u.fed = s.fed /\ u.sent = s.sent
  BY <1>3 DEF ExtState, SameMask
<1>6. u.word[p] = "ready" /\ \A q \in ExtProcess : q # p => u.word[q] = s.word[q]
  BY <1>1, <1>4
<1> QED BY <1>4, <1>5, <1>6 DEF Woken

\* An alternative that is told is quiet.
LEMMA ToldQuiet ==
  ASSUME NEW s, NEW c \in Registered(s), NEW e, e = s.channel[c], NEW p \in ExtProcess,
         e.altOwner = p, NEW f, Told(e, f), NEW t, Changed(s, t, c, f), Woken(s, t, p),
         MayRelease(t) => MayRelease(s), Waked(t, c) => ~MayRelease(t)
  PROVE  Polled(s, t, c) /\ AltQuiet(t, c) /\ (WaiterQuiet(s, c) => WaiterQuiet(t, c))
<1>1. Polled(s, t, c)
  BY DEF Polled, Changed, Woken
<1>2. AltQuiet(t, c)
  BY DEF AltQuiet, Changed, Woken, Told
<1>3. TransferReady(f) = TransferReady(e)
  BY DEF TransferReady, Told
<1>4. WaiterQuiet(s, c) => WaiterQuiet(t, c)
  BY <1>3 DEF WaiterQuiet, Changed, Told
<1> QED BY <1>1, <1>2, <1>4

\* The poll of an alternative.
LEMMA AlternativePolled ==
  ASSUME NEW s, ExtGood(s), NEW c \in Registered(s), NEW t, t = PollAlternative(s, c)
  PROVE  ExtGood(t) /\ Polled(s, t, c) /\ AltQuiet(t, c) /\ (WaiterQuiet(s, c) => WaiterQuiet(t, c))
<1> DEFINE e == s.channel[c]
           p == e.altOwner
           state == s.word[p]
           wake == e.altWake \/ state = "waiting"
           f == [e EXCEPT !.altWake = wake]
           g == [f EXCEPT !.altNotified = TRUE]
           u == [s EXCEPT !.word[p] = "ready"]
           v == [s EXCEPT !.channel[c].altWake = wake, !.word[p] = "ready"]
<1>1. s \in ExtState /\ Places(s) /\ e \in ExtRecord /\ c \in Endpoint
  BY RegisteredRecords DEF ExtGood
<1>2. CASE p = NobodyWaits
  <2>1. t = s
    BY <1>2 DEF PollAlternative
  <2> QED BY <1>2, <2>1, PolledSame DEF AltQuiet
<1>3. ASSUME p # NobodyWaits
      PROVE  p \in ExtProcess /\ AltOk(s, p) /\ c \in s.guards[p] /\ s.guards[p] \subseteq Endpoint
  <2>1. p \in ExtProcess
    BY <1>1, <1>3, RecordFields DEF Somebody
  <2>2. AltOk(s, p)
    BY <2>1 DEF ExtGood, Alts
  <2> QED BY <1>1, <2>1, <2>2, ProcessFields DEF AltOk
<1>4. CASE p # NobodyWaits /\ (e.input = 0 \/ e.altNotified)
  <2>1. t = s
    BY <1>4 DEF PollAlternative
  <2>2. CASE e.input = 0
    <3>1. Waked(s, c) => e.input > 0
      BY <1>3, <1>4 DEF AltOk
    <3>2. ~Waked(s, c)
      BY <2>2, <3>1
    <3> QED BY <2>1, <2>2, <3>2, PolledSame DEF AltQuiet
  <2>3. CASE e.altNotified
    <3>1. state # "waiting"
      BY <1>3, <1>4, <2>3 DEF AltOk
    <3> QED BY <2>1, <2>3, <3>1, PolledSame DEF AltQuiet, Waked
  <2> QED BY <1>4, <2>2, <2>3
<1>5. CASE p # NobodyWaits /\ e.input # 0 /\ ~e.altNotified
  <2>1. /\ p \in ExtProcess /\ AltOk(s, p) /\ c \in s.guards[p] /\ s.guards[p] \subseteq Endpoint
        /\ e.input > 0 /\ e.altNotified = FALSE /\ e.altWake \in BOOLEAN
        /\ state \in {"ready", "enabling", "waiting"}
    <3>1. e.input \in 0 .. ExtCapacity /\ e.altNotified \in BOOLEAN /\ e.altWake \in BOOLEAN
          /\ ExtCapacity \in Nat
      BY <1>1, RecordFields, ExtConstants
    <3>2. e.input > 0
      BY <1>5, <3>1
    <3> QED BY <1>1, <1>3, <1>5, <3>1, <3>2, ProcessFields
  <2>2. CASE state \notin {"enabling", "waiting"} /\ ~wake
    <3>1. t = s
      BY <1>5, <2>2 DEF PollAlternative
    <3>2. ~Waked(s, c)
      BY <2>2 DEF Waked
    <3> QED BY <2>2, <3>1, <3>2, PolledSame DEF AltQuiet
  <2>3. /\ f \in ExtRecord /\ Told(e, f) /\ f.altNotified = FALSE /\ f.altWake = wake
        /\ g \in ExtRecord /\ Told(e, g) /\ g.altNotified = TRUE /\ g.altWake = wake
    <3>1. wake \in BOOLEAN
      OBVIOUS
    <3> HIDE DEF wake
    <3>2. f \in ExtRecord /\ Told(e, f) /\ f.altNotified = FALSE /\ f.altWake = wake
      BY <1>1, <2>1, <3>1 DEF ExtRecord, Told
    <3> HIDE DEF f
    <3>3. g \in ExtRecord /\ Told(e, g) /\ g.altNotified = TRUE /\ g.altWake = wake
      BY <3>2 DEF ExtRecord, Told
    <3> QED BY <3>2, <3>3
  <2>4. wake => state = "waiting" \/ Waked(s, c)
    BY <2>1 DEF Waked
  <2> HIDE DEF f, wake
  <2>5. /\ u \in ExtState /\ u.channel = s.channel /\ Woken(s, u, p) /\ SameMask(s, u)
        /\ u.running = s.running /\ u.handler = s.handler /\ u.ready = s.ready
    BY <1>1, <2>1, AnotherWord
  <2>6. SetsChannel(u, v, c, f)
    BY <1>1, <2>5 DEF ExtState, f, SetsChannel
  <2> HIDE DEF u, v, e, p, state
  <2>7. /\ v \in ExtState /\ Changed(s, v, c, f) /\ Woken(s, v, p) /\ SameMask(s, v)
        /\ v.running = s.running /\ v.handler = s.handler /\ v.ready = s.ready
    <3>1. Registered(u) = Registered(s)
      BY <2>5 DEF Registered
    <3>2. u \in ExtState /\ c \in Registered(u) /\ f \in ExtRecord
      BY <2>3, <2>5, <3>1
    <3>3. /\ v \in ExtState /\ Changed(u, v, c, f)
          /\ SameRest(u, v) /\ SameMask(u, v) /\ v.running = u.running /\ v.handler = u.handler /\ v.ready = u.ready
      BY <2>6, <3>2, AnotherRecord
    <3>4. Changed(s, v, c, f)
      BY <2>5, <3>1, <3>3 DEF Changed
    <3>5. Woken(s, v, p)
      BY <2>5, <3>3 DEF Woken, SameRest
    <3>6. SameMask(s, v)
      BY <2>5, <3>3 DEF SameMask
    <3> QED BY <2>5, <3>3, <3>4, <3>5, <3>6
  <2>8. c \in Registered(v) /\ v.channel[c] = f
    BY <2>7 DEF Changed
  <2>9. Places(v) /\ \A q \in ExtProcess : Awake(v, q) <=> Awake(s, q)
    BY <1>1, <2>7 DEF Places, Awake, InReady
  <2>10. CASE state \in {"enabling", "waiting"} /\ ~wake
    <3> DEFINE w == [v EXCEPT !.channel[c].altNotified = TRUE]
    <3>1. t = w
      BY <1>5, <2>10 DEF PollAlternative, v, wake, e, p, state
    <3>2. SetsChannel(v, w, c, g)
      BY <2>8, <2>7 DEF ExtState, SetsChannel
    <3> HIDE DEF w, g
    <3>3. /\ w \in ExtState /\ Changed(v, w, c, g)
          /\ SameRest(v, w) /\ SameMask(v, w) /\ w.running = v.running /\ w.handler = v.handler /\ w.ready = v.ready
      BY <2>3, <2>7, <2>8, <3>2, AnotherRecord
    <3>5. Changed(s, w, c, g)
      BY <2>7, <3>3 DEF Changed
    <3>6. Woken(s, w, p)
      BY <2>7, <3>3 DEF Woken, SameRest
    <3>7. Places(w) /\ \A q \in ExtProcess : Awake(w, q) <=> Awake(s, q)
      BY <2>7, <2>9, <3>3 DEF Places, Awake, InReady
    <3>8. g.altWake = FALSE /\ s.word[p] = "enabling"
      BY <2>3, <2>10 DEF wake, state
    <3>9. ExtGood(w)
      <4>1. \A q \in ExtProcess : Awake(w, q) <=> (Awake(s, q) \/ (FALSE /\ q = p))
        BY <3>7
      <4>2. e = s.channel[c] /\ e.altOwner = p /\ w.running = s.running
        BY <2>7, <3>3 DEF e, p
      <4> QED BY <1>1, <2>1, <2>3, <3>3, <3>5, <3>6, <3>7, <3>8, <4>1, <4>2, AlternativeTold
    <3>10. MayRelease(w) => MayRelease(s)
      BY <2>7, <3>3 DEF MayRelease, HandlerActive, SameMask
    <3>11. ~Waked(w, c)
      BY <2>3, <3>3 DEF Waked, Changed
    <3>12. e = s.channel[c] /\ e.altOwner = p
      BY DEF e, p
    <3> QED BY <2>1, <2>3, <3>1, <3>5, <3>6, <3>9, <3>10, <3>11, <3>12, ToldQuiet
  <2>11. CASE wake /\ ~MayRelease(s)
    <3>1. t = v
      BY <1>5, <2>11 DEF PollAlternative, v, wake, e, p, state
    <3>2. f.altWake /\ f.altNotified = FALSE
      BY <2>3, <2>11
    <3>3. e = s.channel[c] /\ e.altOwner = p
      BY DEF e, p
    <3>4. ExtGood(v)
      <4>1. \A q \in ExtProcess : Awake(v, q) <=> (Awake(s, q) \/ (FALSE /\ q = p))
        BY <2>9
      <4>2. s.word[p] = "waiting" \/ Waked(s, c)
        BY <2>4, <2>11 DEF state
      <4> QED BY <1>1, <2>1, <2>3, <2>7, <2>9, <3>2, <3>3, <4>1, <4>2, AlternativeTold
    <3>5. ~MayRelease(v)
      BY <2>7, <2>11 DEF MayRelease, HandlerActive, SameMask
    <3> QED BY <2>1, <2>3, <2>7, <3>1, <3>3, <3>4, <3>5, ToldQuiet
  <2>12. CASE wake /\ MayRelease(s)
    <3> DEFINE r == releaseExternalOwner(v, p)
               w == [r EXCEPT !.channel[c].altNotified = TRUE]
    <3>1. t = w
      BY <1>5, <2>12 DEF PollAlternative, v, wake, e, p, state
    <3>2. MayRelease(v) /\ ~Awake(v, p)
      <4>1. ~Awake(s, p)
        BY <2>1, <2>4, <2>12 DEF AltOk, state
      <4> QED BY <2>1, <2>7, <2>9, <2>12, <4>1 DEF MayRelease, HandlerActive, SameMask
    <3>3. /\ r \in ExtState /\ SameRest(v, r) /\ r.channel = v.channel /\ r.running = v.running
          /\ Places(r) /\ \A q \in ExtProcess : Awake(r, q) <=> (Awake(v, q) \/ q = p)
      BY <2>1, <2>7, <2>9, <3>2, ReleaseFacts
    <3> HIDE DEF r
    <3>5. Registered(r) = Registered(v) /\ r.channel[c] = f
      BY <2>8, <3>3 DEF Registered
    <3>6. SetsChannel(r, w, c, g)
      BY <3>3, <3>5 DEF ExtState, SetsChannel
    <3> HIDE DEF w, g
    <3>7. /\ w \in ExtState /\ Changed(r, w, c, g)
          /\ SameRest(r, w) /\ w.running = r.running /\ w.handler = r.handler /\ w.ready = r.ready
      BY <2>3, <2>8, <3>3, <3>5, <3>6, AnotherRecord
    <3>8. Changed(s, w, c, g)
      BY <2>7, <3>3, <3>5, <3>7 DEF Changed
    <3>9. Woken(s, w, p)
      BY <2>7, <3>3, <3>7 DEF Woken, SameRest
    <3>10. Places(w) /\ \A q \in ExtProcess : Awake(w, q) <=> (Awake(s, q) \/ (TRUE /\ q = p))
      <4>1. Places(w) /\ \A q \in ExtProcess : Awake(w, q) <=> Awake(r, q)
        BY <3>3, <3>7 DEF Places, Awake, InReady
      <4> QED BY <2>9, <3>3, <4>1
    <3>11. g.altWake /\ g.altNotified = TRUE
      BY <2>3, <2>12
    <3>12. e = s.channel[c] /\ e.altOwner = p /\ w.running = s.running
      BY <2>7, <3>3, <3>7 DEF e, p
    <3>13. ExtGood(w)
      <4>1. s.word[p] = "waiting" \/ Waked(s, c)
        BY <2>4, <2>12 DEF state
      <4> QED BY <1>1, <2>1, <2>3, <3>7, <3>8, <3>9, <3>10, <3>11, <3>12, <4>1, AlternativeTold
    <3>14. ~Waked(w, c)
      BY <3>8, <3>11 DEF Waked, Changed
    <3> QED BY <2>1, <2>3, <3>1, <3>8, <3>9, <3>12, <3>13, <3>14, <2>12, ToldQuiet
  <2> QED BY <2>1, <2>2, <2>10, <2>11, <2>12 DEF wake
<1> QED BY <1>2, <1>4, <1>5

-----------------------------------------------------------------------------
(***************************************************************************)
(* The poll of all.                                                        *)
(***************************************************************************)

\* A wait that is put off leaves the channel without an alternative.
LEMMA HeldHasNoAlternative ==
  ASSUME NEW s, ExtGood(s), NEW c \in Registered(s), s.channel[c].waiter # NobodyWaits,
         ~s.channel[c].queued, TransferReady(s.channel[c]), ~MayRelease(s)
  PROVE  PollWaiter(s, c).channel[c].altOwner = NobodyWaits
<1> DEFINE e == s.channel[c]
           f == transferNativeExternalBytes(e)
<1>1. s \in ExtState /\ e \in ExtRecord /\ c \in Endpoint /\ WaitOk(s, c)
  BY RegisteredRecords DEF ExtGood, Waits
<1>2. e.altOwner = NobodyWaits
  BY <1>1 DEF WaitOk
<1>3. f.altOwner = e.altOwner
  BY <1>1, TransferFields
<1> HIDE DEF f
<1>4. PollWaiter(s, c) = [s EXCEPT !.channel[c] = f]
  BY DEF PollWaiter, f
<1>5. s.channel \in [Endpoint -> ExtRecord \union {Unregistered}]
  BY <1>1, StateFields
<1>6. PollWaiter(s, c).channel = [s.channel EXCEPT ![c] = f]
  BY <1>1, <1>4 DEF ExtState
<1> QED BY <1>1, <1>2, <1>3, <1>5, <1>6

\* The poll of an endpoint leaves it quiet.
LEMMA EndpointPolled ==
  ASSUME NEW s, ExtGood(s), NEW c \in Registered(s), NEW t, t = PollEndpoint(s, c)
  PROVE  ExtGood(t) /\ Polled(s, t, c) /\ QuietAt(t, c)
<1> DEFINE e == s.channel[c]
           held == e.waiter # NobodyWaits /\ ~e.queued /\ TransferReady(e) /\ ~MayRelease(s)
           u == PollWaiter(s, c)
<1>1. ExtGood(u) /\ Polled(s, u, c) /\ WaiterQuiet(u, c)
  BY WaiterPolled
<1>2. CASE held
  <2>1. t = u
    BY <1>2 DEF PollEndpoint
  <2>2. u.channel[c].altOwner = NobodyWaits
    BY <1>2, HeldHasNoAlternative
  <2> QED BY <1>1, <2>1, <2>2 DEF QuietAt, WaiterQuiet
<1>3. CASE ~held
  <2>1. t = PollAlternative(u, c)
    BY <1>3 DEF PollEndpoint
  <2>2. c \in Registered(u)
    BY <1>1 DEF Polled
  <2> HIDE DEF u
  <2>3. ExtGood(t) /\ Polled(u, t, c) /\ AltQuiet(t, c) /\ WaiterQuiet(t, c)
    BY <1>1, <2>1, <2>2, AlternativePolled
  <2>4. Polled(s, t, c)
    BY <1>1, <2>3 DEF Polled
  <2> QED BY <2>3, <2>4 DEF QuietAt, WaiterQuiet, AltQuiet
<1> QED BY <1>2, <1>3

\* And the others as quiet as they were.
LEMMA QuietKept ==
  ASSUME NEW s, ExtGood(s), NEW c, NEW t, Polled(s, t, c),
         NEW d \in Registered(s), d # c, QuietAt(s, d)
  PROVE  QuietAt(t, d)
<1>1. d \in Endpoint /\ s.channel[d] \in ExtRecord
  BY RegisteredRecords DEF ExtGood
<1>2. t.channel[d] = s.channel[d]
  BY <1>1 DEF Polled
<1>3. s.channel[d].altOwner # NobodyWaits => s.channel[d].altOwner \in ExtProcess
  BY <1>1, RecordFields DEF Somebody
<1>4. MayRelease(t) => MayRelease(s)
  BY DEF Polled
<1>5. Waked(t, d) <=> Waked(s, d)
  BY <1>2 DEF Waked
<1> QED BY <1>2, <1>3, <1>4, <1>5 DEF QuietAt, Polled

\* One step of the poll.
PollStep(s, c) == IF c \in Registered(s) THEN PollEndpoint(s, c) ELSE s

\* It keeps the invariant.
LEMMA PollStepGood ==
  ASSUME NEW s, ExtGood(s), NEW c
  PROVE  ExtGood(PollStep(s, c)) /\ PollStep(s, c) \in ExtState
<1>1. CASE c \in Registered(s)
  <2>1. ExtGood(PollEndpoint(s, c))
    BY <1>1, EndpointPolled
  <2> QED BY <1>1, <2>1 DEF PollStep, ExtGood
<1>2. CASE c \notin Registered(s)
  BY <1>2 DEF PollStep, ExtGood
<1> QED BY <1>1, <1>2

\* The states of the invariant.
GoodStates == {s \in ExtState : ExtGood(s)}

\* The poll goes through the endpoints, one by one.
LEMMA PolledInOrder ==
  ASSUME NEW s, ExtGood(s)
  PROVE  \E f \in [0 .. Len(MapOrder) -> GoodStates] :
           /\ f[0] = s /\ pollExternalChannels(s) = f[Len(MapOrder)]
           /\ \A n \in 1 .. Len(MapOrder) : f[n] = PollStep(f[n - 1], MapOrder[n])
<1> DEFINE N == Len(MapOrder)
           S == GoodStates
           g == [n \in 1 .. N |-> [x \in S |-> PollStep(x, MapOrder[n])]]
           Is(f) == f = [n \in 0 .. N |->
                           IF n = 0 THEN s
                           ELSE IF MapOrder[n] \in Registered(f[n - 1])
                                THEN PollEndpoint(f[n - 1], MapOrder[n]) ELSE f[n - 1]]
           upTo == CHOOSE f : Is(f)
<1>1. N \in Nat
  BY ExternalAssumption, LenProperties
<1>2. s \in S /\ g \in [1 .. N -> [S -> S]]
  <2>1. s \in S
    BY DEF ExtGood, GoodStates
  <2>2. \A x \in S, n \in 1 .. N : PollStep(x, MapOrder[n]) \in S
    BY PollStepGood DEF GoodStates
  <2> QED BY <2>1, <2>2
<1>3. \E f : Is(f)
  <2> HIDE DEF S, g
  <2>1. PICK f \in [0 .. N -> S] : \A n \in 0 .. N : f[n] = IF n = 0 THEN s ELSE g[n][f[n - 1]]
    <3> HIDE DEF Is, N
    <3>1. \E f \in [0 .. N -> S] : StepsFrom(f, s, g, N)
      BY <1>1, <1>2, StepByStep
    <3> QED BY <3>1 DEF StepsFrom
  <2>2. \A n \in 0 .. N : n # 0 => n - 1 \in 0 .. N /\ n \in 1 .. N
    BY <1>1
  <2>3. \A n \in 0 .. N : n # 0 => g[n][f[n - 1]] = PollStep(f[n - 1], MapOrder[n])
    BY <2>1, <2>2 DEF g
  <2>4. \A n \in 0 .. N : f[n] = IF n = 0 THEN s
                                 ELSE IF MapOrder[n] \in Registered(f[n - 1])
                                      THEN PollEndpoint(f[n - 1], MapOrder[n]) ELSE f[n - 1]
    BY <2>1, <2>3 DEF PollStep
  <2>5. Is(f)
    <3>1. f = [n \in 0 .. N |-> f[n]]
      BY <2>1
    <3> QED BY <2>4, <3>1
  <2> QED BY <2>5
<1>4. Is(upTo)
  <2> HIDE DEF Is
  <2> QED BY <1>3
<1>5. pollExternalChannels(s) = upTo[N]
  BY DEF pollExternalChannels
<1> HIDE DEF upTo, g
<1>6. upTo = [n \in 0 .. N |-> upTo[n]] /\ upTo[0] = s
  BY <1>1, <1>4
<1>7. \A n \in 1 .. N : upTo[n] = PollStep(upTo[n - 1], MapOrder[n])
  BY <1>1, <1>4 DEF PollStep
<1>8. \A n \in 0 .. N : upTo[n] \in S
  <2> DEFINE T == {n \in 0 .. N : upTo[n] \in S}
  <2>1. 0 \in T
    BY <1>1, <1>2, <1>6
  <2>2. ASSUME NEW n \in 1 .. N, n - 1 \in T PROVE n \in T
    <3>1. n \in 0 .. N /\ upTo[n - 1] \in S
      BY <1>1, <2>2
    <3> QED BY <1>7, <3>1, PollStepGood DEF GoodStates
  <2>3. 0 .. N \subseteq T
    <3> HIDE DEF T, N
    <3> QED BY <1>1, <2>1, <2>2, UpTo
  <2> QED BY <2>3
<1>9. upTo \in [0 .. N -> S]
  BY <1>6, <1>8
<1> QED BY <1>5, <1>6, <1>7, <1>9

\* After it, what could be done is done.
LEMMA AllPolled ==
  ASSUME NEW s, ExtGood(s), NEW t, t = pollExternalChannels(s)
  PROVE  ExtGood(t) /\ Quiet(t)
<1> DEFINE N == Len(MapOrder)
<1>1. PICK f \in [0 .. N -> GoodStates] :
             /\ f[0] = s /\ t = f[N]
             /\ \A n \in 1 .. N : f[n] = PollStep(f[n - 1], MapOrder[n])
  BY PolledInOrder
<1>2. N \in Nat
  BY ExternalAssumption, LenProperties
<1> DEFINE QuietUpTo(n) == \A i \in 1 .. n : MapOrder[i] \in Registered(f[n]) => QuietAt(f[n], MapOrder[i])
           T == {n \in 0 .. N : QuietUpTo(n)}
<1>3. 0 \in T
  BY <1>2
<1>4. ASSUME NEW n \in 1 .. N, n - 1 \in T PROVE n \in T
  <2> DEFINE u == f[n - 1]
             v == f[n]
             c == MapOrder[n]
  <2>1. n \in 0 .. N /\ n - 1 \in 0 .. N /\ ExtGood(u) /\ v = PollStep(u, c)
    BY <1>1, <1>2 DEF GoodStates
  <2>2. \A i \in 1 .. n : i # n => i \in 1 .. (n - 1)
    BY <1>2
  <2>3. \A i \in 1 .. (n - 1) : MapOrder[i] \in Registered(u) => QuietAt(u, MapOrder[i])
    BY <1>4
  <2> HIDE DEF u, v
  <2>4. CASE c \notin Registered(u)
    <3>1. v = u
      BY <2>1, <2>4 DEF PollStep
    <3>2. \A i \in 1 .. n : MapOrder[i] \in Registered(v) => QuietAt(v, MapOrder[i])
      BY <2>2, <2>3, <2>4, <3>1
    <3> QED BY <2>1, <3>2 DEF v
  <2>5. CASE c \in Registered(u)
    <3>1. ExtGood(v) /\ Polled(u, v, c) /\ QuietAt(v, c)
      BY <2>1, <2>5, EndpointPolled DEF PollStep
    <3>2. Registered(v) = Registered(u)
      BY <3>1 DEF Polled
    <3>3. ASSUME NEW i \in 1 .. n, MapOrder[i] \in Registered(v) PROVE QuietAt(v, MapOrder[i])
      <4>1. CASE MapOrder[i] = c
        BY <3>1, <4>1
      <4>2. CASE MapOrder[i] # c
        <5>1. i \in 1 .. (n - 1)
          BY <2>2, <4>2
        <5>2. QuietAt(u, MapOrder[i]) /\ MapOrder[i] \in Registered(u)
          BY <2>3, <3>2, <3>3, <5>1
        <5> QED BY <2>1, <3>1, <4>2, <5>2, QuietKept
      <4> QED BY <4>1, <4>2
    <3> QED BY <2>1, <3>3 DEF v
  <2> QED BY <2>4, <2>5
<1>5. N \in T
  <2> HIDE DEF T, N
  <2>1. 0 .. N \subseteq T
    BY <1>2, <1>3, <1>4, UpTo
  <2> QED BY <1>2, <2>1
<1>6. ExtGood(t)
  BY <1>1, <1>2 DEF GoodStates
<1>7. \A d \in Endpoint : \E i \in 1 .. N : MapOrder[i] = d
  <2>1. DOMAIN MapOrder = 1 .. N
    BY ExternalAssumption, LenProperties
  <2> QED BY <2>1, ExternalAssumption DEF Range
<1>8. Quiet(t)
  <2>1. QuietUpTo(N)
    BY <1>5
  <2>2. Registered(t) \subseteq Endpoint
    BY DEF Registered
  <2> QED BY <1>1, <1>7, <2>1, <2>2 DEF Quiet
<1> QED BY <1>6, <1>8

-----------------------------------------------------------------------------
(***************************************************************************)
(* The next process runs.                                                  *)
(***************************************************************************)

\* The channels of which the wait is over.
Over(s, p, c) == c \in Registered(s) /\ s.channel[c].waiter = p /\ s.channel[c].queued

\* What is left of the others.
Finished(s, t, p) ==
  /\ SameRest(s, t) /\ SameMask(s, t) /\ t.running = s.running /\ t.handler = s.handler
  /\ t.ready = s.ready /\ Registered(t) = Registered(s)
  /\ \A c \in Endpoint : ~Over(s, p, c) => t.channel[c] = s.channel[c]
  /\ \A c \in Endpoint : Over(s, p, c) =>
       t.channel[c] = [s.channel[c] EXCEPT !.waiter = NobodyWaits, !.queued = FALSE]

\* A process's wait is over.
LEMMA WaitFinished ==
  ASSUME NEW s \in ExtState, NEW p \in ExtProcess
  PROVE  finishExternalWait(s, p) \in ExtState /\ Finished(s, finishExternalWait(s, p), p)
<1> DEFINE t == finishExternalWait(s, p)
           over(e) == [e EXCEPT !.waiter = NobodyWaits, !.queued = FALSE]
           new == [c \in Endpoint |-> IF Over(s, p, c) THEN over(s.channel[c]) ELSE s.channel[c]]
<1>1. s.channel \in [Endpoint -> ExtRecord \union {Unregistered}]
  BY StateFields
<1>2. ASSUME NEW e \in ExtRecord PROVE over(e) \in ExtRecord
  <2>1. NobodyWaits \in Somebody
    BY DEF Somebody
  <2> QED BY <2>1 DEF ExtRecord
<1>3. \A c \in Endpoint : Over(s, p, c) => s.channel[c] \in ExtRecord
  BY RegisteredRecords DEF Over
<1>4. new \in [Endpoint -> ExtRecord \union {Unregistered}]
  <2> HIDE DEF over
  <2> QED BY <1>1, <1>2, <1>3
<1>5. t = [s EXCEPT !.channel = new]
  <2>1. \A c \in Endpoint : Over(s, p, c) <=>
          (c \in Registered(s) /\ s.channel[c].registered /\ s.channel[c].waiter = p /\ s.channel[c].queued)
    BY DEF Over, Registered
  <2> QED BY <2>1 DEF finishExternalWait, ExtState
<1> HIDE DEF t
<1>6. \A c \in Endpoint : new[c] = IF Over(s, p, c) THEN over(s.channel[c]) ELSE s.channel[c]
  OBVIOUS
<1> HIDE DEF new
<1>7. t \in ExtState /\ t.channel = new
  BY <1>4, <1>5 DEF ExtState
<1>8. /\ SameRest(s, t) /\ SameMask(s, t)
      /\ t.running = s.running /\ t.handler = s.handler /\ t.ready = s.ready
  BY <1>5 DEF ExtState, SameRest, SameMask
<1>9. Registered(t) = Registered(s)
  <2>1. \A c \in Endpoint : Over(s, p, c) => over(s.channel[c]).registered /\ s.channel[c].registered
    BY <1>2, <1>3, RecordFields
  <2> QED BY <1>6, <1>7, <2>1 DEF Registered
<1>10. Finished(s, t, p)
  BY <1>6, <1>7, <1>8, <1>9 DEF Finished
<1> QED BY <1>7, <1>10 DEF t

\* The first of the queue runs.
LEMMA HeadRuns ==
  ASSUME NEW s \in ExtState, Places(s), s.handler = NobodyWaits, s.running = NobodyWaits,
         s.ready # <<>>, NEW t \in ExtState, t.ready = Tail(s.ready), t.running = Head(s.ready),
         t.handler = s.handler
  PROVE  /\ Head(s.ready) \in ExtProcess /\ Places(t) /\ \A q \in ExtProcess : Awake(t, q) <=> Awake(s, q)
<1> DEFINE n == Len(s.ready)
           p == Head(s.ready)
<1>1. s.ready \in Seq(ExtProcess) /\ n \in Nat /\ n > 0 /\ DOMAIN s.ready = 1 .. n
  <2>1. s.ready \in Seq(ExtProcess)
    BY StateFields
  <2> QED BY <2>1, LenProperties, EmptySeq
<1>2. /\ p = s.ready[1] /\ p \in ExtProcess /\ DOMAIN t.ready = 1 .. (n - 1)
      /\ \A i \in 1 .. (n - 1) : t.ready[i] = s.ready[i + 1]
  <2>1. p = s.ready[1] /\ p \in ExtProcess
    BY <1>1
  <2>2. Tail(s.ready) \in Seq(ExtProcess) /\ Len(Tail(s.ready)) = n - 1
    BY <1>1, HeadTailProperties
  <2>3. \A i \in 1 .. (n - 1) : Tail(s.ready)[i] = s.ready[i + 1]
    BY <1>1, HeadTailProperties
  <2> QED BY <2>1, <2>2, <2>3, LenProperties
<1> HIDE DEF n, p
<1>3. \A i \in 1 .. (n - 1) : i + 1 \in 1 .. n /\ i + 1 # 1
  BY <1>1
<1>4. \A i \in 1 .. n : i # 1 => i - 1 \in 1 .. (n - 1) /\ (i - 1) + 1 = i
  BY <1>1
<1>5. 1 \in 1 .. n
  BY <1>1
<1>6. \A i, j \in 1 .. n : s.ready[i] = s.ready[j] => i = j
  BY <1>1 DEF Places
<1>7. ASSUME NEW q PROVE InReady(s, q) <=> (InReady(t, q) \/ q = p)
  <2>1. ASSUME InReady(s, q) PROVE InReady(t, q) \/ q = p
    <3>1. PICK i \in 1 .. n : s.ready[i] = q
      BY <1>1, <2>1 DEF InReady
    <3>2. i # 1 => t.ready[i - 1] = s.ready[i]
      BY <1>2, <1>4, <3>1
    <3> QED BY <1>2, <1>4, <3>1, <3>2 DEF InReady
  <2>2. ASSUME InReady(t, q) PROVE InReady(s, q)
    BY <1>1, <1>2, <1>3, <2>2 DEF InReady
  <2>3. InReady(s, p)
    BY <1>1, <1>2, <1>5 DEF InReady
  <2> QED BY <2>1, <2>2, <2>3
<1>8. ~InReady(t, p)
  <2>1. SUFFICES ASSUME NEW i \in 1 .. (n - 1), t.ready[i] = p PROVE FALSE
    BY <1>2 DEF InReady
  <2>2. s.ready[i + 1] = s.ready[1] /\ i + 1 \in 1 .. n /\ i + 1 # 1
    BY <1>2, <1>3, <2>1
  <2> QED BY <1>5, <1>6, <2>2
<1>9. \A i, j \in DOMAIN t.ready : t.ready[i] = t.ready[j] => i = j
  <2>1. SUFFICES ASSUME NEW i \in 1 .. (n - 1), NEW j \in 1 .. (n - 1), t.ready[i] = t.ready[j]
                 PROVE  i = j
    BY <1>2
  <2>2. s.ready[i + 1] = s.ready[j + 1] /\ i + 1 \in 1 .. n /\ j + 1 \in 1 .. n
    BY <1>2, <1>3, <2>1
  <2>3. i + 1 = j + 1
    BY <1>6, <2>2
  <2> QED BY <1>1, <2>3
<1>10. p # NobodyWaits
  BY <1>2, ExtConstants
<1>11. Places(t)
  BY <1>8, <1>9, <1>10 DEF Places, p
<1>12. \A q \in ExtProcess : Awake(t, q) <=> Awake(s, q)
  <2>1. NobodyWaits \notin ExtProcess
    BY ExtConstants
  <2> QED BY <1>7, <2>1 DEF Awake, p
<1> QED BY <1>2, <1>11, <1>12 DEF p

\* A process is taken from the queue, and its wait is over.
LEMMA Dispatched ==
  ASSUME NEW s, ExtGood(s), Quiet(s), NEW t, t = DispatchReady(s)
  PROVE  ExtGood(t) /\ Quiet(t)
<1>1. CASE HandlerActive(s) \/ s.running # NobodyWaits \/ s.ready = <<>>
  <2>1. t = s
    BY <1>1 DEF DispatchReady
  <2> QED BY <2>1
<1>2. CASE ~(HandlerActive(s) \/ s.running # NobodyWaits \/ s.ready = <<>>)
  <2> DEFINE p == Head(s.ready)
             u == [s EXCEPT !.running = Head(s.ready), !.ready = Tail(@)]
  <2>1. /\ s \in ExtState /\ Places(s) /\ Registered(s) \subseteq Endpoint
        /\ s.ready \in Seq(ExtProcess) /\ s.ready # <<>>
    BY <1>2, StateFields, RegisteredRecords DEF ExtGood
  <2>2. p \in ExtProcess /\ Tail(s.ready) \in Seq(ExtProcess) /\ p # NobodyWaits
    BY <2>1, HeadTailProperties, ExtConstants
  <2>3. t = finishExternalWait(u, p)
    BY <1>2 DEF DispatchReady
  <2>4. /\ u \in ExtState /\ SameRest(s, u) /\ SameMask(s, u) /\ u.channel = s.channel /\ u.running = p
        /\ u.handler = s.handler /\ u.ready = Tail(s.ready)
    <3>1. p \in Somebody
      BY <2>2 DEF Somebody
    <3>2. u \in ExtState
      BY <2>1, <2>2, <3>1 DEF ExtState
    <3> QED BY <2>1, <3>2 DEF ExtState, SameRest, SameMask
  <2> HIDE DEF u, p
  <2>5. /\ t \in ExtState /\ SameRest(u, t) /\ SameMask(u, t) /\ t.running = u.running /\ t.handler = u.handler
        /\ t.ready = u.ready /\ Registered(t) = Registered(u)
        /\ \A c \in Endpoint : ~Over(u, p, c) => t.channel[c] = u.channel[c]
        /\ \A c \in Endpoint : Over(u, p, c) =>
             t.channel[c] = [u.channel[c] EXCEPT !.waiter = NobodyWaits, !.queued = FALSE]
    <3>1. t \in ExtState /\ Finished(u, t, p)
      BY <2>2, <2>3, <2>4, WaitFinished
    <3> QED BY <3>1 DEF Finished
  <2>6. SameRest(s, t) /\ Registered(t) = Registered(s) /\ t.running = p /\ t.handler = s.handler
    BY <2>4, <2>5 DEF SameRest, Registered
  <2>7. Places(t) /\ \A q \in ExtProcess : Awake(t, q) <=> Awake(s, q)
    BY <1>2, <2>1, <2>4, <2>5, HeadRuns DEF p, HandlerActive
  <2>8. Awake(s, p)
    BY <2>2, <2>6, <2>7 DEF Awake
  <2>9. ASSUME NEW c \in Registered(s)
        PROVE  /\ t.channel[c].length = s.channel[c].length /\ t.channel[c].inputWait = s.channel[c].inputWait
               /\ t.channel[c].altOwner = s.channel[c].altOwner /\ (Waked(t, c) <=> Waked(s, c))
               /\ t.channel[c].altWake = s.channel[c].altWake
               /\ t.channel[c].altNotified = s.channel[c].altNotified
               /\ t.channel[c].input = s.channel[c].input /\ t.channel[c].output = s.channel[c].output
               /\ \/ t.channel[c] = s.channel[c] /\ s.channel[c].waiter # p
                  \/ /\ t.channel[c].waiter = NobodyWaits /\ t.channel[c].queued = FALSE
                     /\ s.channel[c].waiter = p /\ s.channel[c].queued
    <3>1. s.channel[c] \in ExtRecord /\ WaitOk(s, c) /\ u.channel[c] = s.channel[c] /\ c \in Endpoint
      BY <2>1, <2>4, RegisteredRecords DEF ExtGood, Waits
    <3>2. s.channel[c].waiter = p => s.channel[c].queued
      BY <2>2, <2>8, <3>1 DEF WaitOk
    <3>3. CASE Over(u, p, c)
      <4>1. t.channel[c] = [s.channel[c] EXCEPT !.waiter = NobodyWaits, !.queued = FALSE]
        BY <2>5, <3>1, <3>3
      <4>2. s.channel[c].waiter = p /\ s.channel[c].queued
        BY <3>1, <3>3 DEF Over
      <4> QED BY <3>1, <4>1, <4>2 DEF ExtRecord, Waked
    <3>4. CASE ~Over(u, p, c)
      <4>1. t.channel[c] = s.channel[c]
        BY <2>5, <3>1, <3>4
      <4>2. c \in Registered(u)
        BY <2>5, <2>6
      <4>3. s.channel[c].waiter # p
        BY <3>1, <3>2, <3>4, <4>2 DEF Over
      <4> QED BY <4>1, <4>3 DEF Waked
    <3> QED BY <3>3, <3>4
  <2>10. Waits(t)
    <3>1. ASSUME NEW c \in Registered(s) PROVE WaitOk(t, c)
      <4>1. WaitOk(s, c) /\ s.channel[c].waiter \in Somebody
        BY <2>1, RegisteredRecords, RecordFields DEF ExtGood, Waits
      <4>2. CASE t.channel[c].waiter = NobodyWaits /\ t.channel[c].queued = FALSE
        BY <4>2 DEF WaitOk
      <4>3. CASE t.channel[c] = s.channel[c] /\ s.channel[c].waiter # p
        <5> DEFINE w == s.channel[c].waiter
        <5>1. w # NobodyWaits => w \in ExtProcess /\ (Awake(t, w) <=> Awake(s, w))
          BY <2>7, <4>1 DEF Somebody
        <5>2. w # NobodyWaits => \A d \in Registered(s) : t.channel[d].waiter = w => s.channel[d].waiter = w
          BY <2>9
        <5> QED BY <2>6, <4>1, <4>3, <5>1, <5>2 DEF WaitOk, SameRest
      <4> QED BY <2>9, <4>2, <4>3
    <3>2. t.canceled # NobodyWaits => ~Awake(t, t.canceled) /\ t.phase[t.canceled] = "none"
      <4>1. s.canceled \in Somebody
        BY <2>1, StateFields
      <4>2. s.canceled # NobodyWaits => ~Awake(s, s.canceled) /\ s.phase[s.canceled] = "none"
        BY DEF ExtGood, Waits
      <4> QED BY <2>6, <2>7, <4>1, <4>2 DEF Somebody, SameRest
    <3> QED BY <2>6, <3>1, <3>2 DEF Waits
  <2>11. Alts(t)
    <3>1. SUFFICES ASSUME NEW q \in ExtProcess PROVE AltOk(t, q)
      BY DEF Alts
    <3>2. AltOk(s, q) /\ s.guards[q] \subseteq Endpoint
      BY <2>1, ProcessFields DEF ExtGood, Alts
    <3>3. s.guards[q] \subseteq Registered(s)
      BY <3>2 DEF AltOk
    <3>4. \A c \in Endpoint : (c \in s.guards[q]) <=> (c \in Registered(t) /\ t.channel[c].altOwner = q)
      <4>1. \A c \in Endpoint : (c \in s.guards[q]) <=> (c \in Registered(s) /\ s.channel[c].altOwner = q)
        BY <3>2 DEF AltOk
      <4>2. \A c \in Registered(s) : t.channel[c].altOwner = s.channel[c].altOwner
        BY <2>9
      <4>3. Registered(t) = Registered(s)
        BY <2>6
      <4> QED BY <4>1, <4>2, <4>3
    <3>5. Awake(t, q) <=> Awake(s, q)
      BY <2>7
    <3>6. \A c \in Registered(s) :
            /\ t.channel[c].altOwner = s.channel[c].altOwner /\ (Waked(t, c) <=> Waked(s, c))
            /\ t.channel[c].altWake = s.channel[c].altWake
            /\ t.channel[c].altNotified = s.channel[c].altNotified
            /\ t.channel[c].input = s.channel[c].input
      BY <2>9
    <3>7. /\ t.guards = s.guards /\ t.phase = s.phase /\ t.word = s.word /\ t.chosen = s.chosen
          /\ Registered(t) = Registered(s)
      BY <2>6 DEF SameRest
    <3> QED BY <3>2, <3>3, <3>4, <3>5, <3>6, <3>7 DEF AltOk
  <2>12. Sleeps(t)
    <3>1. SUFFICES ASSUME NEW q \in ExtProcess PROVE SleepOk(t, q)
      BY DEF Sleeps
    <3>2. SleepOk(s, q) /\ AltOk(s, q) /\ s.guards[q] \subseteq Endpoint
      BY <2>1, ProcessFields DEF ExtGood, Sleeps, Alts
    <3>3. s.guards[q] \subseteq Registered(s)
      BY <3>2 DEF AltOk
    <3>4. (\E c \in Registered(s) : s.channel[c].waiter = q) =>
            Awake(s, q) \/ \E c \in Registered(s) : t.channel[c].waiter = q
      <4>1. SUFFICES ASSUME NEW c \in Registered(s), s.channel[c].waiter = q, q # p
                     PROVE  t.channel[c].waiter = q
        BY <2>8
      <4> QED BY <2>9, <4>1
    <3> QED BY <2>6, <2>7, <2>9, <3>2, <3>3, <3>4 DEF SleepOk, SameRest
  <2>13. Books(t)
    <3>1. ASSUME NEW c \in Registered(s)
          PROVE  /\ t.channel[c].input = t.fed[c] + Pending(t.channel[c], TRUE)
                 /\ t.channel[c].output = t.sent[c] - Pending(t.channel[c], FALSE)
      <4>1. /\ s.channel[c].input = s.fed[c] + Pending(s.channel[c], TRUE)
            /\ s.channel[c].output = s.sent[c] - Pending(s.channel[c], FALSE)
        BY DEF ExtGood, Books
      <4>2. /\ Pending(t.channel[c], TRUE) = Pending(s.channel[c], TRUE)
            /\ Pending(t.channel[c], FALSE) = Pending(s.channel[c], FALSE)
        <5>1. CASE t.channel[c] = s.channel[c]
          BY <5>1
        <5>2. CASE t.channel[c].waiter = NobodyWaits /\ s.channel[c].waiter = p /\ s.channel[c].queued
          <6>1. s.channel[c].length = 0
            BY <2>2, <5>2 DEF ExtGood, Waits, WaitOk
          <6> QED BY <5>2, <6>1 DEF Pending
        <5> QED BY <2>9, <5>1, <5>2
      <4>3. t.fed[c] = s.fed[c] /\ t.sent[c] = s.sent[c]
        BY <2>6 DEF SameRest
      <4> QED BY <2>9, <4>1, <4>2, <4>3
    <3> QED BY <2>6, <3>1 DEF Books
  <2>14. Quiet(t)
    <3>1. SUFFICES ASSUME NEW c \in Registered(s) PROVE QuietAt(t, c)
      BY <2>6 DEF Quiet
    <3>2. QuietAt(s, c)
      BY DEF Quiet
    <3>3. MayRelease(t) <=> MayRelease(s)
      BY <2>4, <2>5 DEF MayRelease, HandlerActive, SameMask
    <3>4. TransferReady(t.channel[c]) <=> TransferReady(s.channel[c])
      BY <2>9 DEF TransferReady
    <3> QED BY <2>6, <2>9, <3>2, <3>3, <3>4 DEF QuietAt, SameRest
  <2> QED BY <2>5, <2>7, <2>10, <2>11, <2>12, <2>13, <2>14 DEF ExtGood
<1> QED BY <1>1, <1>2

\* After an instruction or a call of the host, what could be done is done.
LEMMA PolledAndDispatched ==
  ASSUME NEW s, ExtGood(s) PROVE ExtGood(PollAndDispatch(s)) /\ Quiet(PollAndDispatch(s))
<1> DEFINE t == pollExternalChannels(s)
<1>1. ExtGood(t) /\ Quiet(t)
  BY AllPolled
<1>2. PollAndDispatch(s) = DispatchReady(t)
  BY DEF PollAndDispatch
<1> HIDE DEF t
<1> QED BY <1>1, <1>2, Dispatched

-----------------------------------------------------------------------------
(***************************************************************************)
(* A step of the running process p (or of the host, NobodyWaits) on the    *)
(* channel c.                                                              *)
(***************************************************************************)

\* The view that a process has of the others is the same.
SameProcess(s, t, q) ==
  /\ t.word[q] = s.word[q] /\ t.guards[q] = s.guards[q] /\ t.phase[q] = s.phase[q]
  /\ t.chosen[q] = s.chosen[q] /\ (Awake(t, q) <=> Awake(s, q))

\* Only p and c change, and p runs before the step.
Near(s, t, p, c) ==
  /\ \A d \in Endpoint : d # c =>
       t.channel[d] = s.channel[d] /\ t.fed[d] = s.fed[d] /\ t.sent[d] = s.sent[d]
  /\ \A q \in ExtProcess : q # p => SameProcess(s, t, q)
  /\ t.canceled = s.canceled /\ t.running \in {s.running, NobodyWaits}
  /\ p # NobodyWaits => s.running = p
  /\ p \in ExtProcess => t.chosen[p] \in {c, NobodyWaits, s.chosen[p]}

\* The users of c but for p are those it had.
SameUsers(s, t, p, c) ==
  /\ c \in Registered(t) => t.channel[c].waiter \in {p, NobodyWaits} \/
       (c \in Registered(s) /\ t.channel[c].waiter = s.channel[c].waiter)
  /\ \A q \in ExtProcess \ {p} : c \in Registered(s) /\ s.channel[c].waiter = q =>
       c \in Registered(t) /\ t.channel[c].waiter = q

\* No process but p alternates on c.
NoOthers(s, t, p, c) ==
  c \in Endpoint =>
    \A q \in ExtProcess \ {p} :
      c \notin s.guards[q] /\ s.chosen[q] # c /\ (c \in Registered(t) => t.channel[c].altOwner # q)

\* Or the alternative of c sees no less of it.
SeesMore(s, t, c) ==
  LET e == s.channel[c]
      f == t.channel[c]
  IN  /\ c \in Registered(s) /\ c \in Registered(t)
      /\ f.altOwner = e.altOwner /\ f.altWake = e.altWake /\ f.altNotified = e.altNotified
      /\ e.input > 0 => f.input > 0

\* The other channels are registered as they were.
LEMMA NearRegistered ==
  ASSUME NEW s, NEW t, NEW p, NEW c, Near(s, t, p, c)
  PROVE  \A d \in Endpoint : d # c => ((d \in Registered(t)) <=> (d \in Registered(s)))
BY DEF Near, Registered

\* A process that runs waits on no channel.
LEMMA RunningWaitsNowhere ==
  ASSUME NEW s, ExtGood(s), NEW p, p # NobodyWaits, s.running = p
  PROVE  /\ \A d \in Registered(s) : s.channel[d].waiter # p
         /\ s.canceled # p /\ Awake(s, p) /\ p \in ExtProcess
<1>1. Awake(s, p)
  BY DEF Awake
<1>2. \A d \in Registered(s) : s.channel[d].waiter # p
  BY <1>1 DEF ExtGood, Waits, WaitOk
<1>3. s.canceled # p
  BY <1>1 DEF ExtGood, Waits
<1>4. p \in ExtProcess
  BY StateFields DEF ExtGood, Somebody
<1> QED BY <1>1, <1>2, <1>3, <1>4

\* The waits.
LEMMA NearWaits ==
  ASSUME NEW s, ExtGood(s), NEW t \in ExtState, NEW p \in Somebody, NEW c, Near(s, t, p, c),
         SameUsers(s, t, p, c), c \in Registered(t) => WaitOk(t, c)
  PROVE  Waits(t)
<1>1. ASSUME NEW d \in Registered(t), d # c PROVE WaitOk(t, d)
  <2> DEFINE w == s.channel[d].waiter
  <2>1. d \in Registered(s) /\ d \in Endpoint /\ t.channel[d] = s.channel[d] /\ WaitOk(s, d)
    <3>1. d \in Endpoint
      BY DEF Registered
    <3> QED BY <1>1, <3>1, NearRegistered DEF Near, ExtGood, Waits
  <2>2. CASE w = NobodyWaits
    BY <2>1, <2>2 DEF WaitOk
  <2>3. CASE w # NobodyWaits
    <3>1. w \in ExtProcess
      <4>1. s \in ExtState
        BY DEF ExtGood
      <4>2. w \in Somebody
        BY <2>1, <4>1, RegisteredRecords, RecordFields
      <4> QED BY <2>3, <4>2 DEF Somebody
    <3>2. w # p
      BY <2>1, <2>3, RunningWaitsNowhere DEF Near
    <3>3. SameProcess(s, t, w)
      BY <3>1, <3>2 DEF Near
    <3>4. t.canceled = s.canceled /\ (t.running # w \/ t.running = s.running)
      BY <2>3 DEF Near
    <3>5. \A x \in Registered(t) : t.channel[x].waiter = w => x = d
      <4>1. SUFFICES ASSUME NEW x \in Registered(t), t.channel[x].waiter = w PROVE x = d
        OBVIOUS
      <4>2. CASE x # c
        <5>1. x \in Registered(s) /\ t.channel[x] = s.channel[x]
          BY <4>2, NearRegistered DEF Near, Registered
        <5> QED BY <2>1, <2>3, <4>1, <5>1 DEF WaitOk
      <4>3. CASE x = c
        <5>1. c \in Registered(s) /\ s.channel[c].waiter = w
          BY <2>3, <3>2, <4>1, <4>3 DEF SameUsers
        <5> QED BY <2>1, <2>3, <4>3, <5>1 DEF WaitOk
      <4> QED BY <4>2, <4>3
    <3>6. \A q \in ExtProcess : t.chosen[q] # d
      <4>1. \A q \in ExtProcess : s.chosen[q] # d
        BY <2>1, <2>3 DEF WaitOk
      <4>2. d # NobodyWaits
        BY <2>1, ExtConstants
      <4> QED BY <1>1, <4>1, <4>2 DEF Near, SameProcess
    <3>7. t.canceled = s.canceled
      BY DEF Near
    <3> QED BY <2>1, <2>3, <3>3, <3>4, <3>5, <3>6, <3>7 DEF WaitOk, SameProcess
  <2> QED BY <2>2, <2>3
<1>2. t.canceled # NobodyWaits => ~Awake(t, t.canceled) /\ t.phase[t.canceled] = "none"
  <2> DEFINE w == s.canceled
  <2>1. t.canceled = w
    BY DEF Near
  <2>2. w # NobodyWaits => w \in ExtProcess /\ ~Awake(s, w) /\ s.phase[w] = "none"
    BY StateFields DEF ExtGood, Waits, Somebody
  <2>3. w # NobodyWaits => w # p
    BY RunningWaitsNowhere DEF Near
  <2> QED BY <2>1, <2>2, <2>3 DEF Near, SameProcess
<1> QED BY <1>1, <1>2 DEF Waits

\* The alternatives.
LEMMA NearAlts ==
  ASSUME NEW s, ExtGood(s), NEW t \in ExtState, NEW p \in Somebody, NEW c, Near(s, t, p, c),
         NoOthers(s, t, p, c) \/ SeesMore(s, t, c), p \in ExtProcess => AltOk(t, p)
  PROVE  Alts(t)
<1>1. SUFFICES ASSUME NEW q \in ExtProcess, q # p PROVE AltOk(t, q)
  BY DEF Alts
<1>2. AltOk(s, q) /\ SameProcess(s, t, q) /\ s.guards[q] \subseteq Endpoint /\ q # NobodyWaits
      /\ s.chosen[q] \in Endpoint \union {NobodyWaits}
  BY <1>1, ProcessFields DEF ExtGood, Alts, Near
<1>3. \A d \in Endpoint : (d \in Registered(t) /\ t.channel[d].altOwner = q)
                            <=> (d \in Registered(s) /\ s.channel[d].altOwner = q)
  <2>1. TAKE d \in Endpoint
  <2>2. CASE d # c
    BY <2>2, NearRegistered DEF Near
  <2>3. CASE d = c
    BY <1>1, <1>2, <2>3 DEF NoOthers, SeesMore, AltOk
  <2> QED BY <2>2, <2>3
<1>4. \A d \in s.guards[q] :
        /\ t.channel[d].altWake = s.channel[d].altWake /\ t.channel[d].altNotified = s.channel[d].altNotified
        /\ s.channel[d].input > 0 => t.channel[d].input > 0
        /\ Waked(t, d) <=> Waked(s, d)
  BY <1>1, <1>2 DEF Near, NoOthers, SeesMore, Waked
<1>5. s.chosen[q] # NobodyWaits =>
        /\ s.chosen[q] \in Registered(t) /\ t.channel[s.chosen[q]].input > 0
        /\ t.channel[s.chosen[q]].altOwner = NobodyWaits
  <2>1. SUFFICES ASSUME s.chosen[q] # NobodyWaits
                 PROVE  /\ s.chosen[q] \in Registered(t) /\ t.channel[s.chosen[q]].input > 0
                        /\ t.channel[s.chosen[q]].altOwner = NobodyWaits
    OBVIOUS
  <2> DEFINE d == s.chosen[q]
  <2>2. /\ d \in Registered(s) /\ s.channel[d].input > 0 /\ s.channel[d].altOwner = NobodyWaits
        /\ d \in Endpoint
    BY <1>2, <2>1 DEF AltOk
  <2>3. CASE d # c
    <3>1. d \in Registered(t)
      BY <2>2, <2>3, NearRegistered
    <3>2. t.channel[d] = s.channel[d]
      BY <2>2, <2>3 DEF Near
    <3> QED BY <2>2, <3>1, <3>2
  <2>4. CASE d = c
    BY <1>1, <2>2, <2>4 DEF NoOthers, SeesMore
  <2> QED BY <2>3, <2>4
<1> QED BY <1>2, <1>3, <1>4, <1>5 DEF AltOk, SameProcess

\* The sleepers.
LEMMA NearSleeps ==
  ASSUME NEW s, ExtGood(s), NEW t \in ExtState, NEW p \in Somebody, NEW c, Near(s, t, p, c),
         SameUsers(s, t, p, c), NoOthers(s, t, p, c) \/ SeesMore(s, t, c),
         p \in ExtProcess => SleepOk(t, p)
  PROVE  Sleeps(t)
<1>1. SUFFICES ASSUME NEW q \in ExtProcess, q # p PROVE SleepOk(t, q)
  BY DEF Sleeps
<1>2. SleepOk(s, q) /\ SameProcess(s, t, q) /\ s.guards[q] \subseteq Endpoint
  BY <1>1, ProcessFields DEF ExtGood, Sleeps, Near
<1>3. ASSUME NEW d \in Registered(s), s.channel[d].waiter = q
      PROVE  d \in Registered(t) /\ t.channel[d].waiter = q
  <2>1. d \in Endpoint
    BY DEF Registered
  <2>2. CASE d # c
    BY <1>3, <2>1, <2>2, NearRegistered DEF Near
  <2>3. CASE d = c
    BY <1>1, <1>3, <2>3 DEF SameUsers
  <2> QED BY <2>2, <2>3
<1>4. \A d \in s.guards[q] : Waked(s, d) => Waked(t, d)
  BY <1>1, <1>2 DEF Near, NoOthers, SeesMore, Waked
<1>5. t.canceled = s.canceled
  BY DEF Near
<1> QED BY <1>2, <1>3, <1>4, <1>5 DEF SleepOk, SameProcess

\* The account of a channel.
BooksAt(s, c) ==
  /\ s.channel[c].input = s.fed[c] + Pending(s.channel[c], TRUE)
  /\ s.channel[c].output = s.sent[c] - Pending(s.channel[c], FALSE)

\* All of the invariant.
LEMMA NearGood ==
  ASSUME NEW s, ExtGood(s), NEW t \in ExtState, NEW p \in Somebody, NEW c, Near(s, t, p, c), Places(t),
         SameUsers(s, t, p, c), NoOthers(s, t, p, c) \/ SeesMore(s, t, c),
         c \in Registered(t) => WaitOk(t, c) /\ BooksAt(t, c),
         p \in ExtProcess => AltOk(t, p) /\ SleepOk(t, p)
  PROVE  ExtGood(t)
<1>1. Waits(t)
  BY NearWaits
<1>2. Alts(t)
  BY NearAlts
<1>3. Sleeps(t)
  BY NearSleeps
<1>4. Books(t)
  <2>1. ASSUME NEW d \in Registered(t) PROVE BooksAt(t, d)
    <3>1. d \in Endpoint
      BY DEF Registered
    <3>2. CASE d # c
      <4>1. d \in Registered(s) /\ t.channel[d] = s.channel[d] /\ t.fed[d] = s.fed[d] /\ t.sent[d] = s.sent[d]
        BY <2>1, <3>1, <3>2, NearRegistered DEF Near
      <4>2. BooksAt(s, d)
        BY <4>1 DEF ExtGood, Books, BooksAt
      <4> QED BY <4>1, <4>2 DEF BooksAt
    <3> QED BY <2>1, <3>2
  <2> QED BY <2>1 DEF Books, BooksAt
<1> QED BY <1>1, <1>2, <1>3, <1>4 DEF ExtGood

-----------------------------------------------------------------------------
(***************************************************************************)
(* The host.                                                               *)
(***************************************************************************)

\* A channel and its account are set.
SetsAccount(s, t, c, g, a, b) ==
  t = [s EXCEPT !.channel = [s.channel EXCEPT ![c] = g], !.fed = [s.fed EXCEPT ![c] = a],
                !.sent = [s.sent EXCEPT ![c] = b]]

\* Nothing but c and its account changes.
Aside(s, t, c) ==
  /\ \A d \in Endpoint : d # c =>
       t.channel[d] = s.channel[d] /\ t.fed[d] = s.fed[d] /\ t.sent[d] = s.sent[d]
  /\ t.word = s.word /\ t.guards = s.guards /\ t.phase = s.phase
  /\ t.chosen = s.chosen /\ t.canceled = s.canceled
  /\ t.running = s.running /\ t.handler = s.handler /\ t.ready = s.ready

\* And they are these.
Account(s, t, c, g, a, b) ==
  t.channel[c] = g /\ t.fed[c] = a /\ t.sent[c] = b /\ Aside(s, t, c) /\ SameMask(s, t)

\* The state is one of the model.
LEMMA AccountSet ==
  ASSUME NEW s \in ExtState, NEW c \in Endpoint, NEW g \in ExtRecord \union {Unregistered},
         NEW a \in Int, NEW b \in Int, NEW t, SetsAccount(s, t, c, g, a, b)
  PROVE  t \in ExtState /\ Account(s, t, c, g, a, b)
<1> DEFINE C == [s.channel EXCEPT ![c] = g]
           F == [s.fed EXCEPT ![c] = a]
           G == [s.sent EXCEPT ![c] = b]
<1>1. /\ s.channel \in [Endpoint -> ExtRecord \union {Unregistered}]
      /\ s.fed \in [Endpoint -> Int] /\ s.sent \in [Endpoint -> Int]
  BY StateFields
<1>2. /\ C \in [Endpoint -> ExtRecord \union {Unregistered}]
      /\ F \in [Endpoint -> Int] /\ G \in [Endpoint -> Int]
  BY <1>1
<1>3. /\ C[c] = g /\ F[c] = a /\ G[c] = b
      /\ \A d \in Endpoint : d # c => C[d] = s.channel[d] /\ F[d] = s.fed[d] /\ G[d] = s.sent[d]
  BY <1>1
<1>4. t = [s EXCEPT !.channel = C, !.fed = F, !.sent = G]
  BY DEF SetsAccount
<1> HIDE DEF C, F, G
<1>5. t \in ExtState
  BY <1>2, <1>4 DEF ExtState
<1>6. /\ t.channel = C /\ t.fed = F /\ t.sent = G
      /\ t.word = s.word /\ t.guards = s.guards /\ t.phase = s.phase
      /\ t.chosen = s.chosen /\ t.canceled = s.canceled /\ SameMask(s, t)
      /\ t.running = s.running /\ t.handler = s.handler /\ t.ready = s.ready
  BY <1>4 DEF ExtState, SameMask
<1> QED BY <1>3, <1>5, <1>6 DEF Account, Aside

\* The processes are where they were, and see the others as before.
LEMMA AccountNear ==
  ASSUME NEW s \in ExtState, NEW t, NEW c, NEW g, NEW a, NEW b, Account(s, t, c, g, a, b), Places(s)
  PROVE  /\ Near(s, t, NobodyWaits, c) /\ Places(t)
         /\ \A q \in ExtProcess : Awake(t, q) <=> Awake(s, q)
<1>1. \A q \in ExtProcess : Awake(t, q) <=> Awake(s, q)
  BY DEF Account, Aside, Awake, InReady
<1>2. NobodyWaits \notin ExtProcess
  BY ExtConstants
<1>3. Places(t)
  BY DEF Account, Aside, Places, InReady
<1> QED BY <1>1, <1>2, <1>3 DEF Account, Aside, Near, SameProcess

\* A new channel has no users.
LEMMA FreshFields ==
  /\ Fresh \in ExtRecord /\ Fresh.waiter = NobodyWaits /\ Fresh.altOwner = NobodyWaits
  /\ Fresh.queued = FALSE /\ Fresh.input = 0 /\ Fresh.output = 0 /\ Fresh.registered = TRUE
  /\ Pending(Fresh, TRUE) = 0 /\ Pending(Fresh, FALSE) = 0
BY ExtConstants DEF Fresh, ExtRecord, Somebody, Pending

\* A channel that no process uses concerns no alternative.
LEMMA UnusedByOthers ==
  ASSUME NEW s, ExtGood(s), NEW c \in Endpoint, c \notin Registered(s)
  PROVE  \A q \in ExtProcess : c \notin s.guards[q] /\ s.chosen[q] # c
<1>1. \A q \in ExtProcess : AltOk(s, q)
  BY DEF ExtGood, Alts
<1>2. c # NobodyWaits
  BY ExtConstants
<1> QED BY <1>1, <1>2 DEF AltOk

\* A registration.
LEMMA RegisterGood ==
  ASSUME NEW s, ExtGood(s), Quiet(s), NEW c \in Endpoint, c \notin Registered(s), NEW t,
         t = [s EXCEPT !.channel[c] = Fresh, !.fed[c] = 0, !.sent[c] = 0]
  PROVE  ExtGood(t) /\ Quiet(t)
<1>1. s \in ExtState /\ Places(s)
  BY DEF ExtGood
<1>2. SetsAccount(s, t, c, Fresh, 0, 0)
  BY <1>1 DEF SetsAccount, ExtState
<1>3. t \in ExtState /\ Account(s, t, c, Fresh, 0, 0)
  <2>1. Fresh \in ExtRecord \union {Unregistered}
    BY FreshFields
  <2> QED BY <1>1, <1>2, <2>1, AccountSet
<1>4. Near(s, t, NobodyWaits, c) /\ Places(t)
  BY <1>1, <1>3, AccountNear
<1>5. t.channel[c] = Fresh
  BY <1>3 DEF Account
<1>6. SameUsers(s, t, NobodyWaits, c)
  BY <1>5, FreshFields DEF SameUsers
<1>7. NobodyWaits \notin ExtProcess /\ NobodyWaits \in Somebody
  BY ExtConstants DEF Somebody
<1>8. NoOthers(s, t, NobodyWaits, c)
  BY <1>5, <1>7, UnusedByOthers, FreshFields DEF NoOthers
<1>9. WaitOk(t, c) /\ BooksAt(t, c)
  <2>1. WaitOk(t, c)
    BY <1>5, FreshFields DEF WaitOk
  <2>2. t.fed[c] = 0 /\ t.sent[c] = 0
    BY <1>3 DEF Account
  <2>3. 0 = 0 + 0 /\ 0 = 0 - 0
    OBVIOUS
  <2>4. BooksAt(t, c)
    BY <1>5, <2>2, <2>3, FreshFields DEF BooksAt
  <2> QED BY <2>1, <2>4
<1>10. ExtGood(t)
  BY <1>3, <1>4, <1>6, <1>7, <1>8, <1>9, NearGood
<1>11. Quiet(t)
  <2>1. SUFFICES ASSUME NEW d \in Registered(t) PROVE QuietAt(t, d)
    BY DEF Quiet
  <2>2. CASE d = c
    BY <1>5, <2>2, FreshFields DEF QuietAt
  <2>3. CASE d # c
    <3>1. d \in Registered(s) /\ t.channel[d] = s.channel[d]
      BY <1>4, <2>3, NearRegistered DEF Near, Registered
    <3>2. QuietAt(s, d)
      BY <3>1 DEF Quiet
    <3> QED BY <1>3, <3>1, <3>2 DEF QuietAt, Waked, MayRelease, HandlerActive, SameMask, Account, Aside
  <2> QED BY <2>2, <2>3
<1> QED BY <1>10, <1>11

\* And its end.
LEMMA UnregisterGood ==
  ASSUME NEW s, ExtGood(s), Quiet(s), NEW c \in Registered(s), s.channel[c].waiter = NobodyWaits,
         s.channel[c].altOwner = NobodyWaits,
         \A q \in ExtProcess : c \notin s.guards[q] /\ s.chosen[q] # c,
         NEW t, t = [s EXCEPT !.channel[c] = Unregistered]
  PROVE  ExtGood(t) /\ Quiet(t)
<1>1. s \in ExtState /\ Places(s) /\ c \in Endpoint /\ s.fed[c] \in Int /\ s.sent[c] \in Int
  <2>1. s \in ExtState /\ c \in Endpoint
    BY DEF ExtGood, Registered
  <2> QED BY <2>1, EndpointFields DEF ExtGood
<1>2. SetsAccount(s, t, c, Unregistered, s.fed[c], s.sent[c])
  <2>1. s.fed = [s.fed EXCEPT ![c] = s.fed[c]] /\ s.sent = [s.sent EXCEPT ![c] = s.sent[c]]
    BY <1>1, StateFields
  <2> QED BY <1>1, <2>1 DEF SetsAccount, ExtState
<1>3. t \in ExtState /\ Account(s, t, c, Unregistered, s.fed[c], s.sent[c])
  <2>1. Unregistered \in ExtRecord \union {Unregistered}
    OBVIOUS
  <2> QED BY <1>1, <1>2, <2>1, AccountSet
<1>4. Near(s, t, NobodyWaits, c) /\ Places(t)
  BY <1>1, <1>3, AccountNear
<1>5. c \notin Registered(t)
  <2>1. t.channel[c] = Unregistered
    BY <1>3 DEF Account
  <2> QED BY <2>1 DEF Registered, Unregistered
<1>6. NobodyWaits \notin ExtProcess /\ NobodyWaits \in Somebody
  BY ExtConstants DEF Somebody
<1>7. SameUsers(s, t, NobodyWaits, c) /\ NoOthers(s, t, NobodyWaits, c)
  BY <1>5, <1>6 DEF SameUsers, NoOthers
<1>8. ExtGood(t)
  BY <1>3, <1>4, <1>5, <1>6, <1>7, NearGood
<1>9. Quiet(t)
  <2>1. SUFFICES ASSUME NEW d \in Registered(t) PROVE QuietAt(t, d)
    BY DEF Quiet
  <2>2. d # c
    BY <1>5
  <2>3. d \in Registered(s) /\ t.channel[d] = s.channel[d]
    BY <1>4, <2>2, NearRegistered DEF Near, Registered
  <2>4. QuietAt(s, d)
    BY <2>3 DEF Quiet
  <2> QED BY <1>3, <2>3, <2>4 DEF QuietAt, Waked, MayRelease, HandlerActive, SameMask, Account, Aside
<1> QED BY <1>8, <1>9

\* A channel of which only the bytes change, as the account does.
LEMMA BytesGood ==
  ASSUME NEW s, ExtGood(s), NEW c \in Registered(s), NEW g \in ExtRecord, NEW a \in Int, NEW b \in Int,
         g.waiter = s.channel[c].waiter, g.queued = s.channel[c].queued, g.length = s.channel[c].length,
         g.inputWait = s.channel[c].inputWait, g.altOwner = s.channel[c].altOwner,
         g.altWake = s.channel[c].altWake, g.altNotified = s.channel[c].altNotified,
         s.channel[c].input > 0 => g.input > 0,
         g.input = a + Pending(g, TRUE), g.output = b - Pending(g, FALSE),
         NEW t, SetsAccount(s, t, c, g, a, b)
  PROVE  ExtGood(t)
<1>1. s \in ExtState /\ Places(s) /\ c \in Endpoint
  BY DEF ExtGood, Registered
<1>2. t \in ExtState /\ Account(s, t, c, g, a, b)
  BY <1>1, AccountSet
<1>3. Near(s, t, NobodyWaits, c) /\ Places(t) /\ \A q \in ExtProcess : Awake(t, q) <=> Awake(s, q)
  BY <1>1, <1>2, AccountNear
<1>4. t.channel[c] = g
  BY <1>2 DEF Account
<1>5. c \in Registered(t)
  BY <1>1, <1>4, RecordFields DEF Registered
<1>6. NobodyWaits \notin ExtProcess /\ NobodyWaits \in Somebody
  BY ExtConstants DEF Somebody
<1>7. SameUsers(s, t, NobodyWaits, c) /\ SeesMore(s, t, c)
  BY <1>4, <1>5 DEF SameUsers, SeesMore
<1>8. BooksAt(t, c)
  BY <1>2 DEF BooksAt, Account
<1>9. WaitOk(t, c)
  <2> DEFINE w == s.channel[c].waiter
  <2>1. WaitOk(s, c) /\ w \in Somebody
    BY <1>1, RegisteredRecords, RecordFields DEF ExtGood, Waits
  <2>2. w # NobodyWaits => (Awake(t, w) <=> Awake(s, w))
    BY <1>3, <2>1 DEF Somebody
  <2>3. \A d \in Registered(t) : d \in Registered(s) /\ t.channel[d].waiter = s.channel[d].waiter
    BY <1>3, <1>4, NearRegistered DEF Near, Registered
  <2>4. t.phase = s.phase /\ t.canceled = s.canceled /\ t.running = s.running /\ t.chosen = s.chosen
    BY <1>2 DEF Account, Aside
  <2> QED BY <1>4, <2>1, <2>2, <2>3, <2>4 DEF WaitOk
<1> QED BY <1>2, <1>3, <1>6, <1>7, <1>8, <1>9, NearGood

\* What is pending is a number.
LEMMA PendingIsNumber ==
  ASSUME NEW e \in ExtRecord
  PROVE  Pending(e, TRUE) \in Int /\ Pending(e, FALSE) \in Int
<1>1. e.length \in 0 .. ExtCapacity /\ ExtCapacity \in Nat
  BY RecordFields, ExtConstants
<1>2. e.length \in Int /\ 0 \in Int
  BY <1>1
<1>3. ASSUME NEW b \in BOOLEAN PROVE Pending(e, b) \in Int
  BY <1>2 DEF Pending
<1> QED BY <1>3

\* Bytes from the host.
LEMMA FeedGood ==
  ASSUME NEW s, ExtGood(s), NEW c \in Registered(s), NEW n \in Lengths,
         n <= ExtCapacity - s.channel[c].input
  PROVE  ExtGood([s EXCEPT !.channel[c].input = @ + n, !.fed[c] = @ + n])
<1> DEFINE e == s.channel[c]
           g == [e EXCEPT !.input = e.input + n]
           t == [s EXCEPT !.channel[c].input = @ + n, !.fed[c] = @ + n]
<1>1. s \in ExtState /\ c \in Endpoint /\ e \in ExtRecord /\ BooksAt(s, c)
  BY RegisteredRecords DEF ExtGood, Registered, Books, BooksAt
<1>2. e.input \in 0 .. ExtCapacity /\ n \in 1 .. ExtCapacity /\ ExtCapacity \in Nat
  BY <1>1, RecordFields, ExtConstants
<1>3. s.fed[c] \in Int /\ s.sent[c] \in Int
  BY <1>1, EndpointFields
<1>4. e.input + n \in 0 .. ExtCapacity /\ e.input + n > 0 /\ n \in Int
  BY <1>2
<1>5. g \in ExtRecord
  BY <1>1, <1>4 DEF ExtRecord
<1>6. /\ g.waiter = e.waiter /\ g.queued = e.queued /\ g.length = e.length
      /\ g.inputWait = e.inputWait /\ g.altOwner = e.altOwner
      /\ g.altWake = e.altWake /\ g.altNotified = e.altNotified
      /\ g.input = e.input + n /\ g.output = e.output
  BY <1>1 DEF ExtRecord
<1>7. SetsAccount(s, t, c, g, s.fed[c] + n, s.sent[c])
  <2>1. s.sent = [s.sent EXCEPT ![c] = s.sent[c]]
    BY <1>1, StateFields
  <2> QED BY <1>1, <2>1 DEF SetsAccount, ExtState
<1>8. Pending(g, TRUE) = Pending(e, TRUE) /\ Pending(g, FALSE) = Pending(e, FALSE)
  BY <1>6 DEF Pending
<1>9. g.input = (s.fed[c] + n) + Pending(g, TRUE) /\ g.output = s.sent[c] - Pending(g, FALSE)
  <2> DEFINE x == Pending(e, TRUE)
             f == s.fed[c]
             i == e.input
  <2>1. x \in Int
    BY <1>1, PendingIsNumber
  <2>2. i = f + x /\ f \in Int /\ n \in Int
    BY <1>1, <1>3, <1>4 DEF BooksAt
  <2>3. i + n = (f + n) + x
    <3> HIDE DEF x, f, i
    <3> QED BY <2>1, <2>2
  <2>4. e.output = s.sent[c] - Pending(e, FALSE)
    BY <1>1 DEF BooksAt
  <2> QED BY <1>6, <1>8, <2>3, <2>4
<1>10. s.fed[c] + n \in Int
  BY <1>3, <1>4
<1> HIDE DEF t, g
<1>11. s.channel[c].input > 0 => g.input > 0
  BY <1>4, <1>6
<1>12. ExtGood(t)
  BY <1>3, <1>5, <1>6, <1>7, <1>9, <1>10, <1>11, BytesGood
<1> QED BY <1>12 DEF t

\* Bytes to the host.
LEMMA DrainGood ==
  ASSUME NEW s, ExtGood(s), NEW c \in Registered(s), NEW k \in Nat, k <= s.channel[c].output
  PROVE  ExtGood([s EXCEPT !.channel[c].output = @ - k, !.sent[c] = @ - k])
<1> DEFINE e == s.channel[c]
           g == [e EXCEPT !.output = e.output - k]
           t == [s EXCEPT !.channel[c].output = @ - k, !.sent[c] = @ - k]
<1>1. s \in ExtState /\ c \in Endpoint /\ e \in ExtRecord /\ BooksAt(s, c)
  BY RegisteredRecords DEF ExtGood, Registered, Books, BooksAt
<1>2. e.output \in 0 .. ExtCapacity /\ ExtCapacity \in Nat
  BY <1>1, RecordFields, ExtConstants
<1>3. s.fed[c] \in Int /\ s.sent[c] \in Int
  BY <1>1, EndpointFields
<1>4. e.output - k \in 0 .. ExtCapacity /\ k \in Int
  BY <1>2
<1>5. g \in ExtRecord
  BY <1>1, <1>4 DEF ExtRecord
<1>6. /\ g.waiter = e.waiter /\ g.queued = e.queued /\ g.length = e.length
      /\ g.inputWait = e.inputWait /\ g.altOwner = e.altOwner
      /\ g.altWake = e.altWake /\ g.altNotified = e.altNotified
      /\ g.input = e.input /\ g.output = e.output - k
  BY <1>1 DEF ExtRecord
<1>7. SetsAccount(s, t, c, g, s.fed[c], s.sent[c] - k)
  <2>1. s.fed = [s.fed EXCEPT ![c] = s.fed[c]]
    BY <1>1, StateFields
  <2> QED BY <1>1, <2>1 DEF SetsAccount, ExtState
<1>8. Pending(g, TRUE) = Pending(e, TRUE) /\ Pending(g, FALSE) = Pending(e, FALSE)
  BY <1>6 DEF Pending
<1>9. g.input = s.fed[c] + Pending(g, TRUE) /\ g.output = (s.sent[c] - k) - Pending(g, FALSE)
  <2> DEFINE x == Pending(e, FALSE)
             f == s.sent[c]
             o == e.output
  <2>1. x \in Int
    BY <1>1, PendingIsNumber
  <2>2. o = f - x /\ f \in Int /\ k \in Int
    BY <1>1, <1>3, <1>4 DEF BooksAt
  <2>3. o - k = (f - k) - x
    <3> HIDE DEF x, f, o
    <3> QED BY <2>1, <2>2
  <2>4. e.input = s.fed[c] + Pending(e, TRUE)
    BY <1>1 DEF BooksAt
  <2> QED BY <1>6, <1>8, <2>3, <2>4
<1>10. s.sent[c] - k \in Int
  BY <1>3, <1>4
<1> HIDE DEF t, g
<1>11. s.channel[c].input > 0 => g.input > 0
  BY <1>6
<1>12. ExtGood(t)
  BY <1>3, <1>5, <1>6, <1>7, <1>9, <1>10, <1>11, BytesGood
<1> QED BY <1>12 DEF t

-----------------------------------------------------------------------------
(***************************************************************************)
(* The instructions of the running process.                                *)
(***************************************************************************)

\* The fields of a process are set, and who runs.
SetsProcess(u, t, p, word, guards, phase, chosen, running) ==
  t = [u EXCEPT !.word = [u.word EXCEPT ![p] = word], !.guards = [u.guards EXCEPT ![p] = guards],
                !.phase = [u.phase EXCEPT ![p] = phase], !.chosen = [u.chosen EXCEPT ![p] = chosen],
                !.running = running]

\* Nothing else changes.
Apart(u, t, p) ==
  /\ \A q \in ExtProcess : q # p =>
       /\ t.word[q] = u.word[q] /\ t.guards[q] = u.guards[q]
       /\ t.phase[q] = u.phase[q] /\ t.chosen[q] = u.chosen[q]
  /\ t.channel = u.channel /\ t.fed = u.fed /\ t.sent = u.sent
  /\ t.canceled = u.canceled /\ t.handler = u.handler /\ t.ready = u.ready

\* And they are these.
Process(u, t, p, word, guards, phase, chosen, running) ==
  /\ t.word[p] = word /\ t.guards[p] = guards /\ t.phase[p] = phase /\ t.chosen[p] = chosen
  /\ t.running = running /\ Apart(u, t, p)

\* They are of the model.
Fields(word, guards, phase, chosen, running) ==
  /\ word \in {"ready", "enabling", "waiting"} /\ guards \subseteq Endpoint
  /\ phase \in {"none", "enabling", "disabling", "branch"}
  /\ chosen \in Endpoint \union {NobodyWaits} /\ running \in Somebody

\* And so is the state.
LEMMA ProcessSet ==
  ASSUME NEW u \in ExtState, NEW p \in ExtProcess, NEW word, NEW guards, NEW phase, NEW chosen,
         NEW running, Fields(word, guards, phase, chosen, running),
         NEW t, SetsProcess(u, t, p, word, guards, phase, chosen, running)
  PROVE  t \in ExtState /\ Process(u, t, p, word, guards, phase, chosen, running)
<1> DEFINE W == [u.word EXCEPT ![p] = word]
           G == [u.guards EXCEPT ![p] = guards]
           P == [u.phase EXCEPT ![p] = phase]
           C == [u.chosen EXCEPT ![p] = chosen]
<1>1. /\ u.word \in [ExtProcess -> {"ready", "enabling", "waiting"}]
      /\ u.guards \in [ExtProcess -> SUBSET Endpoint]
      /\ u.phase \in [ExtProcess -> {"none", "enabling", "disabling", "branch"}]
      /\ u.chosen \in [ExtProcess -> Endpoint \union {NobodyWaits}]
  BY StateFields
<1>2. /\ W \in [ExtProcess -> {"ready", "enabling", "waiting"}]
      /\ G \in [ExtProcess -> SUBSET Endpoint]
      /\ P \in [ExtProcess -> {"none", "enabling", "disabling", "branch"}]
      /\ C \in [ExtProcess -> Endpoint \union {NobodyWaits}]
      /\ running \in Somebody
  BY <1>1 DEF Fields
<1>3. /\ W[p] = word /\ G[p] = guards /\ P[p] = phase /\ C[p] = chosen
      /\ \A q \in ExtProcess : q # p =>
           W[q] = u.word[q] /\ G[q] = u.guards[q] /\ P[q] = u.phase[q] /\ C[q] = u.chosen[q]
  BY <1>1
<1>4. t = [u EXCEPT !.word = W, !.guards = G, !.phase = P, !.chosen = C, !.running = running]
  BY DEF SetsProcess
<1> HIDE DEF W, G, P, C
<1>5. t \in ExtState
  BY <1>2, <1>4 DEF ExtState
<1>6. /\ t.word = W /\ t.guards = G /\ t.phase = P /\ t.chosen = C /\ t.running = running
      /\ t.channel = u.channel /\ t.fed = u.fed /\ t.sent = u.sent
      /\ t.canceled = u.canceled /\ t.handler = u.handler /\ t.ready = u.ready
  BY <1>4 DEF ExtState
<1> QED BY <1>3, <1>5, <1>6 DEF Process, Apart

\* The running process stops.
LEMMA RunnerStops ==
  ASSUME NEW s \in ExtState, Places(s), NEW p \in ExtProcess, s.running = p, s.handler = NobodyWaits,
         NEW t \in ExtState, t.ready = s.ready, t.handler = s.handler, t.running = NobodyWaits
  PROVE  /\ Places(t) /\ ~Awake(t, p)
         /\ \A q \in ExtProcess : q # p => (Awake(t, q) <=> Awake(s, q))
<1>1. NobodyWaits \notin ExtProcess
  BY ExtConstants
<1>2. \A q : InReady(t, q) <=> InReady(s, q)
  BY DEF InReady
<1>3. Places(t)
  BY <1>2 DEF Places
<1> QED BY <1>1, <1>2, <1>3 DEF Places, Awake

\* The process runs on or stops, and what it selects is c.
Steps(s, t, p, c) ==
  t.running \in {p, NobodyWaits} /\ t.chosen[p] \in {c, NobodyWaits, s.chosen[p]}

\* The step of a process on a channel.
LEMMA ProcessNear ==
  ASSUME NEW s \in ExtState, Places(s), NEW p \in ExtProcess, s.running = p, s.handler = NobodyWaits,
         NEW c, NEW u, Aside(s, u, c), NEW t \in ExtState, Apart(u, t, p), Steps(s, t, p, c)
  PROVE  /\ Near(s, t, p, c) /\ Places(t) /\ p \in Somebody /\ p # NobodyWaits
         /\ (Awake(t, p) <=> t.running = p)
<1>1. p \in Somebody /\ p # NobodyWaits
  BY ExtConstants DEF Somebody
<1>2. /\ t.ready = s.ready /\ t.handler = s.handler /\ t.canceled = s.canceled
      /\ t.running \in {p, NobodyWaits}
  BY DEF Aside, Apart, Steps
<1>3. /\ Places(t) /\ (Awake(t, p) <=> t.running = p)
      /\ \A q \in ExtProcess : q # p => (Awake(t, q) <=> Awake(s, q))
  <2>1. CASE t.running = p
    BY <1>1, <1>2, <2>1 DEF Places, Awake, InReady
  <2>2. CASE t.running = NobodyWaits
    BY <1>1, <1>2, <2>2, RunnerStops
  <2> QED BY <1>2, <2>1, <2>2
<1>4. Near(s, t, p, c)
  <2>1. \A q \in ExtProcess : q # p => SameProcess(s, t, q)
    BY <1>3 DEF Aside, Apart, SameProcess
  <2>2. \A d \in Endpoint : d # c =>
          t.channel[d] = s.channel[d] /\ t.fed[d] = s.fed[d] /\ t.sent[d] = s.sent[d]
    BY DEF Aside, Apart
  <2> QED BY <1>1, <1>2, <2>1, <2>2 DEF Near, Steps
<1> QED BY <1>1, <1>3, <1>4

\* The alternative of a process that is not in one has no guards.
LEMMA NoAlternative ==
  ASSUME NEW s, ExtGood(s), NEW p \in ExtProcess, s.running = p, s.phase[p] \notin {"enabling", "disabling"}
  PROVE  s.guards[p] = {} /\ s.word[p] = "ready" /\ (s.phase[p] = "none" => s.chosen[p] = NobodyWaits)
<1>1. AltOk(s, p) /\ s.word[p] \in {"ready", "enabling", "waiting"}
  BY ProcessFields DEF ExtGood, Alts
<1> QED BY <1>1 DEF AltOk

\* What stays of the fields of a process.
LEMMA FieldsStay ==
  ASSUME NEW s \in ExtState, NEW p \in ExtProcess
  PROVE  /\ s.word = [s.word EXCEPT ![p] = s.word[p]] /\ s.guards = [s.guards EXCEPT ![p] = s.guards[p]]
         /\ s.phase = [s.phase EXCEPT ![p] = s.phase[p]] /\ s.chosen = [s.chosen EXCEPT ![p] = s.chosen[p]]
BY StateFields

\* Nothing of a channel changes.
LEMMA NothingAside == \A s, c : Aside(s, s, c)
BY DEF Aside

\* A step that changes no channel.
LEMMA NoChannel ==
  ASSUME NEW s, NEW t, NEW p
  PROVE  SameUsers(s, t, p, NobodyWaits) /\ NoOthers(s, t, p, NobodyWaits)
         /\ NobodyWaits \notin Registered(s) /\ NobodyWaits \notin Registered(t)
BY ExtConstants DEF SameUsers, NoOthers, Registered

\* An alternative starts.
LEMMA AlternativeGood ==
  ASSUME NEW s, ExtGood(s), NEW p \in ExtProcess, s.running = p, s.handler = NobodyWaits,
         s.phase[p] = "none"
  PROVE  ExtGood([s EXCEPT !.word[p] = "enabling", !.phase[p] = "enabling"])
<1> DEFINE t == [s EXCEPT !.word[p] = "enabling", !.phase[p] = "enabling"]
<1>1. s \in ExtState /\ Places(s) /\ s.guards[p] = {} /\ s.chosen[p] = NobodyWaits
  BY NoAlternative DEF ExtGood
<1>2. SetsProcess(s, t, p, "enabling", {}, "enabling", NobodyWaits, p)
  <2>1. s.guards = [s.guards EXCEPT ![p] = {}] /\ s.chosen = [s.chosen EXCEPT ![p] = NobodyWaits]
    BY <1>1, FieldsStay
  <2> QED BY <1>1, <2>1 DEF SetsProcess, ExtState
<1> HIDE DEF t
<1>3. t \in ExtState /\ Process(s, t, p, "enabling", {}, "enabling", NobodyWaits, p)
  <2>1. Fields("enabling", {}, "enabling", NobodyWaits, p)
    BY DEF Somebody, Fields
  <2> QED BY <1>1, <1>2, <2>1, ProcessSet
<1>4. /\ Near(s, t, p, NobodyWaits) /\ Places(t) /\ p \in Somebody /\ p # NobodyWaits
      /\ t.word[p] = "enabling" /\ t.guards[p] = {} /\ t.phase[p] = "enabling" /\ t.chosen[p] = NobodyWaits
      /\ Awake(t, p)
  <2>1. Aside(s, s, NobodyWaits) /\ Apart(s, t, p) /\ Steps(s, t, p, NobodyWaits)
    BY <1>3, NothingAside DEF Process, Steps
  <2>2. Near(s, t, p, NobodyWaits) /\ Places(t) /\ p \in Somebody /\ p # NobodyWaits
        /\ (Awake(t, p) <=> t.running = p)
    BY <1>1, <1>3, <2>1, ProcessNear
  <2> QED BY <1>3, <2>2 DEF Process
<1>5. AltOk(t, p) /\ SleepOk(t, p)
  <2>1. \A c \in Registered(t) : t.channel[c].altOwner # p
    <3>1. t.channel = s.channel
      BY <1>3 DEF Process, Apart
    <3>2. AltOk(s, p)
      BY DEF ExtGood, Alts
    <3> QED BY <1>1, <3>1, <3>2 DEF AltOk, Registered
  <2> QED BY <1>4, <2>1 DEF AltOk, SleepOk
<1>6. ExtGood(t)
  BY <1>3, <1>4, <1>5, NoChannel, NearGood
<1> QED BY <1>6 DEF t

\* The end of the enabling.
LEMMA AltWaitGood ==
  ASSUME NEW s, ExtGood(s), NEW p \in ExtProcess, s.running = p, s.handler = NobodyWaits,
         s.phase[p] = "enabling", s.guards[p] # {}, NEW t,
         \/ /\ s.word[p] = "ready" /\ t = [s EXCEPT !.phase[p] = "disabling", !.chosen[p] = NobodyWaits]
         \/ /\ s.word[p] # "ready"
            /\ t = [s EXCEPT !.phase[p] = "disabling", !.chosen[p] = NobodyWaits,
                             !.word[p] = "waiting", !.running = NobodyWaits]
  PROVE  ExtGood(t)
<1> DEFINE sleeps == s.word[p] # "ready"
           word == IF sleeps THEN "waiting" ELSE "ready"
           running == IF sleeps THEN NobodyWaits ELSE p
<1>1. /\ s \in ExtState /\ Places(s) /\ AltOk(s, p) /\ s.guards[p] \subseteq Endpoint
      /\ s.word[p] \in {"ready", "enabling", "waiting"} /\ Awake(s, p)
  <2>1. s \in ExtState
    BY DEF ExtGood
  <2> QED BY <2>1, ProcessFields DEF ExtGood, Alts, Awake
<1>2. SetsProcess(s, t, p, word, s.guards[p], "disabling", NobodyWaits, running)
  <2>1. s.guards = [s.guards EXCEPT ![p] = s.guards[p]] /\ s.word = [s.word EXCEPT ![p] = s.word[p]]
    BY <1>1, FieldsStay
  <2>2. CASE sleeps
    <3>1. t = [s EXCEPT !.phase[p] = "disabling", !.chosen[p] = NobodyWaits,
                        !.word[p] = "waiting", !.running = NobodyWaits]
      BY <2>2
    <3> QED BY <1>1, <2>1, <2>2, <3>1 DEF SetsProcess, ExtState
  <2>3. CASE ~sleeps
    <3>1. t = [s EXCEPT !.phase[p] = "disabling", !.chosen[p] = NobodyWaits]
      BY <2>3
    <3>2. word = s.word[p] /\ running = s.running
      BY <2>3
    <3> HIDE DEF word, running
    <3>3. s.word = [s.word EXCEPT ![p] = word] /\ s.guards = [s.guards EXCEPT ![p] = s.guards[p]]
      BY <2>1, <3>2
    <3>4. s.running = running
      BY <3>2
    <3> DEFINE P == [s.phase EXCEPT ![p] = "disabling"]
               C == [s.chosen EXCEPT ![p] = NobodyWaits]
               W == s.word
               G == s.guards
    <3>5. t = [s EXCEPT !.word = W, !.guards = G, !.phase = P, !.chosen = C, !.running = s.running]
      BY <1>1, <3>1 DEF ExtState
    <3> QED BY <3>3, <3>4, <3>5 DEF SetsProcess
  <2> QED BY <2>2, <2>3
<1>3. /\ word \in {"ready", "enabling", "waiting"} /\ running \in Somebody /\ running \in {p, NobodyWaits}
      /\ word = "waiting" => running = NobodyWaits /\ s.word[p] = "enabling"
      /\ word = "ready" => running = p /\ s.word[p] = "ready"
      /\ word \in {"waiting", "ready"}
  BY <1>1 DEF Somebody, AltOk
<1> HIDE DEF word, running
<1>4. t \in ExtState /\ Process(s, t, p, word, s.guards[p], "disabling", NobodyWaits, running)
  <2>1. Fields(word, s.guards[p], "disabling", NobodyWaits, running)
    BY <1>1, <1>3 DEF Fields
  <2> QED BY <1>1, <1>2, <2>1, ProcessSet
<1>5. /\ Near(s, t, p, NobodyWaits) /\ Places(t) /\ p \in Somebody /\ p # NobodyWaits
      /\ t.word[p] = word /\ t.guards[p] = s.guards[p] /\ t.phase[p] = "disabling"
      /\ t.chosen[p] = NobodyWaits /\ (Awake(t, p) <=> running = p)
  <2>1. Aside(s, s, NobodyWaits) /\ Apart(s, t, p) /\ Steps(s, t, p, NobodyWaits)
    BY <1>3, <1>4, NothingAside DEF Process, Steps
  <2>2. Near(s, t, p, NobodyWaits) /\ Places(t) /\ p \in Somebody /\ p # NobodyWaits
        /\ (Awake(t, p) <=> t.running = p)
    BY <1>1, <1>4, <2>1, ProcessNear
  <2> QED BY <1>4, <2>2 DEF Process
<1>6. t.channel = s.channel /\ Registered(t) = Registered(s)
  BY <1>4 DEF Process, Apart, Registered
<1>7. s.chosen[p] = NobodyWaits
  BY <1>1 DEF AltOk
<1>8. \A d \in s.guards[p] : ~Waked(t, d)
  BY <1>1, <1>6 DEF AltOk, Waked
<1>9. AltOk(t, p)
  BY <1>1, <1>3, <1>5, <1>6, <1>7, <1>8 DEF AltOk
<1>10. SleepOk(t, p)
  BY <1>3, <1>5 DEF SleepOk
<1> QED BY <1>4, <1>5, <1>9, <1>10, NoChannel, NearGood

\* The rule of one user at a time.
Uses(s, p, c) ==
  /\ c \in Registered(s)
  /\ {s.channel[c].waiter, s.channel[c].altOwner} \subseteq {p, NobodyWaits}
  /\ \A q \in ExtProcess \ {p} : c \notin s.guards[q] /\ s.chosen[q] # c

\* A process that runs and may use a channel is not waiting on it.
LEMMA UserWaitsNot ==
  ASSUME NEW s, ExtGood(s), NEW p \in ExtProcess, s.running = p, NEW c, Uses(s, p, c)
  PROVE  s.channel[c].waiter = NobodyWaits
<1>1. p # NobodyWaits
  BY ExtConstants
<1> QED BY <1>1, RunningWaitsNowhere DEF Uses

\* Another channel, and the accounts stay.
LEMMA ChannelAside ==
  ASSUME NEW s \in ExtState, NEW c \in Endpoint, NEW g \in ExtRecord, NEW u, SetsChannel(s, u, c, g)
  PROVE  /\ u \in ExtState /\ Aside(s, u, c) /\ u.channel[c] = g /\ u.fed = s.fed /\ u.sent = s.sent
         /\ u.word = s.word /\ u.guards = s.guards /\ u.phase = s.phase /\ u.chosen = s.chosen
<1>1. g \in ExtRecord \union {Unregistered}
  OBVIOUS
<1>2. /\ u \in ExtState /\ u.channel[c] = g /\ \A d \in Endpoint : d # c => u.channel[d] = s.channel[d]
      /\ SameRest(s, u) /\ u.running = s.running /\ u.handler = s.handler /\ u.ready = s.ready
  BY <1>1, AnotherChannel
<1> QED BY <1>2 DEF Aside, SameRest

\* A channel of the alternative is enabled.
LEMMA EnableGood ==
  ASSUME NEW s, ExtGood(s), NEW p \in ExtProcess, s.running = p, s.handler = NobodyWaits,
         s.phase[p] = "enabling", NEW c, Uses(s, p, c), c \notin s.guards[p]
  PROVE  ExtGood([s EXCEPT !.channel[c] = [@ EXCEPT !.altOwner = p, !.altWake = FALSE,
                                                    !.altNotified = FALSE],
                           !.guards[p] = @ \union {c}])
<1> DEFINE e == s.channel[c]
           g == [e EXCEPT !.altOwner = p, !.altWake = FALSE, !.altNotified = FALSE]
           C == [s.channel EXCEPT ![c] = g]
           G == [s.guards EXCEPT ![p] = s.guards[p] \union {c}]
           u == [s EXCEPT !.channel = C]
           t == [s EXCEPT !.channel[c] = [@ EXCEPT !.altOwner = p, !.altWake = FALSE,
                                                   !.altNotified = FALSE],
                          !.guards[p] = @ \union {c}]
<1>1. /\ s \in ExtState /\ Places(s) /\ AltOk(s, p) /\ s.guards[p] \subseteq Endpoint
      /\ s.word[p] \in {"ready", "enabling", "waiting"} /\ Awake(s, p)
      /\ e \in ExtRecord /\ c \in Endpoint /\ c \in Registered(s) /\ WaitOk(s, c) /\ BooksAt(s, c)
      /\ p \in Somebody /\ p # NobodyWaits /\ c # NobodyWaits
  <2>1. s \in ExtState /\ c \in Registered(s) /\ c \in Endpoint
    BY DEF ExtGood, Uses, Registered
  <2> QED BY <2>1, ProcessFields, RegisteredRecords, ExtConstants
          DEF ExtGood, Alts, Waits, Books, BooksAt, Awake
<1>2. e.waiter = NobodyWaits /\ e.altOwner = NobodyWaits /\ s.chosen[p] = NobodyWaits
  <2>1. e.altOwner # p /\ s.chosen[p] = NobodyWaits
    BY <1>1 DEF AltOk
  <2> QED BY <2>1, UserWaitsNot DEF Uses
<1>3. /\ g \in ExtRecord /\ g.waiter = e.waiter /\ g.queued = e.queued /\ g.length = e.length
      /\ g.inputWait = e.inputWait /\ g.altOwner = p /\ g.altWake = FALSE /\ g.altNotified = FALSE
      /\ g.input = e.input /\ g.output = e.output
  BY <1>1 DEF ExtRecord
<1>4. t = [s EXCEPT !.channel = C, !.guards = G]
  BY <1>1 DEF ExtState
<1>5. SetsChannel(s, u, c, g)
  <2> HIDE DEF g
  <2> QED BY DEF SetsChannel
<1> HIDE DEF g, t
<1>6. SetsProcess(u, t, p, s.word[p], s.guards[p] \union {c}, "enabling", NobodyWaits, p)
  <2>1. s.word = [s.word EXCEPT ![p] = s.word[p]] /\ s.phase = [s.phase EXCEPT ![p] = "enabling"]
        /\ s.chosen = [s.chosen EXCEPT ![p] = NobodyWaits]
    BY <1>1, <1>2, FieldsStay
  <2>2. u.word = s.word /\ u.guards = s.guards /\ u.phase = s.phase /\ u.chosen = s.chosen
    BY <1>1 DEF ExtState
  <2> HIDE DEF C
  <2>3. t = [u EXCEPT !.word = s.word, !.guards = G, !.phase = s.phase, !.chosen = s.chosen, !.running = s.running]
    BY <1>1, <1>4 DEF ExtState
  <2> HIDE DEF u
  <2> QED BY <2>1, <2>2, <2>3 DEF SetsProcess
<1> HIDE DEF u, C, G
<1>7. /\ u \in ExtState /\ Aside(s, u, c) /\ u.channel[c] = g /\ u.fed = s.fed /\ u.sent = s.sent
  BY <1>1, <1>3, <1>5, ChannelAside
<1>8. t \in ExtState /\ Process(u, t, p, s.word[p], s.guards[p] \union {c}, "enabling", NobodyWaits, p)
  <2>1. Fields(s.word[p], s.guards[p] \union {c}, "enabling", NobodyWaits, p)
    BY <1>1 DEF Fields
  <2> QED BY <1>6, <1>7, <2>1, ProcessSet
<1>9. /\ Near(s, t, p, c) /\ Places(t) /\ Awake(t, p)
      /\ t.channel[c] = g /\ t.fed[c] = s.fed[c] /\ t.sent[c] = s.sent[c]
      /\ t.word[p] = s.word[p] /\ t.guards[p] = s.guards[p] \union {c} /\ t.phase[p] = "enabling"
      /\ t.chosen[p] = NobodyWaits
  <2>1. Apart(u, t, p) /\ Steps(s, t, p, c)
    BY <1>8 DEF Process, Steps
  <2>2. Near(s, t, p, c) /\ Places(t) /\ (Awake(t, p) <=> t.running = p)
    BY <1>1, <1>7, <1>8, <2>1, ProcessNear
  <2> QED BY <1>7, <1>8, <2>2 DEF Process, Apart
<1>10. c \in Registered(t)
  BY <1>1, <1>3, <1>9, RecordFields DEF Registered
<1>11. SameUsers(s, t, p, c) /\ NoOthers(s, t, p, c)
  <2>1. NobodyWaits \notin ExtProcess
    BY ExtConstants
  <2>2. SameUsers(s, t, p, c)
    BY <1>2, <1>3, <1>9, <2>1 DEF SameUsers
  <2>3. NoOthers(s, t, p, c)
    BY <1>3, <1>9 DEF NoOthers, Uses
  <2> QED BY <2>2, <2>3
<1>12. WaitOk(t, c) /\ BooksAt(t, c)
  <2>1. WaitOk(t, c)
    BY <1>1, <1>2, <1>3, <1>9 DEF WaitOk
  <2>2. Pending(g, TRUE) = Pending(e, TRUE) /\ Pending(g, FALSE) = Pending(e, FALSE)
    BY <1>3 DEF Pending
  <2> QED BY <1>1, <1>3, <1>9, <2>1, <2>2 DEF BooksAt
<1>13. \A d \in Registered(t) : d \in Registered(s)
  BY <1>1, <1>9, NearRegistered DEF Registered
<1>14. \A d \in s.guards[p] : t.channel[d] = s.channel[d] /\ d # c /\ d \in Registered(t)
  <2>1. TAKE d \in s.guards[p]
  <2>2. d \in Endpoint /\ d # c /\ d \in Registered(s)
    BY <1>1 DEF AltOk
  <2>3. d \in Registered(t)
    BY <1>9, <2>2, NearRegistered
  <2> QED BY <1>9, <2>2, <2>3 DEF Near
<1>15. \A d \in Endpoint : (d \in s.guards[p] \union {c}) <=> (d \in Registered(t) /\ t.channel[d].altOwner = p)
  <2>1. TAKE d \in Endpoint
  <2>2. CASE d = c
    BY <1>3, <1>9, <1>10, <2>2
  <2>3. CASE d # c
    <3>1. t.channel[d] = s.channel[d] /\ (d \in Registered(t) <=> d \in Registered(s))
      BY <1>9, <2>3, NearRegistered DEF Near
    <3> QED BY <1>1, <2>3, <3>1 DEF AltOk
  <2> QED BY <2>2, <2>3
<1>16. AltOk(t, p) /\ SleepOk(t, p)
  <2>1. \A d \in s.guards[p] : ~Waked(s, d)
    BY <1>1 DEF AltOk
  <2>2. \A d \in s.guards[p] \union {c} : ~Waked(t, d)
    BY <1>3, <1>9, <1>14, <2>1 DEF Waked
  <2>3. s.word[p] \in {"enabling", "waiting"} =>
          \A d \in s.guards[p] \union {c} : ~t.channel[d].altWake /\ ~t.channel[d].altNotified
    BY <1>1, <1>3, <1>9, <1>14 DEF AltOk
  <2>4. s.word[p] = "ready" => \E d \in s.guards[p] \union {c} : t.channel[d].input > 0
    BY <1>1, <1>2, <1>14 DEF AltOk
  <2>5. s.word[p] # "waiting"
    BY <1>1 DEF AltOk
  <2> QED BY <1>9, <1>15, <2>2, <2>3, <2>4, <2>5 DEF AltOk, SleepOk
<1>17. ExtGood(t)
  BY <1>1, <1>8, <1>9, <1>11, <1>12, <1>16, NearGood
<1> QED BY <1>17 DEF t

\* A channel of the alternative is disabled, and perhaps selected.
LEMMA DisableGood ==
  ASSUME NEW s, ExtGood(s), NEW p \in ExtProcess, s.running = p, s.handler = NobodyWaits,
         s.phase[p] = "disabling", NEW c \in s.guards[p], NEW selects,
         selects = (s.channel[c].input > 0 /\ s.chosen[p] = NobodyWaits)
  PROVE  ExtGood([s EXCEPT !.guards[p] = @ \ {c}, !.chosen[p] = IF selects THEN c ELSE @,
                           !.phase[p] = IF s.guards[p] = {c} THEN "branch" ELSE @,
                           !.channel[c] = IF @.altOwner = p
                                          THEN [@ EXCEPT !.altOwner = NobodyWaits, !.altWake = FALSE,
                                                         !.altNotified = FALSE] ELSE @])
<1> DEFINE e == s.channel[c]
           g == [e EXCEPT !.altOwner = NobodyWaits, !.altWake = FALSE, !.altNotified = FALSE]
           chosen == IF selects THEN c ELSE s.chosen[p]
           phase == IF s.guards[p] = {c} THEN "branch" ELSE s.phase[p]
           left == s.guards[p] \ {c}
           C == [s.channel EXCEPT ![c] = g]
           u == [s EXCEPT !.channel = C]
           t == [s EXCEPT !.guards[p] = @ \ {c}, !.chosen[p] = IF selects THEN c ELSE @,
                          !.phase[p] = IF s.guards[p] = {c} THEN "branch" ELSE @,
                          !.channel[c] = IF @.altOwner = p
                                         THEN [@ EXCEPT !.altOwner = NobodyWaits, !.altWake = FALSE,
                                                        !.altNotified = FALSE] ELSE @]
<1>1. /\ s \in ExtState /\ Places(s) /\ AltOk(s, p) /\ s.guards[p] \subseteq Endpoint
      /\ s.word[p] \in {"ready", "enabling", "waiting"} /\ Awake(s, p)
      /\ s.chosen[p] \in Endpoint \union {NobodyWaits}
      /\ e \in ExtRecord /\ c \in Endpoint /\ c \in Registered(s) /\ WaitOk(s, c) /\ BooksAt(s, c)
      /\ p \in Somebody /\ p # NobodyWaits /\ c # NobodyWaits /\ NobodyWaits \notin ExtProcess
      /\ e.altOwner = p
  <2>1. s \in ExtState
    BY DEF ExtGood
  <2>2. AltOk(s, p) /\ s.guards[p] \subseteq Endpoint
    BY <2>1, ProcessFields DEF ExtGood, Alts
  <2>3. c \in Registered(s) /\ c \in Endpoint /\ e.altOwner = p
    BY <2>2 DEF AltOk
  <2> QED BY <2>1, <2>2, <2>3, ProcessFields, RegisteredRecords, ExtConstants
          DEF ExtGood, Alts, Waits, Books, BooksAt, Awake
<1>2. e.waiter = NobodyWaits /\ s.word[p] = "ready"
  <2>1. e.waiter = NobodyWaits
    BY <1>1 DEF WaitOk
  <2> QED BY <1>1, <2>1 DEF AltOk
<1>3. /\ g \in ExtRecord /\ g.waiter = e.waiter /\ g.queued = e.queued /\ g.length = e.length
      /\ g.inputWait = e.inputWait /\ g.altOwner = NobodyWaits /\ g.altWake = FALSE
      /\ g.altNotified = FALSE /\ g.input = e.input /\ g.output = e.output
  <2>1. NobodyWaits \in Somebody
    BY DEF Somebody
  <2> QED BY <1>1, <2>1 DEF ExtRecord
<1>4. t = [s EXCEPT !.channel = C, !.guards = [s.guards EXCEPT ![p] = left],
                    !.chosen = [s.chosen EXCEPT ![p] = chosen], !.phase = [s.phase EXCEPT ![p] = phase]]
  BY <1>1 DEF ExtState
<1>5. SetsChannel(s, u, c, g)
  BY DEF SetsChannel
<1>6. /\ phase \in {"disabling", "branch"} /\ ((phase = "branch") <=> (left = {}))
      /\ selects => chosen = c /\ e.input > 0 /\ s.chosen[p] = NobodyWaits
      /\ ~selects => chosen = s.chosen[p] /\ ~(e.input > 0 /\ s.chosen[p] = NobodyWaits)
      /\ chosen \in Endpoint \union {NobodyWaits} /\ chosen \in {c, NobodyWaits, s.chosen[p]}
      /\ left \subseteq Endpoint /\ c \notin left /\ left \subseteq s.guards[p]
      /\ \A d \in s.guards[p] : d # c => d \in left
  BY <1>1
<1> HIDE DEF g, t, chosen, phase, left
<1>7. SetsProcess(u, t, p, s.word[p], left, phase, chosen, p)
  <2>1. s.word = [s.word EXCEPT ![p] = s.word[p]]
    BY <1>1, FieldsStay
  <2>2. u.word = s.word /\ u.guards = s.guards /\ u.phase = s.phase /\ u.chosen = s.chosen
    BY <1>1 DEF ExtState
  <2> HIDE DEF C
  <2> DEFINE G == [s.guards EXCEPT ![p] = left]
             H == [s.chosen EXCEPT ![p] = chosen]
             P == [s.phase EXCEPT ![p] = phase]
  <2>3. t = [s EXCEPT !.channel = C, !.guards = G, !.chosen = H, !.phase = P]
    BY <1>4
  <2> HIDE DEF G, H, P
  <2>4. t = [u EXCEPT !.word = s.word, !.guards = G, !.phase = P, !.chosen = H, !.running = s.running]
    BY <1>1, <2>3 DEF ExtState
  <2> HIDE DEF u
  <2> QED BY <2>1, <2>2, <2>4 DEF SetsProcess, G, H, P
<1> HIDE DEF u, C
<1>8. /\ u \in ExtState /\ Aside(s, u, c) /\ u.channel[c] = g /\ u.fed = s.fed /\ u.sent = s.sent
  BY <1>1, <1>3, <1>5, ChannelAside
<1>9. t \in ExtState /\ Process(u, t, p, s.word[p], left, phase, chosen, p)
  <2>1. Fields(s.word[p], left, phase, chosen, p)
    BY <1>1, <1>6 DEF Fields
  <2> QED BY <1>7, <1>8, <2>1, ProcessSet
<1>10. /\ Near(s, t, p, c) /\ Places(t) /\ Awake(t, p)
       /\ t.channel[c] = g /\ t.fed[c] = s.fed[c] /\ t.sent[c] = s.sent[c]
       /\ t.word[p] = "ready" /\ t.guards[p] = left /\ t.phase[p] = phase /\ t.chosen[p] = chosen
  <2>1. Apart(u, t, p) /\ Steps(s, t, p, c)
    BY <1>6, <1>9 DEF Process, Steps
  <2>2. Near(s, t, p, c) /\ Places(t) /\ (Awake(t, p) <=> t.running = p)
    BY <1>1, <1>8, <1>9, <2>1, ProcessNear
  <2> QED BY <1>2, <1>8, <1>9, <2>2 DEF Process, Apart
<1>11. c \in Registered(t)
  BY <1>1, <1>3, <1>10, RecordFields DEF Registered
<1>12. SameUsers(s, t, p, c)
  BY <1>1, <1>2, <1>3, <1>10 DEF SameUsers
<1>13. NoOthers(s, t, p, c)
  <2>1. ASSUME NEW q \in ExtProcess, q # p PROVE c \notin s.guards[q] /\ s.chosen[q] # c
    <3>1. AltOk(s, q)
      BY DEF ExtGood, Alts
    <3> QED BY <1>1, <2>1, <3>1 DEF AltOk
  <2> QED BY <1>1, <1>3, <1>10, <2>1 DEF NoOthers
<1>14. WaitOk(t, c) /\ BooksAt(t, c)
  <2>1. WaitOk(t, c)
    BY <1>1, <1>2, <1>3, <1>10 DEF WaitOk
  <2>2. Pending(g, TRUE) = Pending(e, TRUE) /\ Pending(g, FALSE) = Pending(e, FALSE)
    BY <1>3 DEF Pending
  <2> QED BY <1>1, <1>3, <1>10, <2>1, <2>2 DEF BooksAt
<1>15. \A d \in Endpoint : d # c => t.channel[d] = s.channel[d] /\ ((d \in Registered(t)) <=> (d \in Registered(s)))
  BY <1>10, NearRegistered DEF Near
<1>16. \A d \in Endpoint : (d \in left) <=> (d \in Registered(t) /\ t.channel[d].altOwner = p)
  <2>1. TAKE d \in Endpoint
  <2>2. CASE d = c
    BY <1>1, <1>3, <1>6, <1>10, <2>2
  <2>3. CASE d # c
    BY <1>1, <1>6, <1>15, <2>3 DEF AltOk
  <2> QED BY <2>2, <2>3
<1>17. \A d \in left : ~Waked(t, d)
  <2>1. TAKE d \in left
  <2>2. ~Waked(s, d)
    BY <1>1, <1>6 DEF AltOk
  <2> QED BY <1>6, <1>15, <2>2 DEF Waked
<1>18. chosen # NobodyWaits =>
         chosen \in Registered(t) /\ t.channel[chosen].input > 0 /\ t.channel[chosen].altOwner = NobodyWaits
  <2>1. CASE selects
    BY <1>3, <1>6, <1>10, <1>11, <2>1
  <2>2. CASE ~selects
    <3>1. SUFFICES ASSUME s.chosen[p] # NobodyWaits
                   PROVE  /\ s.chosen[p] \in Registered(t) /\ t.channel[s.chosen[p]].input > 0
                          /\ t.channel[s.chosen[p]].altOwner = NobodyWaits
      BY <1>6, <2>2
    <3> DEFINE d == s.chosen[p]
    <3>2. /\ d \in Registered(s) /\ s.channel[d].input > 0 /\ s.channel[d].altOwner = NobodyWaits
          /\ d \in Endpoint
      BY <1>1, <3>1 DEF AltOk
    <3>3. d # c
      BY <1>1, <3>2
    <3> QED BY <1>15, <3>2, <3>3
  <2> QED BY <2>1, <2>2
<1>19. chosen = NobodyWaits => \E d \in left : t.channel[d].input > 0
  <2>1. SUFFICES ASSUME chosen = NobodyWaits PROVE \E d \in left : t.channel[d].input > 0
    OBVIOUS
  <2>2. s.chosen[p] = NobodyWaits /\ ~(e.input > 0)
    BY <1>1, <1>6, <2>1
  <2>3. PICK d \in s.guards[p] : s.channel[d].input > 0
    BY <1>1, <1>2, <2>2 DEF AltOk
  <2>4. d # c
    BY <2>2, <2>3
  <2> QED BY <1>1, <1>6, <1>15, <2>3, <2>4
<1>20. AltOk(t, p) /\ SleepOk(t, p)
  <2>1. phase = "branch" => chosen # NobodyWaits
    BY <1>6, <1>19
  <2> QED BY <1>6, <1>10, <1>16, <1>17, <1>18, <1>19, <2>1 DEF AltOk, SleepOk
<1>21. ExtGood(t)
  BY <1>1, <1>9, <1>10, <1>12, <1>13, <1>14, <1>20, NearGood
<1> QED BY <1>21 DEF t

\* A transfer is done, or the process sleeps for it.
LEMMA TransferStepGood ==
  ASSUME NEW s, ExtGood(s), NEW p \in ExtProcess, s.running = p, s.handler = NobodyWaits,
         s.phase[p] \notin {"enabling", "disabling"}, NEW c, Uses(s, p, c),
         NEW g \in ExtRecord, g.altOwner = s.channel[c].altOwner, g.queued = FALSE,
         NEW running, \/ running = p /\ g.waiter = NobodyWaits
                      \/ running = NobodyWaits /\ g.waiter = p,
         NEW a \in Int, NEW b \in Int,
         g.input = a + Pending(g, TRUE), g.output = b - Pending(g, FALSE),
         NEW u, SetsAccount(s, u, c, g, a, b),
         NEW t, SetsProcess(u, t, p, "ready", {}, "none", NobodyWaits, running)
  PROVE  ExtGood(t)
<1> DEFINE e == s.channel[c]
<1>1. /\ s \in ExtState /\ Places(s) /\ AltOk(s, p) /\ s.guards[p] = {} /\ s.word[p] = "ready"
      /\ c \in Endpoint /\ c \in Registered(s) /\ c # NobodyWaits
      /\ p \in Somebody /\ p # NobodyWaits /\ NobodyWaits \notin ExtProcess /\ NobodyWaits \in Somebody
      /\ s.canceled # p
  <2>1. s \in ExtState /\ c \in Registered(s) /\ c \in Endpoint
    BY DEF ExtGood, Uses, Registered
  <2>2. p # NobodyWaits
    BY ExtConstants
  <2> QED BY <2>1, <2>2, NoAlternative, RunningWaitsNowhere, ExtConstants DEF ExtGood, Alts, Somebody
<1>2. e.waiter = NobodyWaits /\ e.altOwner = NobodyWaits
  <2>1. e.altOwner # p
    BY <1>1 DEF AltOk
  <2> QED BY <2>1, UserWaitsNot DEF Uses
<1>3. u \in ExtState /\ Account(s, u, c, g, a, b)
  <2>1. g \in ExtRecord \union {Unregistered}
    OBVIOUS
  <2> QED BY <1>1, <2>1, AccountSet
<1>4. t \in ExtState /\ Process(u, t, p, "ready", {}, "none", NobodyWaits, running)
  <2>1. Fields("ready", {}, "none", NobodyWaits, running)
    BY <1>1 DEF Fields
  <2> QED BY <1>3, <2>1, ProcessSet
<1>5. /\ Near(s, t, p, c) /\ Places(t) /\ (Awake(t, p) <=> running = p)
      /\ t.channel[c] = g /\ t.fed[c] = a /\ t.sent[c] = b
      /\ t.word[p] = "ready" /\ t.guards[p] = {} /\ t.phase[p] = "none" /\ t.chosen[p] = NobodyWaits
      /\ t.running = running /\ t.canceled = s.canceled
  <2>1. Aside(s, u, c) /\ Apart(u, t, p) /\ Steps(s, t, p, c)
    BY <1>3, <1>4 DEF Account, Process, Steps
  <2>2. Near(s, t, p, c) /\ Places(t) /\ (Awake(t, p) <=> t.running = p)
    BY <1>1, <1>4, <2>1, ProcessNear
  <2> QED BY <1>3, <1>4, <2>2 DEF Account, Process, Apart, Near
<1>6. c \in Registered(t)
  BY <1>1, <1>5, RecordFields DEF Registered
<1>7. SameUsers(s, t, p, c) /\ NoOthers(s, t, p, c)
  <2>1. SameUsers(s, t, p, c)
    BY <1>1, <1>2, <1>5 DEF SameUsers
  <2>2. NoOthers(s, t, p, c)
    BY <1>1, <1>2, <1>5 DEF NoOthers, Uses
  <2> QED BY <2>1, <2>2
<1>8. BooksAt(t, c)
  BY <1>5 DEF BooksAt
<1>9. WaitOk(t, c)
  <2>1. CASE running = p /\ g.waiter = NobodyWaits
    BY <1>5, <2>1 DEF WaitOk
  <2>2. CASE running = NobodyWaits /\ g.waiter = p
    <3>1. \A d \in Registered(t) : t.channel[d].waiter = p => d = c
      <4>1. SUFFICES ASSUME NEW d \in Registered(t), d # c PROVE t.channel[d].waiter # p
        OBVIOUS
      <4>2. d \in Registered(s) /\ t.channel[d] = s.channel[d]
        BY <1>5, <4>1, NearRegistered DEF Near, Registered
      <4> QED BY <1>1, <4>2, RunningWaitsNowhere
    <3>2. \A q \in ExtProcess : t.chosen[q] # c
      <4>1. TAKE q \in ExtProcess
      <4>2. q # p => t.chosen[q] = s.chosen[q]
        BY <1>5 DEF Near, SameProcess
      <4> QED BY <1>1, <1>5, <4>2 DEF Uses
    <3>3. ~Awake(t, p)
      BY <1>1, <1>5, <2>2
    <3> QED BY <1>1, <1>2, <1>5, <2>2, <3>1, <3>2, <3>3 DEF WaitOk
  <2> QED BY <2>1, <2>2
<1>10. AltOk(t, p)
  <2>1. \A d \in Endpoint : ~(d \in Registered(t) /\ t.channel[d].altOwner = p)
    <3>1. TAKE d \in Endpoint
    <3>2. CASE d = c
      BY <1>1, <1>2, <1>5, <3>2
    <3>3. CASE d # c
      <4>1. (d \in Registered(t)) <=> (d \in Registered(s))
        BY <1>5, <3>3, NearRegistered
      <4>2. t.channel[d] = s.channel[d]
        BY <1>5, <3>3 DEF Near
      <4> QED BY <1>1, <4>1, <4>2 DEF AltOk
    <3> QED BY <3>2, <3>3
  <2> QED BY <1>5, <2>1 DEF AltOk
<1>11. SleepOk(t, p)
  <2>1. Awake(t, p) \/ (c \in Registered(t) /\ t.channel[c].waiter = p)
    BY <1>5, <1>6
  <2> QED BY <2>1 DEF SleepOk
<1> QED BY <1>1, <1>4, <1>5, <1>7, <1>8, <1>9, <1>10, <1>11, NearGood

\* What a transfer leaves in the accounts, and of an alternative that asks for it.
Asked(s, p, c, n, input) ==
  IF input THEN [s EXCEPT !.fed[c] = @ - n, !.chosen[p] = NobodyWaits] ELSE [s EXCEPT !.sent[c] = @ + n]

\* The accounts, and the selection of the process.
AskedFed(s, c, n, input) == [s.fed EXCEPT ![c] = IF input THEN s.fed[c] - n ELSE s.fed[c]]
AskedSent(s, c, n, input) == [s.sent EXCEPT ![c] = IF input THEN s.sent[c] ELSE s.sent[c] + n]
AskedChosen(s, p) == [s.chosen EXCEPT ![p] = NobodyWaits]

\* It sets these.
AskedSets(s, t, p, c, n, input) ==
  t = [s EXCEPT !.fed = AskedFed(s, c, n, input), !.sent = AskedSent(s, c, n, input),
                !.chosen = AskedChosen(s, p)]

\* As the accounts of one step.
LEMMA AskedFields ==
  ASSUME NEW s \in ExtState, NEW p \in ExtProcess, NEW c \in Endpoint, NEW n, NEW input \in BOOLEAN,
         ~input => s.chosen[p] = NobodyWaits
  PROVE  AskedSets(s, Asked(s, p, c, n, input), p, c, n, input)
<1> DEFINE F == AskedFed(s, c, n, input)
           G == AskedSent(s, c, n, input)
           H == AskedChosen(s, p)
<1>1. /\ s.fed \in [Endpoint -> Int] /\ s.sent \in [Endpoint -> Int]
      /\ s.chosen \in [ExtProcess -> Endpoint \union {NobodyWaits}]
  BY StateFields
<1>2. CASE input
  <2>1. G = s.sent /\ F = [s.fed EXCEPT ![c] = s.fed[c] - n]
    BY <1>1, <1>2 DEF AskedFed, AskedSent
  <2> QED BY <1>2, <2>1 DEF Asked, AskedSets, AskedChosen, ExtState
<1>3. CASE ~input
  <2>1. F = s.fed /\ H = s.chosen /\ G = [s.sent EXCEPT ![c] = s.sent[c] + n]
    BY <1>1, <1>3 DEF AskedFed, AskedSent, AskedChosen
  <2> QED BY <1>3, <2>1 DEF Asked, AskedSets, ExtState
<1> QED BY <1>2, <1>3

\* The step of a transfer: the process runs on, or stops.
TransferStep(s, t, p, c, n, input, g, running) ==
  \/ /\ running = p
     /\ t = [Asked(s, p, c, n, input) EXCEPT !.channel[c] = g, !.phase[p] = "none"]
  \/ /\ running = NobodyWaits
     /\ t = SuspendExternal([Asked(s, p, c, n, input) EXCEPT !.channel[c] = g, !.phase[p] = "none"], p)

\* In accounts and fields of the process.
InTwo(s, t, p, c, n, input, g, running) ==
  \E u : /\ SetsAccount(s, u, c, g, IF input THEN s.fed[c] - n ELSE s.fed[c],
                                    IF input THEN s.sent[c] ELSE s.sent[c] + n)
         /\ SetsProcess(u, t, p, "ready", {}, "none", NobodyWaits, running)

\* It is both.
LEMMA TransferFieldsSet ==
  ASSUME NEW s, ExtGood(s), NEW p \in ExtProcess, s.running = p, s.phase[p] \notin {"enabling", "disabling"},
         NEW c \in Endpoint, NEW n, NEW input \in BOOLEAN, ~input => s.phase[p] = "none",
         NEW g, NEW running, NEW t, TransferStep(s, t, p, c, n, input, g, running)
  PROVE  InTwo(s, t, p, c, n, input, g, running)
<1> DEFINE F == AskedFed(s, c, n, input)
           G == AskedSent(s, c, n, input)
           H == AskedChosen(s, p)
           C == [s.channel EXCEPT ![c] = g]
           P == [s.phase EXCEPT ![p] = "none"]
           u == [s EXCEPT !.channel = C, !.fed = F, !.sent = G]
           asked == Asked(s, p, c, n, input)
<1>1. s \in ExtState /\ s.guards[p] = {} /\ s.word[p] = "ready" /\ (s.phase[p] = "none" => s.chosen[p] = NobodyWaits)
  BY NoAlternative DEF ExtGood
<1>2. asked = [s EXCEPT !.fed = F, !.sent = G, !.chosen = H]
  <2>1. ~input => s.chosen[p] = NobodyWaits
    BY <1>1
  <2>2. AskedSets(s, Asked(s, p, c, n, input), p, c, n, input)
    BY <1>1, <2>1, AskedFields
  <2> QED BY <2>2 DEF AskedSets
<1>3. SetsAccount(s, u, c, g, IF input THEN s.fed[c] - n ELSE s.fed[c],
                              IF input THEN s.sent[c] ELSE s.sent[c] + n)
  BY DEF SetsAccount, AskedFed, AskedSent
<1>4. s.word = [s.word EXCEPT ![p] = "ready"] /\ s.guards = [s.guards EXCEPT ![p] = {}]
  BY <1>1, FieldsStay
<1> HIDE DEF F, G, H, asked
<1>5. /\ asked.channel = s.channel /\ asked.phase = s.phase /\ asked.running = s.running
  BY <1>1, <1>2 DEF ExtState
<1>6. [asked EXCEPT !.channel[c] = g, !.phase[p] = "none"]
        = [s EXCEPT !.channel = C, !.fed = F, !.sent = G, !.chosen = H, !.phase = P]
  BY <1>1, <1>2, <1>5 DEF ExtState
<1>7. t = [s EXCEPT !.channel = C, !.fed = F, !.sent = G, !.chosen = H, !.phase = P, !.running = running]
  <2> HIDE DEF C, P
  <2>1. CASE running = p
    <3>1. t = [s EXCEPT !.channel = C, !.fed = F, !.sent = G, !.chosen = H, !.phase = P]
      BY <1>6, <2>1, ExtConstants DEF TransferStep, asked
    <3>2. running = s.running
      BY <2>1
    <3> QED BY <1>1, <3>1, <3>2 DEF ExtState
  <2>2. CASE running # p
    <3>1. t = [[asked EXCEPT !.channel[c] = g, !.phase[p] = "none"] EXCEPT !.running = running]
      BY <2>2 DEF TransferStep, SuspendExternal, asked
    <3> QED BY <1>1, <1>6, <3>1 DEF ExtState
  <2> QED BY <2>1, <2>2
<1>8. /\ u.word = s.word /\ u.guards = s.guards /\ u.phase = s.phase /\ u.chosen = s.chosen
  BY <1>1 DEF ExtState
<1> HIDE DEF C
<1>9. t = [u EXCEPT !.word = s.word, !.guards = s.guards, !.phase = P, !.chosen = H, !.running = running]
  <2> HIDE DEF P
  <2> QED BY <1>1, <1>7 DEF ExtState
<1> HIDE DEF u
<1>10. SetsProcess(u, t, p, "ready", {}, "none", NobodyWaits, running)
  BY <1>4, <1>8, <1>9 DEF SetsProcess, AskedChosen, H, P
<1> QED BY <1>3, <1>10 DEF InTwo

\* A channel that nobody waits on: its account is its bytes.
LEMMA UsedAccount ==
  ASSUME NEW s, ExtGood(s), NEW p \in ExtProcess, s.running = p, NEW c, Uses(s, p, c)
  PROVE  /\ s \in ExtState /\ c \in Endpoint /\ s.channel[c] \in ExtRecord
         /\ s.channel[c].waiter = NobodyWaits /\ s.channel[c].queued = FALSE
         /\ s.channel[c].input \in 0 .. ExtCapacity /\ s.channel[c].output \in 0 .. ExtCapacity
         /\ s.fed[c] = s.channel[c].input /\ s.sent[c] = s.channel[c].output
<1> DEFINE e == s.channel[c]
<1>1. s \in ExtState /\ c \in Registered(s) /\ c \in Endpoint /\ e \in ExtRecord
  BY RegisteredRecords DEF ExtGood, Uses, Registered
<1>2. e.waiter = NobodyWaits
  BY UserWaitsNot
<1>3. WaitOk(s, c) /\ BooksAt(s, c)
  BY <1>1 DEF ExtGood, Waits, Books, BooksAt
<1>4. e.input \in 0 .. ExtCapacity /\ e.output \in 0 .. ExtCapacity /\ e.queued \in BOOLEAN
  BY <1>1, RecordFields
<1>5. Pending(e, TRUE) = 0 /\ Pending(e, FALSE) = 0
  BY <1>2 DEF Pending
<1>6. e.input = s.fed[c] + 0 /\ e.output = s.sent[c] - 0
  BY <1>3, <1>5 DEF BooksAt
<1>7. s.fed[c] \in Int /\ s.sent[c] \in Int
  BY <1>1, EndpointFields
<1>8. s.fed[c] = e.input /\ s.sent[c] = e.output
  <2> DEFINE x == s.fed[c]
             y == s.sent[c]
  <2> HIDE DEF x, y, e
  <2>1. x \in Int /\ y \in Int /\ e.input = x + 0 /\ e.output = y - 0
    BY <1>6, <1>7 DEF x, y
  <2>2. x = e.input /\ y = e.output
    BY <2>1
  <2> QED BY <2>2 DEF x, y
<1>9. e.queued = FALSE
  BY <1>2, <1>3 DEF WaitOk
<1> QED BY <1>1, <1>2, <1>4, <1>8, <1>9

\* What is asked for of it.
Requested(e, n, input) == [e EXCEPT !.length = n, !.inputWait = input]

\* A transfer that can be done at once.
LEMMA TransferAtOnce ==
  ASSUME NEW s, ExtGood(s), NEW p \in ExtProcess, s.running = p, s.handler = NobodyWaits,
         NEW c, Uses(s, p, c), NEW n \in Lengths, NEW input \in BOOLEAN,
         s.phase[p] = "none" \/ (s.phase[p] = "branch" /\ input),
         TransferReady(Requested(s.channel[c], n, input))
  PROVE  ExtGood([Asked(s, p, c, n, input) EXCEPT
                    !.channel[c] = [transferNativeExternalBytes(Requested(s.channel[c], n, input))
                                      EXCEPT !.inputWait = s.channel[c].inputWait],
                    !.phase[p] = "none"])
<1> DEFINE e == s.channel[c]
           w == Requested(e, n, input)
           f == transferNativeExternalBytes(w)
           g == [f EXCEPT !.inputWait = e.inputWait]
           a == IF input THEN s.fed[c] - n ELSE s.fed[c]
           b == IF input THEN s.sent[c] ELSE s.sent[c] + n
           t == [Asked(s, p, c, n, input) EXCEPT !.channel[c] = g, !.phase[p] = "none"]
<1>1. /\ s \in ExtState /\ c \in Endpoint /\ e \in ExtRecord /\ e.waiter = NobodyWaits
      /\ e.queued = FALSE /\ e.input \in 0 .. ExtCapacity /\ e.output \in 0 .. ExtCapacity
      /\ s.fed[c] = e.input /\ s.sent[c] = e.output
  BY UsedAccount
<1>2. n \in 0 .. ExtCapacity /\ ExtCapacity \in Nat /\ n \in Nat
  BY ExtConstants
<1>3. /\ w \in ExtRecord /\ w.input = e.input /\ w.output = e.output /\ w.waiter = e.waiter
      /\ w.length = n /\ w.inputWait = input /\ w.queued = e.queued /\ w.altOwner = e.altOwner
  BY <1>1, <1>2 DEF Requested, ExtRecord
<1> HIDE DEF w
<1>4. /\ f \in ExtRecord /\ f.length = 0 /\ f.waiter = e.waiter /\ f.queued = e.queued
      /\ f.altOwner = e.altOwner
      /\ f.input = (IF input THEN e.input - n ELSE e.input)
      /\ f.output = (IF input THEN e.output ELSE e.output + n)
  <2>1. TransferReady(w)
    BY DEF w
  <2> QED BY <1>3, <2>1, TransferFields
<1> HIDE DEF f
<1>5. e.inputWait \in BOOLEAN
  BY <1>1, RecordFields
<1>6. /\ g \in ExtRecord /\ g.waiter = NobodyWaits /\ g.queued = FALSE /\ g.altOwner = e.altOwner
      /\ g.input = f.input /\ g.output = f.output
  BY <1>1, <1>4, <1>5 DEF ExtRecord
<1> HIDE DEF g
<1>7. Pending(g, TRUE) = 0 /\ Pending(g, FALSE) = 0
  BY <1>6 DEF Pending
<1>8. a \in Int /\ b \in Int /\ a = g.input /\ b = g.output
  <2>1. g.input = (IF input THEN e.input - n ELSE e.input) /\ g.output = (IF input THEN e.output ELSE e.output + n)
    BY <1>4, <1>6
  <2>2. a = (IF input THEN e.input - n ELSE e.input) /\ b = (IF input THEN e.output ELSE e.output + n)
    BY <1>1
  <2>3. e.input \in Int /\ e.output \in Int /\ n \in Int
    BY <1>1, <1>2
  <2>4. e.input - n \in Int /\ e.output + n \in Int
    BY <2>3
  <2> QED BY <2>1, <2>2, <2>3, <2>4
<1>9. PICK u : /\ SetsAccount(s, u, c, g, a, b)
               /\ SetsProcess(u, t, p, "ready", {}, "none", NobodyWaits, p)
  <2>1. s.phase[p] \notin {"enabling", "disabling"} /\ (~input => s.phase[p] = "none")
    OBVIOUS
  <2>2. TransferStep(s, t, p, c, n, input, g, p)
    BY DEF TransferStep
  <2> HIDE DEF t
  <2>3. InTwo(s, t, p, c, n, input, g, p)
    BY <1>1, <2>1, <2>2, TransferFieldsSet
  <2> QED BY <2>3 DEF InTwo
<1> HIDE DEF a, b
<1>10. g.input = a + Pending(g, TRUE) /\ g.output = b - Pending(g, FALSE)
  <2>1. a + 0 = a /\ b - 0 = b
    BY <1>8
  <2> QED BY <1>7, <1>8, <2>1
<1>11. s.phase[p] \notin {"enabling", "disabling"}
  OBVIOUS
<1>12. ExtGood(t)
  <2> HIDE DEF t
  <2>1. g.altOwner = s.channel[c].altOwner /\ g.waiter = NobodyWaits /\ g.queued = FALSE
    BY <1>6
  <2> QED BY <1>6, <1>8, <1>9, <1>10, <1>11, <2>1, TransferStepGood
<1> QED BY <1>12 DEF t, g, f, w

\* Or the process sleeps for it.
LEMMA TransferSleeps ==
  ASSUME NEW s, ExtGood(s), NEW p \in ExtProcess, s.running = p, s.handler = NobodyWaits,
         NEW c, Uses(s, p, c), NEW n \in Lengths, NEW input \in BOOLEAN,
         s.phase[p] = "none" \/ (s.phase[p] = "branch" /\ input)
  PROVE  ExtGood(SuspendExternal([Asked(s, p, c, n, input) EXCEPT
                                    !.channel[c] = [Requested(s.channel[c], n, input) EXCEPT !.waiter = p],
                                    !.phase[p] = "none"], p))
<1> DEFINE e == s.channel[c]
           g == [Requested(e, n, input) EXCEPT !.waiter = p]
           a == IF input THEN s.fed[c] - n ELSE s.fed[c]
           b == IF input THEN s.sent[c] ELSE s.sent[c] + n
           t == SuspendExternal([Asked(s, p, c, n, input) EXCEPT !.channel[c] = g, !.phase[p] = "none"], p)
<1>1. /\ s \in ExtState /\ c \in Endpoint /\ e \in ExtRecord
      /\ e.queued = FALSE /\ e.input \in 0 .. ExtCapacity /\ e.output \in 0 .. ExtCapacity
      /\ s.fed[c] = e.input /\ s.sent[c] = e.output
  BY UsedAccount
<1>2. /\ n \in 0 .. ExtCapacity /\ ExtCapacity \in Nat /\ n \in Nat
      /\ p \in Somebody /\ p # NobodyWaits /\ NobodyWaits \in Somebody
  BY ExtConstants DEF Somebody
<1>3. /\ g \in ExtRecord /\ g.waiter = p /\ g.queued = FALSE /\ g.altOwner = e.altOwner
      /\ g.input = e.input /\ g.output = e.output /\ g.length = n /\ g.inputWait = input
  BY <1>1, <1>2 DEF Requested, ExtRecord
<1> HIDE DEF g
<1>4. /\ Pending(g, TRUE) = (IF input THEN n ELSE 0)
      /\ Pending(g, FALSE) = (IF input THEN 0 ELSE n)
  BY <1>2, <1>3 DEF Pending
<1>5. /\ a \in Int /\ b \in Int
      /\ g.input = a + (IF input THEN n ELSE 0) /\ g.output = b - (IF input THEN 0 ELSE n)
  <2> DEFINE x == e.input
             y == e.output
  <2>1. /\ x \in Int /\ y \in Int /\ n \in Int /\ g.input = x /\ g.output = y
        /\ a = (IF input THEN x - n ELSE x) /\ b = (IF input THEN y ELSE y + n)
    BY <1>1, <1>2, <1>3
  <2> HIDE DEF x, y, a, b
  <2> QED BY <2>1
<1>6. PICK u : /\ SetsAccount(s, u, c, g, a, b)
               /\ SetsProcess(u, t, p, "ready", {}, "none", NobodyWaits, NobodyWaits)
  <2>1. s.phase[p] \notin {"enabling", "disabling"} /\ (~input => s.phase[p] = "none")
    OBVIOUS
  <2>2. TransferStep(s, t, p, c, n, input, g, NobodyWaits)
    BY DEF TransferStep
  <2> HIDE DEF t
  <2>3. InTwo(s, t, p, c, n, input, g, NobodyWaits)
    BY <1>1, <2>1, <2>2, TransferFieldsSet
  <2> QED BY <2>3 DEF InTwo
<1> HIDE DEF a, b
<1>7. g.input = a + Pending(g, TRUE) /\ g.output = b - Pending(g, FALSE)
  BY <1>4, <1>5
<1>8. s.phase[p] \notin {"enabling", "disabling"}
  OBVIOUS
<1>9. ExtGood(t)
  <2> HIDE DEF t
  <2>1. g.altOwner = s.channel[c].altOwner /\ g.waiter = p /\ g.queued = FALSE
    BY <1>3
  <2> QED BY <1>3, <1>5, <1>6, <1>7, <1>8, <2>1, TransferStepGood
<1> QED BY <1>9 DEF t, g

\* A reset: the channel is a new one, and the process that waited is kept for the program.
LEMMA ResetGood ==
  ASSUME NEW s, ExtGood(s), NEW c \in Registered(s), s.canceled = NobodyWaits,
         ~s.channel[c].queued,
         \A q \in ExtProcess : c \notin s.guards[q] /\ s.chosen[q] # c
  PROVE  ExtGood([s EXCEPT !.channel[c] = Fresh, !.canceled = s.channel[c].waiter,
                           !.fed[c] = 0, !.sent[c] = 0])
<1> DEFINE w == s.channel[c].waiter
           u == [s EXCEPT !.channel = [s.channel EXCEPT ![c] = Fresh],
                          !.fed = [s.fed EXCEPT ![c] = 0], !.sent = [s.sent EXCEPT ![c] = 0]]
           t == [s EXCEPT !.channel[c] = Fresh, !.canceled = w, !.fed[c] = 0, !.sent[c] = 0]
<1>1. s \in ExtState /\ Places(s) /\ c \in Endpoint /\ WaitOk(s, c) /\ w \in Somebody
  <2>1. s \in ExtState /\ Places(s) /\ c \in Endpoint /\ WaitOk(s, c)
    BY DEF ExtGood, Registered, Waits
  <2>2. w \in Somebody
    BY <2>1, RegisteredRecords, RecordFields
  <2> QED BY <2>1, <2>2
<1>2. u \in ExtState /\ Account(s, u, c, Fresh, 0, 0)
  <2>1. Fresh \in ExtRecord \union {Unregistered} /\ SetsAccount(s, u, c, Fresh, 0, 0)
    BY FreshFields DEF SetsAccount
  <2> HIDE DEF u
  <2> QED BY <1>1, <2>1, AccountSet
<1>3. t = [u EXCEPT !.canceled = w]
  <2> HIDE DEF w
  <2> QED BY <1>1 DEF ExtState
<1> HIDE DEF u, t
<1>4. Near(s, u, NobodyWaits, c) /\ Places(u) /\ \A q \in ExtProcess : Awake(u, q) <=> Awake(s, q)
  BY <1>1, <1>2, AccountNear
<1>5. t \in ExtState
  BY <1>1, <1>2, <1>3 DEF ExtState
<1>6. /\ t.channel = u.channel /\ t.ready = u.ready /\ t.running = u.running
      /\ t.handler = u.handler /\ t.word = u.word /\ t.guards = u.guards /\ t.phase = u.phase
      /\ t.chosen = u.chosen /\ t.fed = u.fed /\ t.sent = u.sent /\ t.canceled = w
  BY <1>2, <1>3 DEF ExtState
<1>7. Places(t) /\ \A q \in ExtProcess : Awake(t, q) <=> Awake(s, q)
  BY <1>4, <1>6 DEF Places, Awake, InReady
<1>8. t.channel[c] = Fresh /\ t.fed[c] = 0 /\ t.sent[c] = 0 /\ Aside(s, u, c)
  BY <1>2, <1>6 DEF Account
<1>9. \A d \in Registered(t) : d # c => /\ d \in Registered(s) /\ t.channel[d] = s.channel[d]
                                        /\ t.fed[d] = s.fed[d] /\ t.sent[d] = s.sent[d]
  BY <1>6, <1>8 DEF Aside, Registered
<1>10. /\ NobodyWaits \notin ExtProcess /\ NobodyWaits \in Somebody
       /\ (w # NobodyWaits => w \in ExtProcess)
  BY <1>1, ExtConstants DEF Somebody
<1>11. Waits(t)
  <2>1. ASSUME NEW d \in Registered(t) PROVE WaitOk(t, d)
    <3>1. CASE d = c
      BY <1>8, <3>1, FreshFields DEF WaitOk
    <3>2. CASE d # c
      <4> DEFINE p == s.channel[d].waiter
      <4>1. d \in Registered(s) /\ t.channel[d] = s.channel[d] /\ WaitOk(s, d) /\ p \in Somebody
        BY <1>1, <1>9, <2>1, <3>2, RegisteredRecords, RecordFields DEF ExtGood, Waits
      <4>2. p # NobodyWaits => (Awake(t, p) <=> Awake(s, p)) /\ p # w
        <5>1. p # NobodyWaits => p \in ExtProcess
          BY <4>1 DEF Somebody
        <5>2. p # NobodyWaits => p # w
          BY <1>1, <3>2, <4>1 DEF WaitOk
        <5> QED BY <1>7, <5>1, <5>2
      <4>3. p # NobodyWaits => \A o \in Registered(t) : t.channel[o].waiter = p => o = d
        <5>1. ASSUME p # NobodyWaits, NEW o \in Registered(t), t.channel[o].waiter = p PROVE o = d
          <6>1. o # c
            BY <1>8, <5>1, FreshFields
          <6>2. o \in Registered(s) /\ s.channel[o].waiter = p
            BY <1>9, <5>1, <6>1
          <6> QED BY <4>1, <5>1, <6>2 DEF WaitOk
        <5> QED BY <5>1
      <4>4. t.phase = s.phase /\ t.running = s.running /\ t.chosen = s.chosen /\ t.canceled = w
        BY <1>6, <1>8 DEF Aside
      <4> QED BY <4>1, <4>2, <4>3, <4>4 DEF WaitOk
    <3> QED BY <3>1, <3>2
  <2>2. w # NobodyWaits => ~Awake(t, w) /\ t.phase[w] = "none"
    BY <1>1, <1>6, <1>7, <1>8, <1>10 DEF WaitOk, Aside
  <2> QED BY <1>6, <2>1, <2>2 DEF Waits
<1>12. Alts(t)
  <2>1. NoOthers(s, u, NobodyWaits, c)
    BY <1>6, <1>8, <1>10, FreshFields DEF NoOthers
  <2>2. Alts(u)
    BY <1>2, <1>4, <1>10, <2>1, NearAlts
  <2>3. Registered(t) = Registered(u) /\ \A q \in ExtProcess : Awake(t, q) <=> Awake(u, q)
    BY <1>4, <1>6, <1>7 DEF Registered
  <2> QED BY <1>6, <2>2, <2>3 DEF Alts, AltOk, Waked
<1>13. Sleeps(t)
  <2>1. ASSUME NEW q \in ExtProcess PROVE SleepOk(t, q)
    <3>1. SleepOk(s, q) /\ s.canceled # q
      BY <1>10 DEF ExtGood, Sleeps
    <3>2. CASE Awake(s, q) \/ s.word[q] = "waiting"
      BY <1>6, <1>7, <1>8, <3>2 DEF Aside, SleepOk
    <3>3. ASSUME NEW d \in Registered(s), s.channel[d].waiter = q PROVE SleepOk(t, q)
      <4>1. CASE d = c
        BY <1>6, <3>3, <4>1 DEF SleepOk
      <4>2. CASE d # c
        <5>1. d \in Registered(t) /\ t.channel[d] = s.channel[d]
          BY <1>6, <1>8, <4>2 DEF Aside, Registered
        <5> QED BY <3>3, <5>1 DEF SleepOk
      <4> QED BY <4>1, <4>2
    <3>4. ASSUME NEW d \in s.guards[q], Waked(s, d) PROVE SleepOk(t, q)
      <4>1. d # c /\ d \in Endpoint /\ t.guards = s.guards
        BY <1>1, <1>6, <1>8, <3>4, ProcessFields DEF Aside
      <4>2. t.channel[d] = s.channel[d]
        BY <1>6, <1>8, <4>1 DEF Aside
      <4> QED BY <3>4, <4>1, <4>2 DEF SleepOk, Waked
    <3> QED BY <3>1, <3>2, <3>3, <3>4 DEF SleepOk
  <2> QED BY <2>1 DEF Sleeps
<1>14. Books(t)
  <2>1. ASSUME NEW d \in Registered(t) PROVE BooksAt(t, d)
    <3>1. CASE d = c
      <4>1. 0 = 0 + 0 /\ 0 = 0 - 0
        OBVIOUS
      <4> QED BY <1>8, <3>1, <4>1, FreshFields DEF BooksAt
    <3>2. CASE d # c
      <4>1. d \in Registered(s) /\ t.channel[d] = s.channel[d] /\ t.fed[d] = s.fed[d] /\ t.sent[d] = s.sent[d]
        BY <1>9, <2>1, <3>2
      <4>2. BooksAt(s, d)
        BY <4>1 DEF ExtGood, Books, BooksAt
      <4> QED BY <4>1, <4>2 DEF BooksAt
    <3> QED BY <3>1, <3>2
  <2> QED BY <2>1 DEF Books, BooksAt
<1>15. ExtGood(t)
  BY <1>5, <1>7, <1>11, <1>12, <1>13, <1>14 DEF ExtGood
<1> QED BY <1>15 DEF t

\* The places of the processes change, but not of those that wait.
SameButPlaces(s, t) ==
  /\ t.channel = s.channel /\ t.word = s.word /\ t.guards = s.guards /\ t.phase = s.phase
  /\ t.chosen = s.chosen /\ t.fed = s.fed /\ t.sent = s.sent /\ t.running \in {s.running, NobodyWaits}

\* The program queues the process that a reset has canceled.
LEMMA RunCanceledGood ==
  ASSUME NEW s, ExtGood(s), s.canceled # NobodyWaits
  PROVE  ExtGood([s EXCEPT !.ready = Append(@, s.canceled), !.canceled = NobodyWaits])
<1> DEFINE p == s.canceled
           t == [s EXCEPT !.ready = Append(@, s.canceled), !.canceled = NobodyWaits]
<1>1. s \in ExtState /\ Places(s) /\ p \in ExtProcess /\ ~Awake(s, p) /\ s.phase[p] = "none"
      /\ NobodyWaits \notin ExtProcess /\ NobodyWaits \in Somebody
  <2>1. p \in Somebody
    BY StateFields DEF ExtGood
  <2> QED BY <2>1, ExtConstants DEF ExtGood, Waits, Somebody
<1>2. Append(s.ready, p) \in Seq(ExtProcess)
  BY <1>1, StateFields, AppendProperties
<1>3. t \in ExtState
  BY <1>1, <1>2 DEF ExtState
<1>4. /\ SameButPlaces(s, t) /\ t.running = s.running /\ t.handler = s.handler
      /\ t.ready = Append(s.ready, p) /\ t.canceled = NobodyWaits
  BY <1>1 DEF ExtState, SameButPlaces
<1> HIDE DEF t
<1>5. Places(t) /\ \A q \in ExtProcess : Awake(t, q) <=> (Awake(s, q) \/ q = p)
  <2> HIDE DEF p
  <2> QED BY <1>1, <1>3, <1>4, AppendedPlaces
<1>6. Registered(t) = Registered(s) /\ \A c : Waked(t, c) <=> Waked(s, c)
  BY <1>4 DEF Registered, SameButPlaces, Waked
<1>7. Waits(t)
  <2>1. ASSUME NEW c \in Registered(t) PROVE WaitOk(t, c)
    <3> DEFINE w == s.channel[c].waiter
    <3>1. WaitOk(s, c) /\ w \in Somebody
      BY <1>1, <1>6, RegisteredRecords, RecordFields DEF ExtGood, Waits
    <3>2. w # NobodyWaits => w # p /\ w \in ExtProcess
      BY <3>1 DEF WaitOk, Somebody
    <3>3. w # NobodyWaits => (Awake(t, w) <=> Awake(s, w))
      BY <1>5, <3>2
    <3> QED BY <1>4, <1>6, <3>1, <3>3 DEF WaitOk, SameButPlaces
  <2> QED BY <1>4, <2>1 DEF Waits
<1>8. Alts(t)
  <2>1. ASSUME NEW q \in ExtProcess PROVE AltOk(t, q)
    <3>1. AltOk(s, q) /\ (q # p => (Awake(t, q) <=> Awake(s, q)))
      BY <1>5 DEF ExtGood, Alts
    <3>2. CASE q # p
      BY <1>4, <1>6, <3>1, <3>2 DEF AltOk, SameButPlaces
    <3>3. CASE q = p
      <4>1. s.guards[q] = {} /\ s.word[q] = "ready" /\ s.chosen[q] = NobodyWaits
        BY <1>1, <3>1, <3>3, ProcessFields DEF AltOk
      <4> QED BY <1>1, <1>4, <1>6, <3>1, <3>3, <4>1 DEF AltOk, SameButPlaces
    <3> QED BY <3>2, <3>3
  <2> QED BY <2>1 DEF Alts
<1>9. Sleeps(t)
  BY <1>4, <1>5, <1>6 DEF ExtGood, Sleeps, SleepOk, SameButPlaces
<1>10. Books(t)
  BY <1>4, <1>6 DEF ExtGood, Books, SameButPlaces
<1>11. ExtGood(t)
  BY <1>3, <1>5, <1>7, <1>8, <1>9, <1>10 DEF ExtGood
<1> QED BY <1>11 DEF t

\* The same processes are awake, in other places.
LEMMA SameAwakeGood ==
  ASSUME NEW s, ExtGood(s), NEW t \in ExtState, SameButPlaces(s, t), t.canceled = s.canceled, Places(t),
         \A q \in ExtProcess : Awake(t, q) <=> Awake(s, q)
  PROVE  ExtGood(t)
<1>1. s \in ExtState
  BY DEF ExtGood
<1>2. Registered(t) = Registered(s) /\ \A c : Waked(t, c) <=> Waked(s, c)
  BY DEF Registered, SameButPlaces, Waked
<1>3. Waits(t)
  <2>1. ASSUME NEW c \in Registered(t) PROVE WaitOk(t, c)
    <3> DEFINE w == s.channel[c].waiter
    <3>1. WaitOk(s, c) /\ w \in Somebody
      BY <1>1, <1>2, RegisteredRecords, RecordFields DEF ExtGood, Waits
    <3>2. w # NobodyWaits /\ s.channel[c].queued => t.running # w
      BY <3>1 DEF WaitOk, SameButPlaces
    <3>3. w # NobodyWaits => (Awake(t, w) <=> Awake(s, w))
      BY <3>1 DEF Somebody
    <3> QED BY <1>2, <3>1, <3>2, <3>3 DEF WaitOk, SameButPlaces
  <2>2. s.canceled # NobodyWaits => ~Awake(t, s.canceled) /\ s.phase[s.canceled] = "none"
    <3>1. s.canceled \in Somebody
      BY <1>1, StateFields
    <3> QED BY <3>1 DEF ExtGood, Waits, Somebody
  <2> QED BY <2>1, <2>2 DEF Waits, SameButPlaces
<1>4. Alts(t)
  <2>1. ASSUME NEW q \in ExtProcess PROVE AltOk(t, q)
    <3>1. AltOk(s, q) /\ (Awake(t, q) <=> Awake(s, q))
      BY DEF ExtGood, Alts
    <3> QED BY <1>2, <3>1 DEF AltOk, SameButPlaces
  <2> QED BY <2>1 DEF Alts
<1>5. Sleeps(t)
  BY <1>2 DEF ExtGood, Sleeps, SleepOk, SameButPlaces
<1>6. Books(t)
  BY <1>2 DEF ExtGood, Books, SameButPlaces
<1> QED BY <1>3, <1>4, <1>5, <1>6 DEF ExtGood

\* They are in the same places: of the state only the mask and the handlers change.
LEMMA SamePlacesGood ==
  ASSUME NEW s, ExtGood(s), NEW t \in ExtState, SameButPlaces(s, t), t.canceled = s.canceled,
         t.ready = s.ready, t.running = s.running, t.handler = s.handler
  PROVE  ExtGood(t)
<1>1. Places(t)
  BY DEF ExtGood, Places, InReady
<1>2. \A q \in ExtProcess : Awake(t, q) <=> Awake(s, q)
  BY DEF Awake, InReady
<1> QED BY <1>1, <1>2, SameAwakeGood

\* A time slice ends.
LEMMA RotateGood ==
  ASSUME NEW s, ExtGood(s), NEW p \in ExtProcess, s.running = p
  PROVE  ExtGood([s EXCEPT !.ready = Append(@, p), !.running = NobodyWaits])
<1> DEFINE v == [s EXCEPT !.running = NobodyWaits]
           t == [s EXCEPT !.ready = Append(@, p), !.running = NobodyWaits]
<1>1. s \in ExtState /\ Places(s) /\ NobodyWaits \notin ExtProcess /\ NobodyWaits \in Somebody
  BY ExtConstants DEF ExtGood, Somebody
<1>2. Append(s.ready, p) \in Seq(ExtProcess)
  BY <1>1, StateFields, AppendProperties
<1>3. v \in ExtState /\ v.running = NobodyWaits /\ v.ready = s.ready /\ v.handler = s.handler
  BY <1>1 DEF ExtState
<1>4. t \in ExtState
  BY <1>1, <1>2 DEF ExtState
<1>5. /\ SameButPlaces(s, t) /\ t.ready = Append(v.ready, p) /\ t.running = v.running
      /\ t.handler = v.handler /\ t.canceled = s.canceled
  BY <1>1 DEF ExtState, SameButPlaces
<1> HIDE DEF v, t
<1>6. Places(v) /\ ~Awake(v, p)
  BY <1>1, <1>3 DEF Places, Awake, InReady
<1>7. Places(t) /\ \A q \in ExtProcess : Awake(t, q) <=> (Awake(v, q) \/ q = p)
  BY <1>3, <1>4, <1>5, <1>6, AppendedPlaces
<1>8. \A q \in ExtProcess : (Awake(v, q) \/ q = p) <=> Awake(s, q)
  BY <1>1, <1>3 DEF Awake, InReady
<1>9. ExtGood(t)
  BY <1>4, <1>5, <1>7, <1>8, SameAwakeGood
<1> QED BY <1>9 DEF t

\* The kernel queues the process that it is told of.
LEMMA KernelGood ==
  ASSUME NEW s, ExtGood(s), s.handler # NobodyWaits
  PROVE  ExtGood([s EXCEPT !.ready = Append(@, s.handler), !.handler = NobodyWaits, !.trap = TRUE])
<1> DEFINE p == s.handler
           v == [s EXCEPT !.handler = NobodyWaits]
           t == [s EXCEPT !.ready = Append(@, s.handler), !.handler = NobodyWaits, !.trap = TRUE]
<1>1. s \in ExtState /\ Places(s) /\ NobodyWaits \notin ExtProcess /\ NobodyWaits \in Somebody
  BY ExtConstants DEF ExtGood, Somebody
<1>2. p \in ExtProcess
  BY <1>1, StateFields DEF Somebody
<1>3. Append(s.ready, p) \in Seq(ExtProcess)
  BY <1>1, <1>2, StateFields, AppendProperties
<1>4. v \in ExtState /\ v.running = s.running /\ v.ready = s.ready /\ v.handler = NobodyWaits
  BY <1>1 DEF ExtState
<1>5. t \in ExtState
  BY <1>1, <1>3 DEF ExtState
<1>6. /\ SameButPlaces(s, t) /\ t.ready = Append(v.ready, p) /\ t.running = v.running
      /\ t.handler = v.handler /\ t.canceled = s.canceled
  BY <1>1 DEF ExtState, SameButPlaces
<1> HIDE DEF v, t
<1>7. Places(v) /\ ~Awake(v, p)
  BY <1>1, <1>2, <1>4 DEF Places, Awake, InReady
<1>8. Places(t) /\ \A q \in ExtProcess : Awake(t, q) <=> (Awake(v, q) \/ q = p)
  <2> HIDE DEF p
  <2> QED BY <1>2, <1>4, <1>5, <1>6, <1>7, AppendedPlaces
<1>9. \A q \in ExtProcess : (Awake(v, q) \/ q = p) <=> Awake(s, q)
  BY <1>1, <1>4 DEF Awake, InReady
<1>10. ExtGood(t)
  BY <1>5, <1>6, <1>8, <1>9, SameAwakeGood
<1> QED BY <1>10 DEF t

-----------------------------------------------------------------------------
(***************************************************************************)
(* The specification.                                                      *)
(***************************************************************************)

\* What holds after every step.
ExtInvariant == ExtGood(ext) /\ Quiet(ext)

\* A state in which the processes have started, and use no channel.
Started(enabled, keeps, ready, running) ==
  [channel |-> [c \in Endpoint |-> Unregistered], trap |-> enabled, handlerTrap |-> keeps,
   interrupt |-> FALSE, ready |-> ready, running |-> running, handler |-> NobodyWaits,
   word |-> [p \in ExtProcess |-> "ready"], guards |-> [p \in ExtProcess |-> {}],
   phase |-> [p \in ExtProcess |-> "none"], chosen |-> [p \in ExtProcess |-> NobodyWaits],
   canceled |-> NobodyWaits, error |-> FALSE,
   fed |-> [c \in Endpoint |-> 0], sent |-> [c \in Endpoint |-> 0]]

\* It is a state of the model.
LEMMA StartedState ==
  ASSUME NEW enabled \in BOOLEAN, NEW keeps \in BOOLEAN, NEW ready \in Seq(ExtProcess),
         NEW running \in Somebody
  PROVE  /\ Started(enabled, keeps, ready, running) \in ExtState
         /\ Registered(Started(enabled, keeps, ready, running)) = {}
<1> DEFINE t == Started(enabled, keeps, ready, running)
<1>1. /\ [c \in Endpoint |-> Unregistered] \in [Endpoint -> ExtRecord \union {Unregistered}]
      /\ [p \in ExtProcess |-> "ready"] \in [ExtProcess -> {"ready", "enabling", "waiting"}]
      /\ [p \in ExtProcess |-> {}] \in [ExtProcess -> SUBSET Endpoint]
      /\ [p \in ExtProcess |-> "none"] \in [ExtProcess -> {"none", "enabling", "disabling", "branch"}]
      /\ [p \in ExtProcess |-> NobodyWaits] \in [ExtProcess -> Endpoint \union {NobodyWaits}]
      /\ [c \in Endpoint |-> 0] \in [Endpoint -> Int] /\ NobodyWaits \in Somebody
  BY DEF Somebody
<1>2. t \in ExtState
  BY <1>1 DEF Started, ExtState
<1>3. \A c \in Endpoint : t.channel[c] = Unregistered
  BY DEF Started
<1>4. Unregistered.registered = FALSE
  BY DEF Unregistered
<1> QED BY <1>2, <1>3, <1>4 DEF Registered

\* The processes are in the queue, each once.
LEMMA InOrder ==
  LET order == SetToSeq(ExtProcess)
  IN  /\ order \in Seq(ExtProcess) /\ order # <<>>
      /\ \A i, j \in DOMAIN order : order[i] = order[j] => i = j
      /\ \A p \in ExtProcess : \E i \in DOMAIN order : order[i] = p
<1> DEFINE n == Cardinality(ExtProcess)
           order == SetToSeq(ExtProcess)
<1>1. IsFiniteSet(ExtProcess) /\ ExtProcess # {}
  BY ExternalAssumption
<1>2. n \in Nat /\ ExistsBijection(1 .. n, ExtProcess)
  BY <1>1, FS_CardinalityType
<1>3. n # 0
  BY <1>1, FS_EmptySet
<1>4. PICK f \in [1 .. n -> ExtProcess] : IsInjective(f)
  BY <1>2 DEF ExistsBijection, Bijection, Injection
<1>5. order \in [1 .. n -> ExtProcess] /\ IsInjective(order)
  BY <1>4 DEF SetToSeq
<1> HIDE DEF order
<1>6. order \in Seq(ExtProcess) /\ Len(order) = n /\ DOMAIN order = 1 .. n
  BY <1>2, <1>5
<1>7. order # <<>>
  BY <1>3, <1>6
<1>8. \A i, j \in DOMAIN order : order[i] = order[j] => i = j
  BY <1>5, <1>6 DEF IsInjective
<1>9. \A p \in ExtProcess : \E i \in DOMAIN order : order[i] = p
  <2> DEFINE R == Range(order)
  <2>1. R \in SUBSET ExtProcess
    BY <1>5, <1>6 DEF Range
  <2>2. order \in Bijection(1 .. n, R)
    BY <1>5, <1>6 DEF Bijection, Injection, Surjection, Range
  <2>3. IsFiniteSet(1 .. n) /\ Cardinality(1 .. n) = n
    BY <1>2, <1>3, FS_Interval
  <2>4. Cardinality(R) = n
    BY <2>2, <2>3, FS_Bijection DEF ExistsBijection
  <2>5. R = ExtProcess
    <3> HIDE DEF R
    <3> QED BY <1>1, <2>1, <2>4, FS_Subset
  <2> QED BY <2>5 DEF Range
<1> QED BY <1>6, <1>7, <1>8, <1>9 DEF order

\* The initial state.
LEMMA InitGood == ASSUME ExtInit PROVE ExtInvariant
<1> DEFINE order == SetToSeq(ExtProcess)
<1>1. /\ order \in Seq(ExtProcess) /\ order # <<>>
      /\ \A i, j \in DOMAIN order : order[i] = order[j] => i = j
      /\ \A p \in ExtProcess : \E i \in DOMAIN order : order[i] = p
  BY InOrder
<1>2. PICK enabled, keeps \in BOOLEAN : ext = Started(enabled, keeps, Tail(order), Head(order))
  BY DEF ExtInit, Started
<1> HIDE DEF order
<1>3. Tail(order) \in Seq(ExtProcess) /\ Head(order) \in ExtProcess
  BY <1>1, HeadTailProperties
<1>4. NobodyWaits \notin ExtProcess /\ NobodyWaits \in Somebody /\ Head(order) \in Somebody
  BY <1>3, ExtConstants DEF Somebody
<1> DEFINE v == Started(enabled, keeps, order, NobodyWaits)
<1>5. v \in ExtState
  BY <1>1, <1>4, StartedState
<1>6. ext \in ExtState /\ Registered(ext) = {}
  BY <1>2, <1>3, <1>4, StartedState
<1>7. v.ready = order /\ v.running = NobodyWaits /\ v.handler = NobodyWaits
  BY DEF Started
<1>8. /\ ext.ready = Tail(order) /\ ext.running = Head(order) /\ ext.handler = NobodyWaits
      /\ ext.canceled = NobodyWaits
      /\ \A p \in ExtProcess : /\ ext.word[p] = "ready" /\ ext.guards[p] = {} /\ ext.phase[p] = "none"
                               /\ ext.chosen[p] = NobodyWaits
  BY <1>2 DEF Started
<1> HIDE DEF v
<1>9. Places(v) /\ \A p \in ExtProcess : Awake(v, p)
  BY <1>1, <1>7 DEF Places, Awake, InReady
<1>10. Places(ext) /\ \A p \in ExtProcess : Awake(ext, p)
  <2>1. Places(ext) /\ \A p \in ExtProcess : Awake(ext, p) <=> Awake(v, p)
    BY <1>1, <1>5, <1>6, <1>7, <1>8, <1>9, HeadRuns
  <2> QED BY <1>9, <2>1
<1>11. Waits(ext) /\ Sleeps(ext) /\ Books(ext) /\ Quiet(ext)
  BY <1>6, <1>8, <1>10 DEF Waits, Sleeps, SleepOk, Books, Quiet
<1>12. Alts(ext)
  BY <1>6, <1>8 DEF Alts, AltOk
<1> QED BY <1>6, <1>10, <1>11, <1>12 DEF ExtInvariant, ExtGood

\* The host registers and removes a channel.
LEMMA RegistrationKeeps ==
  ASSUME ExtInvariant, NEW c \in Endpoint, registerExternalChannel(c) \/ unregisterExternalChannel(c)
  PROVE  ExtInvariant'
<1>1. CASE registerExternalChannel(c)
  <2>1. ExtGood(ext') /\ Quiet(ext')
    BY <1>1, RegisterGood DEF registerExternalChannel, ExtInvariant
  <2> QED BY <2>1 DEF ExtInvariant
<1>2. CASE unregisterExternalChannel(c)
  <2>1. ExtGood(ext') /\ Quiet(ext')
    BY <1>2, UnregisterGood DEF unregisterExternalChannel, ExtInvariant
  <2> QED BY <2>1 DEF ExtInvariant
<1> QED BY <1>1, <1>2

\* What an action makes of the state, before the poll and an interrupt.
LEMMA PolledKeeps ==
  ASSUME NEW t, ExtGood(t), pollTimers(t)
  PROVE  ExtInvariant'
<1> DEFINE u == [t EXCEPT !.interrupt = TRUE]
<1>1. ExtGood(u)
  <2>1. t \in ExtState
    BY DEF ExtGood
  <2>2. /\ u \in ExtState /\ SameButPlaces(t, u) /\ u.canceled = t.canceled
        /\ u.ready = t.ready /\ u.running = t.running /\ u.handler = t.handler
    BY <2>1 DEF ExtState, SameButPlaces
  <2> HIDE DEF u
  <2> QED BY <2>2, SamePlacesGood
<1>2. PICK v \in {t, u} : ext' = PollAndDispatch(v)
  BY DEF pollTimers
<1> HIDE DEF u
<1>3. ExtGood(ext') /\ Quiet(ext')
  BY <1>1, <1>2, PolledAndDispatched
<1> QED BY <1>3 DEF ExtInvariant

\* The host feeds and drains it.
LEMMA BytesKeep ==
  ASSUME ExtInvariant, NEW c \in Endpoint, NEW n \in Lengths,
         feedExternalChannel(c, n) \/ drainExternalChannel(c, n)
  PROVE  ExtInvariant'
<1>1. ExtGood(ext)
  BY DEF ExtInvariant
<1>2. CASE feedExternalChannel(c, n)
  <2> DEFINE t == [ext EXCEPT !.channel[c].input = @ + n, !.fed[c] = @ + n]
  <2>1. ExtGood(t) /\ pollTimers(t)
    BY <1>1, <1>2, FeedGood DEF feedExternalChannel
  <2> HIDE DEF t
  <2> QED BY <2>1, PolledKeeps
<1>3. CASE drainExternalChannel(c, n)
  <2> DEFINE o == ext.channel[c].output
             k == IF n < o THEN n ELSE o
             t == [ext EXCEPT !.channel[c].output = @ - k, !.sent[c] = @ - k]
  <2>1. c \in Registered(ext) /\ pollTimers(t)
    BY <1>3 DEF drainExternalChannel
  <2>2. o \in Nat /\ n \in Nat
    <3>1. ext.channel[c] \in ExtRecord
      BY <1>1, <2>1, RegisteredRecords DEF ExtGood
    <3>2. o \in 0 .. ExtCapacity
      BY <3>1, RecordFields
    <3> QED BY <3>2, ExtConstants
  <2>3. k \in Nat /\ k <= o
    <3> HIDE DEF o
    <3> QED BY <2>2
  <2> HIDE DEF k
  <2>4. ExtGood(t)
    BY <1>1, <2>1, <2>3, DrainGood
  <2> HIDE DEF t
  <2> QED BY <2>1, <2>4, PolledKeeps
<1> QED BY <1>2, <1>3

\* A process transfers.
LEMMA TransferKeeps ==
  ASSUME ExtInvariant, NEW p \in ExtProcess, NEW c \in Endpoint, NEW n \in Lengths, NEW input \in BOOLEAN,
         transferExternalChannel(p, c, n, input)
  PROVE  ExtInvariant'
<1> DEFINE w == Requested(ext.channel[c], n, input)
           t == [Asked(ext, p, c, n, input) EXCEPT
                   !.channel[c] = [transferNativeExternalBytes(w) EXCEPT !.inputWait = ext.channel[c].inputWait],
                   !.phase[p] = "none"]
           u == SuspendExternal([Asked(ext, p, c, n, input) EXCEPT !.channel[c] = [w EXCEPT !.waiter = p],
                                                                   !.phase[p] = "none"], p)
<1>1. /\ ExtGood(ext) /\ ext.running = p /\ ext.handler = NobodyWaits /\ Uses(ext, p, c)
      /\ ext.phase[p] = "none" \/ (ext.phase[p] = "branch" /\ input)
  BY DEF transferExternalChannel, ExtInvariant, Runs, HandlerActive, MayUse, Uses
<1>2. ext.channel[c].waiter = NobodyWaits
  BY <1>1, UserWaitsNot
<1>3. pollTimers(IF TransferReady(w) THEN t ELSE u)
  BY <1>2 DEF transferExternalChannel, Requested, Asked
<1>4. CASE TransferReady(w)
  <2>1. ExtGood(t)
    BY <1>1, <1>4, TransferAtOnce
  <2> HIDE DEF t
  <2> QED BY <1>3, <1>4, <2>1, PolledKeeps
<1>5. CASE ~TransferReady(w)
  <2>1. ExtGood(u)
    BY <1>1, TransferSleeps
  <2> HIDE DEF u
  <2> QED BY <1>3, <1>5, <2>1, PolledKeeps
<1> QED BY <1>4, <1>5

\* A process alternates.
LEMMA AlternativeKeeps ==
  ASSUME ExtInvariant, NEW p \in ExtProcess, ExtAlternative(p) \/ ExtAltWait(p)
  PROVE  ExtInvariant'
<1>1. ExtGood(ext) /\ ext.running = p /\ ext.handler = NobodyWaits
  BY DEF ExtInvariant, ExtAlternative, ExtAltWait, Runs, HandlerActive
<1>2. CASE ExtAlternative(p)
  <2> DEFINE t == [ext EXCEPT !.word[p] = "enabling", !.phase[p] = "enabling"]
  <2>1. ExtGood(t) /\ pollTimers(t)
    BY <1>1, <1>2, AlternativeGood DEF ExtAlternative
  <2> HIDE DEF t
  <2> QED BY <2>1, PolledKeeps
<1>3. CASE ExtAltWait(p)
  <2> DEFINE t == [ext EXCEPT !.phase[p] = "disabling", !.chosen[p] = NobodyWaits]
             u == [ext EXCEPT !.phase[p] = "disabling", !.chosen[p] = NobodyWaits,
                              !.word[p] = "waiting", !.running = NobodyWaits]
             v == IF ext.word[p] = "ready" THEN t ELSE u
  <2>1. ext.phase[p] = "enabling" /\ ext.guards[p] # {} /\ pollTimers(v)
    BY <1>3 DEF ExtAltWait, SuspendExternal
  <2>2. \/ ext.word[p] = "ready" /\ v = t
        \/ ext.word[p] # "ready" /\ v = u
    OBVIOUS
  <2> HIDE DEF v
  <2>3. ExtGood(v)
    BY <1>1, <2>1, <2>2, AltWaitGood
  <2> QED BY <2>1, <2>3, PolledKeeps
<1> QED BY <1>2, <1>3

\* It enables and disables a channel.
LEMMA GuardKeeps ==
  ASSUME ExtInvariant, NEW p \in ExtProcess, NEW c \in Endpoint, EnableEndpoint(p, c) \/ DisableEndpoint(p, c)
  PROVE  ExtInvariant'
<1>1. ExtGood(ext) /\ ext.running = p /\ ext.handler = NobodyWaits
  BY DEF ExtInvariant, EnableEndpoint, DisableEndpoint, Runs, HandlerActive
<1>2. CASE EnableEndpoint(p, c)
  <2> DEFINE t == [ext EXCEPT !.channel[c] = [@ EXCEPT !.altOwner = p, !.altWake = FALSE,
                                                       !.altNotified = FALSE],
                              !.guards[p] = @ \union {c}]
  <2>1. /\ ext.phase[p] = "enabling" /\ Uses(ext, p, c) /\ c \notin ext.guards[p]
        /\ pollTimers(pollExternalChannels(t))
    BY <1>2 DEF EnableEndpoint, MayUse, Uses
  <2>2. ExtGood(t)
    BY <1>1, <2>1, EnableGood
  <2> HIDE DEF t
  <2>3. ExtGood(pollExternalChannels(t))
    BY <2>2, AllPolled
  <2> QED BY <2>1, <2>3, PolledKeeps
<1>3. CASE DisableEndpoint(p, c)
  <2> DEFINE selects == ext.channel[c].input > 0 /\ ext.chosen[p] = NobodyWaits
             t == [ext EXCEPT !.guards[p] = @ \ {c}, !.chosen[p] = IF selects THEN c ELSE @,
                              !.phase[p] = IF ext.guards[p] = {c} THEN "branch" ELSE @,
                              !.channel[c] = IF @.altOwner = p
                                             THEN [@ EXCEPT !.altOwner = NobodyWaits, !.altWake = FALSE,
                                                            !.altNotified = FALSE] ELSE @]
  <2>1. ext.phase[p] = "disabling" /\ c \in ext.guards[p] /\ pollTimers(t)
    BY <1>3 DEF DisableEndpoint
  <2>2. ExtGood(t)
    BY <1>1, <2>1, DisableGood
  <2> HIDE DEF t
  <2> QED BY <2>1, <2>2, PolledKeeps
<1> QED BY <1>2, <1>3

\* It resets a channel, and queues who waited.
LEMMA ResetKeeps ==
  ASSUME ExtInvariant, NEW p \in ExtProcess,
         RunCanceled(p) \/ \E c \in Endpoint : ResetEndpoint(p, c)
  PROVE  ExtInvariant'
<1>1. ExtGood(ext)
  BY DEF ExtInvariant
<1>2. CASE RunCanceled(p)
  <2> DEFINE t == [ext EXCEPT !.ready = Append(@, ext.canceled), !.canceled = NobodyWaits]
  <2>1. ExtGood(t) /\ pollTimers(t)
    BY <1>1, <1>2, RunCanceledGood DEF RunCanceled
  <2> HIDE DEF t
  <2> QED BY <2>1, PolledKeeps
<1>3. ASSUME NEW c \in Endpoint, ResetEndpoint(p, c) PROVE ExtInvariant'
  <2> DEFINE t == [ext EXCEPT !.channel[c] = Fresh, !.canceled = ext.channel[c].waiter,
                              !.fed[c] = 0, !.sent[c] = 0]
  <2>1. /\ c \in Registered(ext) /\ ext.canceled = NobodyWaits /\ ~ext.channel[c].queued
        /\ \A q \in ExtProcess : c \notin ext.guards[q] /\ ext.chosen[q] # c
        /\ pollTimers(t)
    BY <1>3 DEF ResetEndpoint
  <2>2. ExtGood(t)
    BY <1>1, <2>1, ResetGood
  <2> HIDE DEF t
  <2> QED BY <2>1, <2>2, PolledKeeps
<1> QED BY <1>2, <1>3

\* Processes take turns, and the kernel queues one.
LEMMA QueueKeeps ==
  ASSUME ExtInvariant, ExternalKernel \/ \E p \in ExtProcess : RotateReady(p)
  PROVE  ExtInvariant'
<1>1. ExtGood(ext)
  BY DEF ExtInvariant
<1>2. CASE ExternalKernel
  <2> DEFINE t == [ext EXCEPT !.ready = Append(@, ext.handler), !.handler = NobodyWaits, !.trap = TRUE]
  <2>1. ExtGood(t) /\ pollTimers(t)
    BY <1>1, <1>2, KernelGood DEF ExternalKernel
  <2> HIDE DEF t
  <2> QED BY <2>1, PolledKeeps
<1>3. ASSUME NEW p \in ExtProcess, RotateReady(p) PROVE ExtInvariant'
  <2> DEFINE t == [ext EXCEPT !.ready = Append(@, p), !.running = NobodyWaits]
  <2>1. ext.running = p /\ pollTimers(t)
    BY <1>3 DEF RotateReady, Runs
  <2>2. ExtGood(t)
    BY <1>1, <2>1, RotateGood
  <2> HIDE DEF t
  <2> QED BY <2>1, <2>2, PolledKeeps
<1> QED BY <1>2, <1>3

\* The mask of the trap changes, an interrupt comes and returns.
LEMMA MaskKeeps ==
  ASSUME ExtInvariant,
         \/ \E p \in ExtProcess, enable \in BOOLEAN : changeTrapMask(p, enable)
         \/ ComputeOrIdle \/ returnFromInterrupt
  PROVE  ExtInvariant'
<1>1. ExtGood(ext) /\ ext \in ExtState
  BY DEF ExtInvariant, ExtGood
<1>2. ASSUME NEW t \in ExtState, SameButPlaces(ext, t), t.canceled = ext.canceled, t.ready = ext.ready,
             t.running = ext.running, t.handler = ext.handler, pollTimers(t)
      PROVE  ExtInvariant'
  <2>1. ExtGood(t)
    BY <1>1, <1>2, SamePlacesGood
  <2> QED BY <1>2, <2>1, PolledKeeps
<1>3. ASSUME NEW p \in ExtProcess, NEW enable \in BOOLEAN, changeTrapMask(p, enable) PROVE ExtInvariant'
  <2> DEFINE t == [ext EXCEPT !.trap = enable]
  <2>1. pollTimers(t)
    BY <1>3 DEF changeTrapMask
  <2>2. /\ t \in ExtState /\ SameButPlaces(ext, t) /\ t.canceled = ext.canceled /\ t.ready = ext.ready
        /\ t.running = ext.running /\ t.handler = ext.handler
    BY <1>1 DEF ExtState, SameButPlaces
  <2> HIDE DEF t
  <2> QED BY <1>2, <2>1, <2>2
<1>4. CASE ComputeOrIdle
  BY <1>1, <1>4, PolledKeeps DEF ComputeOrIdle
<1>5. CASE returnFromInterrupt
  <2> DEFINE t == [ext EXCEPT !.interrupt = FALSE]
  <2>1. pollTimers(t)
    BY <1>5 DEF returnFromInterrupt
  <2>2. /\ t \in ExtState /\ SameButPlaces(ext, t) /\ t.canceled = ext.canceled /\ t.ready = ext.ready
        /\ t.running = ext.running /\ t.handler = ext.handler
    BY <1>1 DEF ExtState, SameButPlaces
  <2> HIDE DEF t
  <2> QED BY <1>2, <2>1, <2>2
<1> QED BY <1>3, <1>4, <1>5

\* The invariant is one of the specification.
THEOREM ExternalInvariantCorrect == ExtSpec => []ExtInvariant
<1>1. ExtInit => ExtInvariant
  BY InitGood
<1>2. ExtInvariant /\ [ExtNext]_ext => ExtInvariant'
  <2> SUFFICES ASSUME ExtInvariant, [ExtNext]_ext PROVE ExtInvariant'
    OBVIOUS
  <2>1. CASE \E c \in Endpoint : registerExternalChannel(c) \/ unregisterExternalChannel(c)
    BY <2>1, RegistrationKeeps
  <2>2. CASE \E c \in Endpoint, n \in Lengths : feedExternalChannel(c, n) \/ drainExternalChannel(c, n)
    BY <2>2, BytesKeep
  <2>3. ASSUME NEW p \in ExtProcess, NEW c \in Endpoint, NEW n \in Lengths, NEW input \in BOOLEAN,
               transferExternalChannel(p, c, n, input)
        PROVE  ExtInvariant'
    BY <2>3, TransferKeeps
  <2>4. ASSUME NEW p \in ExtProcess, NEW c \in Endpoint, EnableEndpoint(p, c) \/ DisableEndpoint(p, c)
        PROVE  ExtInvariant'
    BY <2>4, GuardKeeps
  <2>5. ASSUME NEW p \in ExtProcess, RunCanceled(p) \/ \E c \in Endpoint : ResetEndpoint(p, c)
        PROVE  ExtInvariant'
    BY <2>5, ResetKeeps
  <2>6. ASSUME NEW p \in ExtProcess, ExtAlternative(p) \/ ExtAltWait(p)
        PROVE  ExtInvariant'
    BY <2>6, AlternativeKeeps
  <2>7. CASE ExternalKernel \/ \E p \in ExtProcess : RotateReady(p)
    BY <2>7, QueueKeeps
  <2>8. CASE \/ \E p \in ExtProcess, enable \in BOOLEAN : changeTrapMask(p, enable)
             \/ ComputeOrIdle \/ returnFromInterrupt
    BY <2>8, MaskKeeps
  <2>9. CASE UNCHANGED ext
    BY <2>9 DEF ExtInvariant
  <2> QED BY <2>1, <2>2, <2>3, <2>4, <2>5, <2>6, <2>7, <2>8, <2>9 DEF ExtNext
<1> QED BY <1>1, <1>2, PTL DEF ExtSpec

\* A process is queued once, or not at all.
LEMMA QueuedOnce ==
  ASSUME NEW s \in ExtState, Places(s), NEW p
  PROVE  Cardinality({i \in DOMAIN s.ready : s.ready[i] = p}) = (IF InReady(s, p) THEN 1 ELSE 0)
<1> DEFINE S == {i \in DOMAIN s.ready : s.ready[i] = p}
<1>1. CASE InReady(s, p)
  <2>1. PICK i \in DOMAIN s.ready : s.ready[i] = p
    BY <1>1 DEF InReady
  <2>2. S = {i}
    BY <2>1 DEF Places
  <2> QED BY <1>1, <2>2, FS_Singleton
<1>2. CASE ~InReady(s, p)
  <2>1. S = {}
    BY <1>2 DEF InReady
  <2> QED BY <1>2, <2>1, FS_EmptySet
<1> QED BY <1>1, <1>2

\* A process that is in no place sleeps for what is still to come.
LEMMA SleepsAsPromised ==
  ASSUME ExtInvariant, NEW p \in ExtProcess, ~Awake(ext, p)
  PROVE  SleepsRightly(p)
<1>1. /\ ext \in ExtState /\ SleepOk(ext, p) /\ AltOk(ext, p) /\ p # NobodyWaits
      /\ ext.guards[p] \subseteq Endpoint
  BY ProcessFields DEF ExtInvariant, ExtGood, Sleeps, Alts
<1>2. CASE ext.canceled = p
  BY <1>2 DEF SleepsRightly
<1>3. CASE ext.word[p] = "waiting"
  <2>1. ASSUME NEW c \in ext.guards[p] PROVE ext.channel[c].altOwner = p /\ ext.channel[c].input = 0
    <3>1. c \in Registered(ext) /\ ext.channel[c].altOwner = p
      BY <1>1, <2>1 DEF AltOk
    <3>2. QuietAt(ext, c)
      BY <3>1 DEF ExtInvariant, Quiet
    <3> QED BY <1>1, <1>3, <3>1, <3>2 DEF QuietAt
  <2> QED BY <1>1, <1>3, <2>1 DEF SleepsRightly, AltOk
<1>4. ASSUME NEW c \in Registered(ext), ext.channel[c].waiter = p PROVE SleepsRightly(p)
  <2>1. WaitOk(ext, c) /\ QuietAt(ext, c)
    BY DEF ExtInvariant, ExtGood, Waits, Quiet
  <2>2. ~ext.channel[c].queued
    BY <1>1, <1>4, <2>1 DEF WaitOk
  <2> QED BY <1>1, <1>4, <2>1, <2>2 DEF QuietAt, SleepsRightly
<1>5. ASSUME NEW c \in ext.guards[p], Waked(ext, c) PROVE SleepsRightly(p)
  <2>1. c \in Registered(ext) /\ ext.channel[c].altOwner = p
    BY <1>1 DEF AltOk
  <2>2. ~MayRelease(ext) /\ ext.channel[c].altWake
    BY <1>1, <1>5, <2>1 DEF ExtInvariant, Quiet, QuietAt, Waked
  <2>3. ext.word[p] = "ready"
    BY <1>1, <1>5, ProcessFields DEF AltOk, Waked
  <2> QED BY <2>1, <2>2, <2>3 DEF SleepsRightly
<1> QED BY <1>1, <1>2, <1>3, <1>4, <1>5 DEF SleepOk

\* What the invariant says of places, accounts and selections.
LEMMA TransfersFollow == ExtInvariant => TransfersOnce
<1> SUFFICES ASSUME ExtInvariant PROVE TransfersOnce
  OBVIOUS
<1>1. ext \in ExtState /\ Places(ext) /\ ext.error = FALSE
  BY StateFields DEF ExtInvariant, ExtGood
<1>2. ASSUME NEW p \in ExtProcess
      PROVE  LET places == Cardinality({i \in DOMAIN ext.ready : ext.ready[i] = p})
                             + (IF ext.running = p THEN 1 ELSE 0) + (IF ext.handler = p THEN 1 ELSE 0)
             IN  places = 1 \/ (places = 0 /\ SleepsRightly(p))
  <2> DEFINE n == Cardinality({i \in DOMAIN ext.ready : ext.ready[i] = p})
             r == IF ext.running = p THEN 1 ELSE 0
             h == IF ext.handler = p THEN 1 ELSE 0
  <2>1. n = (IF InReady(ext, p) THEN 1 ELSE 0) /\ p # NobodyWaits
    BY <1>1, QueuedOnce, ExtConstants
  <2>2. CASE ~Awake(ext, p)
    <3>1. n = 0 /\ r = 0 /\ h = 0 /\ SleepsRightly(p)
      BY <2>1, <2>2, SleepsAsPromised DEF Awake
    <3> HIDE DEF n, r, h
    <3>2. n + r + h = 0
      BY <3>1
    <3> QED BY <3>1, <3>2 DEF n, r, h
  <2>3. CASE Awake(ext, p)
    <3>1. \/ n = 1 /\ r = 0 /\ h = 0
          \/ n = 0 /\ r = 1 /\ h = 0
          \/ n = 0 /\ r = 0 /\ h = 1
      BY <1>1, <2>1, <2>3 DEF Awake, Places
    <3> HIDE DEF n, r, h
    <3>2. n + r + h = 1
      BY <3>1
    <3> QED BY <3>2 DEF n, r, h
  <2> QED BY <2>2, <2>3
<1>3. ASSUME NEW c \in Registered(ext)
      PROVE  LET e == ext.channel[c]
             IN  /\ e.input = ext.fed[c] + Pending(e, TRUE)
                 /\ e.output = ext.sent[c] - Pending(e, FALSE)
                 /\ e.waiter # ext.running \/ e.waiter = NobodyWaits
  <2>1. BooksAt(ext, c)
    BY DEF ExtInvariant, ExtGood, Books, BooksAt
  <2>2. ext.channel[c].waiter # ext.running \/ ext.channel[c].waiter = NobodyWaits
    BY RunningWaitsNowhere DEF ExtInvariant
  <2> QED BY <2>1, <2>2 DEF BooksAt
<1>4. ASSUME NEW p \in ExtProcess, ext.phase[p] = "branch"
      PROVE  ext.chosen[p] \in Registered(ext) /\ ext.channel[ext.chosen[p]].input > 0
  <2>1. AltOk(ext, p)
    BY DEF ExtInvariant, ExtGood, Alts
  <2> QED BY <1>4, <2>1 DEF AltOk
<1> QED BY <1>1, <1>2, <1>3, <1>4 DEF TransfersOnce

(***************************************************************************)
(* A process is in one place or sleeps for what is still to come, and what *)
(* is moved of a FIFO is what was asked for, once.                         *)
(***************************************************************************)
THEOREM TransfersOnceCorrect == ExtSpec => []TransfersOnce
BY ExternalInvariantCorrect, TransfersFollow, PTL
=============================================================================
