---------------------------- MODULE ChannelsProofs ----------------------------
(***************************************************************************)
(* The safety properties of Channels and its refinement of Rendezvous,     *)
(* for any processes, channels and programs that keep to their part.       *)
(*                                                                         *)
(* The invariant says what a channel word can hold and what that entails   *)
(* of the process in it (WordInv), where a process that is not ready is    *)
(* (PreviousInv, OnceInWords), and, for every point of an alternative, how *)
(* its state word tells of the senders in its channels (AltInv).           *)
(***************************************************************************)
EXTENDS ChannelsRefinement, TLAPS

GuardReady(g) == g = Skip \/ (g \in Chan /\ AwaitsIn(Sender[g], g))

\* A sender waits in ch with its message.
SenderIn(ch) ==
  /\ AwaitsIn(Sender[ch], ch)
  /\ sent[ch] # received[ch]
  /\ pointer[Sender[ch]] \in Address
  /\ memory[Sender[ch]][pointer[Sender[ch]]] = sent[ch]

ReceiverIn(ch) ==
  /\ AwaitsIn(Receiver[ch], ch) /\ pointer[Receiver[ch]] = "buffer"
  /\ sent[ch] = received[ch]

RegisteredIn(ch) ==
  /\ word[ch] = Receiver[ch] /\ ch \in Registered(Receiver[ch])
  /\ sent[ch] = received[ch]

WordInvOf(ch) ==
  \/ word[ch] = NoProcess /\ sent[ch] = received[ch]
  \/ SenderIn(ch)
  \/ ReceiverIn(ch)
  \/ RegisteredIn(ch)

WordInv == \A ch \in Chan : WordInvOf(ch)

\* A process in a transfer is in one channel word.
OnceInWords ==
  \A ch, d \in Chan :
    (word[ch] \in Proc /\ word[d] = word[ch] /\ pc[word[ch]] = "run") => ch = d

\* What resetch returned is in nobody else's hands.
PreviousInv ==
  \A x \in Proc : previous[x] \in Proc =>
    /\ turns[previous[x]] = 0 /\ pc[previous[x]] = "run"
    /\ \A ch \in Chan : word[ch] # previous[x]
    /\ \A y \in Proc : previous[y] = previous[x] => y = x

\* A process in a transfer that is not ready is in a word or was reset.
SleepInv ==
  \A w \in Proc : (turns[w] = 0 /\ pc[w] = "run") =>
    (\E ch \in Chan : word[ch] = w) \/ (\E x \in Proc : previous[x] = w)

EnablingInv(w) ==
  /\ turns[w] = 1
  /\ pointer[w] \in {"ALT_ENABLING", "ALT_READY"}
  /\ pointer[w] = "ALT_ENABLING" =>
       \A g \in guards[w] \ todo[w] : g # Skip /\ word[g] = w
  /\ pointer[w] = "ALT_READY" =>
       \E g \in guards[w] \ todo[w] : GuardReady(g)

AsleepInv(w) ==
  /\ memory[w]["temp"] = ALT_NONE_SELECTED
  /\ pointer[w] = "ALT_WAITING"
  /\ todo[w] = guards[w]
  /\ \A g \in guards[w] : g # Skip /\ word[g] = w

SelectingInv(w) ==
  /\ pointer[w] = "ALT_READY"
  /\ \/ /\ memory[w]["temp"] = ALT_NONE_SELECTED
        /\ \E g \in todo[w] : GuardReady(g)
     \/ memory[w]["temp"] \in guards[w] /\ GuardReady(memory[w]["temp"])

BranchInv(w) ==
  /\ turns[w] = 1
  /\ memory[w]["temp"] \in guards[w] \ {Skip}
  /\ GuardReady(memory[w]["temp"])

AltInvOf(w) ==
  /\ guards[w] \subseteq GuardsOf(w)
  /\ todo[w] \subseteq guards[w]
  /\ pc[w] \in {"run", "branch"} => todo[w] = {}
  /\ pc[w] = "run" => guards[w] = {}
  /\ pc[w] = "enabling" => EnablingInv(w)
  /\ pc[w] = "disabling" /\ turns[w] = 0 => AsleepInv(w)
  /\ pc[w] = "disabling" /\ turns[w] = 1 => SelectingInv(w)
  /\ pc[w] = "branch" => BranchInv(w)

AltInv == \A w \in Proc : AltInvOf(w)

Inv ==
  /\ TypeOK
  /\ ReadyOnce
  /\ WordInv
  /\ OnceInWords
  /\ PreviousInv
  /\ SleepInv
  /\ AltInv

------------------------------------------------------------------------------
(* What the invariant says of the process that acts and of the ones it meets *)

\* The next message of a channel is another one.
LEMMA FollowingMessage ==
  \A m \in Message : Following(m) \in Message /\ Following(m) # m
BY DEF Following, Message

\* A process whose program runs is in no channel word.
LEMMA RunnerInNoWord ==
  ASSUME Inv, NEW w \in Proc, turns[w] > 0, pc[w] = "run", NEW ch \in Chan
  PROVE  word[ch] # w
BY ChannelsAssumption
   DEF Inv, WordInv, WordInvOf, SenderIn, ReceiverIn, RegisteredIn,
       AwaitsIn, Registered

\* An alternative is only in the words of channels it has registered.
LEMMA AltInWord ==
  ASSUME Inv, NEW w \in Proc, pc[w] # "run", NEW ch \in Chan, word[ch] = w
  PROVE  RegisteredIn(ch) /\ w = Receiver[ch]
BY ChannelsAssumption
   DEF Inv, WordInv, WordInvOf, SenderIn, ReceiverIn, RegisteredIn,
       AwaitsIn, Registered

\* A sleeping process in a word that is not an alternative.
LEMMA TransferInWord ==
  ASSUME Inv, NEW ch \in Chan, word[ch] \in Proc, pc[word[ch]] = "run"
  PROVE  /\ turns[word[ch]] = 0
         /\ SenderIn(ch) \/ ReceiverIn(ch)
         /\ pointer[word[ch]] \in Address
BY ChannelsAssumption
   DEF Inv, WordInv, WordInvOf, SenderIn, ReceiverIn, RegisteredIn,
       AwaitsIn, Registered,
       Address

\* The pointer of a process in a word tells whether it is an alternative.
LEMMA PointerTells ==
  ASSUME Inv, NEW ch \in Chan, word[ch] \in Proc
  PROVE  /\ pointer[word[ch]] \in Address <=> pc[word[ch]] = "run"
         /\ pointer[word[ch]] \in AltState <=> pc[word[ch]] # "run"
         /\ pointer[word[ch]] = "ALT_WAITING" <=>
              pc[word[ch]] = "disabling" /\ turns[word[ch]] = 0
<1>1. CASE pc[word[ch]] = "run"
  BY <1>1, TransferInWord DEF Address, AltState
<1>2. CASE pc[word[ch]] # "run"
  <2>1. RegisteredIn(ch)
    BY <1>2, AltInWord
  <2>2. pc[word[ch]] \in {"enabling", "disabling"}
    BY <2>1 DEF RegisteredIn, Registered
  <2>3. turns[word[ch]] \in 0 .. 1
    BY DEF Inv, ReadyOnce
  <2>4. QED
    BY <2>2, <2>3 DEF Inv, AltInv, AltInvOf, EnablingInv, AsleepInv,
                      SelectingInv, Address, AltState
<1>3. QED
  BY <1>1, <1>2

------------------------------------------------------------------------------
(* What a step leaves alone keeps its part of the invariant *)

\* The part of process x a channel word and an alternative depend on.
Same(x) ==
  /\ pc'[x] = pc[x] /\ turns'[x] = turns[x] /\ pointer'[x] = pointer[x]
  /\ guards'[x] = guards[x] /\ todo'[x] = todo[x] /\ memory'[x] = memory[x]

SameWord(ch) ==
  word'[ch] = word[ch] /\ sent'[ch] = sent[ch] /\ received'[ch] = received[ch]

\* A channel word stays valid if it and whoever it holds are left alone.
LEMMA OtherWord ==
  ASSUME Inv, NEW ch \in Chan, SameWord(ch),
         word[ch] \in Proc => Same(word[ch])
  PROVE  WordInvOf(ch)'
<1>1. CASE word[ch] = NoProcess
  BY <1>1, ChannelsAssumption
     DEF Inv, WordInv, WordInvOf, SameWord, SenderIn, ReceiverIn, RegisteredIn,
         AwaitsIn
<1>2. CASE SenderIn(ch) \/ ReceiverIn(ch)
  BY <1>2, ChannelsAssumption
     DEF WordInvOf, SameWord, Same, SenderIn, ReceiverIn, AwaitsIn
<1>3. CASE RegisteredIn(ch)
  BY <1>3, ChannelsAssumption
     DEF WordInvOf, SameWord, Same, RegisteredIn, Registered
<1>4. QED
  BY <1>1, <1>2, <1>3 DEF Inv, WordInv, WordInvOf

\* A ready guard stays ready if its sender is left alone.
LEMMA OtherReady ==
  ASSUME NEW g, GuardReady(g),
         g \in Chan => word'[g] = word[g] /\ Same(word[g])
  PROVE  GuardReady(g)'
BY DEF GuardReady, AwaitsIn, Same

\* An alternative keeps its invariant if its guards keep what they have.
LEMMA OtherAlt ==
  ASSUME Inv, NEW x \in Proc, Same(x),
         pc[x] # "run" =>
           \A g \in guards[x] : /\ GuardReady(g) => GuardReady(g)'
                                /\ g # Skip /\ word[g] = x => word'[g] = x
  PROVE  AltInvOf(x)'
<1>1. AltInvOf(x)
  BY DEF Inv, AltInv
<1>2. QED
  BY <1>1 DEF Same, AltInvOf, EnablingInv, AsleepInv, SelectingInv, BranchInv,
              GuardsOf

------------------------------------------------------------------------------
(* Transfers *)

\* What Output and Input have in common when nobody is in the channel: w is
\* put into its word.
LEMMA AwaitInv ==
  ASSUME Inv, NEW w \in Proc, NEW ch \in Chan, NEW address \in Address,
         pc[w] = "run", turns[w] > 0,
         AwaitPeer(w, ch, address),
         previous' = previous, todo' = todo, pc' = pc,
         guards' = [guards EXCEPT ![w] = {}],
         memory' \in [Proc -> [Address -> Message \union Guard
                                          \union {ALT_NONE_SELECTED}]],
         \A x \in Proc \ {w} : memory'[x] = memory[x],
         memory'[w]["buffer"] \in Message,
         sent' \in [Chan -> Message],
         \A d \in Chan \ {ch} : sent'[d] = sent[d],
         \/ /\ w = Sender[ch]
            /\ sent'[ch] # received[ch] /\ memory'[w][address] = sent'[ch]
         \/ w = Receiver[ch] /\ sent'[ch] = sent[ch] /\ address = "buffer"
  PROVE  Inv'
<1>1. turns[w] = 1 /\ \A d \in Chan : word[d] # w
  BY RunnerInNoWord DEF Inv, TypeOK, ReadyOnce
<1>2. /\ word' = [word EXCEPT ![ch] = w]
      /\ turns' = [turns EXCEPT ![w] = 0]
      /\ pointer' = [pointer EXCEPT ![w] = address]
      /\ received' = received
      /\ word[ch] = NoProcess
  BY <1>1 DEF AwaitPeer
<1>3. \A x \in Proc \ {w} : Same(x)
  BY <1>2 DEF Inv, TypeOK, Same
<1>4. TypeOK'
  BY <1>2, ChannelsAssumption DEF Inv, TypeOK
<1>5. ReadyOnce'
  BY <1>2 DEF Inv, TypeOK, ReadyOnce
<1>6. WordInv'
  <2>1. WordInvOf(ch)'
    <3>1. sent[ch] = received[ch]
      BY <1>2, ChannelsAssumption
         DEF Inv, WordInv, WordInvOf, SenderIn, ReceiverIn, RegisteredIn,
             AwaitsIn
    <3>2. CASE w = Sender[ch]
      <4>1. SenderIn(ch)'
        BY <1>2, <3>2, ChannelsAssumption DEF Inv, TypeOK, SenderIn, AwaitsIn
      <4>2. QED
        BY <4>1 DEF WordInvOf
    <3>3. CASE w = Receiver[ch]
      <4>1. ReceiverIn(ch)'
        BY <1>2, <3>1, <3>3, ChannelsAssumption
           DEF Inv, TypeOK, ReceiverIn, AwaitsIn
      <4>2. QED
        BY <4>1 DEF WordInvOf
    <3>4. QED
      BY <3>2, <3>3
  <2>2. ASSUME NEW d \in Chan \ {ch} PROVE WordInvOf(d)'
    <3>1. SameWord(d) /\ word[d] # w
      BY <1>1, <1>2 DEF Inv, TypeOK, SameWord
    <3>2. QED
      BY <1>3, <3>1, OtherWord
  <2>3. QED
    BY <2>1, <2>2 DEF WordInv
<1>7. OnceInWords'
  BY <1>1, <1>2 DEF Inv, TypeOK, OnceInWords
<1>8. PreviousInv'
  BY <1>1, <1>2 DEF Inv, TypeOK, PreviousInv
<1>9. SleepInv'
  <2>1. word'[ch] = w /\ \A d \in Chan : word[d] \in Proc => word'[d] = word[d]
    BY <1>2, ChannelsAssumption DEF Inv, TypeOK
  <2>2. QED
    BY SMTT(20), <1>2, <2>1 DEF Inv, TypeOK, SleepInv
<1>10. AltInv'
  <2>1. AltInvOf(w)'
    BY <1>2 DEF Inv, TypeOK, AltInv, AltInvOf
  <2>2. ASSUME NEW x \in Proc \ {w} PROVE AltInvOf(x)'
    <3>1. ASSUME NEW g \in guards[x], GuardReady(g) PROVE GuardReady(g)'
      <4>1. g \in Chan => g # ch /\ word[g] \in Proc \ {w}
        BY <1>1, <1>2, <3>1, ChannelsAssumption DEF GuardReady, AwaitsIn
      <4>2. QED
        BY <1>2, <1>3, <3>1, <4>1, OtherReady DEF Inv, TypeOK
    <3>2. \A g \in guards[x] : g # Skip /\ word[g] = x => word'[g] = x
      BY <1>2, ChannelsAssumption DEF Inv, TypeOK, Guard
    <3>3. QED
      BY <1>3, <3>1, <3>2, OtherAlt
  <2>3. QED
    BY <2>1, <2>2 DEF AltInv
<1>11. QED
  BY <1>4, <1>5, <1>6, <1>7, <1>8, <1>9, <1>10 DEF Inv

\* What they have in common when the peer waits: it is let go.
LEMMA CompleteInv ==
  ASSUME Inv, NEW w \in Proc, NEW ch \in Chan, NEW peer \in Proc,
         w \in {Sender[ch], Receiver[ch]},
         turns[w] > 0, pc[w] \in {"run", "branch"},
         peer = word[ch], CompleteWith(peer, w, ch),
         previous' = previous, todo' = todo,
         pc' = [pc EXCEPT ![w] = "run"],
         guards' = [guards EXCEPT ![w] = {}],
         memory' \in [Proc -> [Address -> Message \union Guard
                                          \union {ALT_NONE_SELECTED}]],
         \A x \in Proc \ {w, peer} : memory'[x] = memory[x],
         \A x \in Proc : memory'[x]["buffer"] \in Message,
         sent' \in [Chan -> Message], received' \in [Chan -> Message],
         \A d \in Chan \ {ch} :
           sent'[d] = sent[d] /\ received'[d] = received[d],
         sent'[ch] = received'[ch]
  PROVE  Inv'
<1>1. /\ peer \in Proc \ {w} /\ pc[peer] = "run" /\ turns[peer] = 0
      /\ peer \in {Sender[ch], Receiver[ch]}
  <2>1. peer \in Proc \ {w} /\ pointer[peer] \in Address
    BY DEF CompleteWith, Inv, TypeOK
  <2>2. pc[peer] = "run"
    BY <2>1, PointerTells
  <2>3. QED
    BY <2>1, <2>2, TransferInWord DEF SenderIn, ReceiverIn, AwaitsIn
<1>2. turns[w] = 1 /\ \A d \in Chan : word[d] # w
  <2>1. ASSUME NEW d \in Chan, word[d] = w PROVE FALSE
    <3>1. CASE pc[w] = "run"
      BY <2>1, <3>1, RunnerInNoWord
    <3>2. CASE pc[w] = "branch"
      BY <2>1, <3>2, AltInWord DEF RegisteredIn, Registered
    <3>3. QED
      BY <3>1, <3>2
  <2>2. QED
    BY <2>1 DEF Inv, TypeOK, ReadyOnce
<1>3. \A d \in Chan \ {ch} : word[d] # peer
  BY <1>1 DEF Inv, OnceInWords
<1>4. /\ word' = [word EXCEPT ![ch] = NoProcess]
      /\ turns' = [turns EXCEPT ![peer] = 1]
      /\ pointer' = pointer
  BY <1>1 DEF CompleteWith, Freed
<1>5. \A x \in Proc \ {w, peer} : Same(x)
  BY <1>4 DEF Inv, TypeOK, Same
<1>6. TypeOK'
  BY <1>1, <1>4 DEF Inv, TypeOK
<1>7. ReadyOnce'
  BY <1>1, <1>4 DEF Inv, TypeOK, ReadyOnce
<1>8. WordInv'
  <2>1. WordInvOf(ch)'
    BY <1>4 DEF Inv, TypeOK, WordInvOf
  <2>2. ASSUME NEW d \in Chan \ {ch} PROVE WordInvOf(d)'
    <3>1. SameWord(d) /\ word[d] \notin {w, peer}
      BY <1>2, <1>3, <1>4 DEF Inv, TypeOK, SameWord
    <3>2. QED
      BY <1>5, <3>1, OtherWord
  <2>3. QED
    BY <2>1, <2>2 DEF WordInv
<1>9. OnceInWords'
  BY <1>2, <1>4, ChannelsAssumption DEF Inv, TypeOK, OnceInWords
<1>10. PreviousInv'
  BY <1>1, <1>2, <1>4, ChannelsAssumption DEF Inv, TypeOK, PreviousInv
<1>11. SleepInv'
  <2>1. SUFFICES ASSUME NEW x \in Proc, turns'[x] = 0, pc'[x] = "run"
                 PROVE  \/ \E d \in Chan : word'[d] = x
                        \/ \E y \in Proc : previous[y] = x
    BY DEF SleepInv
  <2>2. x \notin {w, peer} /\ turns[x] = 0 /\ pc[x] = "run"
    BY <1>1, <1>2, <1>4, <2>1 DEF Inv, TypeOK
  <2>3. QED
    BY <1>4, <2>2 DEF Inv, TypeOK, SleepInv
<1>12. AltInv'
  <2>1. ASSUME NEW x \in {w, peer} PROVE AltInvOf(x)'
    <3>1. pc'[x] = "run" /\ todo'[x] = {} /\ guards'[x] = {}
      BY <1>1 DEF Inv, TypeOK, AltInv, AltInvOf
    <3>2. QED
      BY <3>1 DEF AltInvOf, GuardsOf
  <2>2. ASSUME NEW x \in Proc \ {w, peer} PROVE AltInvOf(x)'
    <3>1. ASSUME NEW g \in guards[x], GuardReady(g) PROVE GuardReady(g)'
      <4>1. g \in Chan => Receiver[g] = x /\ word[g] = Sender[g]
        BY <3>1, ChannelsAssumption
           DEF Inv, AltInv, AltInvOf, GuardsOf, GuardReady, AwaitsIn
      <4>2. g \in Chan => g # ch /\ word[g] \in Proc \ {w, peer}
        BY <1>1, <1>2, <1>3, <4>1, ChannelsAssumption
      <4>3. QED
        BY <1>4, <1>5, <3>1, <4>2, OtherReady DEF Inv, TypeOK
    <3>2. \A g \in guards[x] : g # Skip /\ word[g] = x => word'[g] = x
      BY <1>4 DEF Inv, TypeOK, Guard
    <3>3. QED
      BY <1>5, <3>1, <3>2, OtherAlt
  <2>3. QED
    BY <2>1, <2>2 DEF AltInv
<1>13. QED
  BY <1>6, <1>7, <1>8, <1>9, <1>10, <1>11, <1>12 DEF Inv

\* A sender finds an alternative and waits for it.
LEMMA NotifyInv ==
  ASSUME Inv, NEW w \in Proc, NEW ch \in Chan, NEW address \in Address,
         pc[w] = "run", turns[w] > 0, w = Sender[ch],
         NotifyAlternative(w, ch, address),
         previous' = previous, todo' = todo, pc' = pc, guards' = guards,
         memory' \in [Proc -> [Address -> Message \union Guard
                                          \union {ALT_NONE_SELECTED}]],
         \A x \in Proc \ {w} : memory'[x] = memory[x],
         memory'[w]["buffer"] \in Message,
         sent' \in [Chan -> Message],
         \A d \in Chan \ {ch} : sent'[d] = sent[d],
         sent'[ch] # sent[ch], memory'[w][address] = sent'[ch]
  PROVE  Inv'
<1>1. PICK peer \in Proc : peer = word[ch] /\ peer # w
  BY DEF NotifyAlternative, Inv, TypeOK
<1>2. /\ pc[peer] \in {"enabling", "disabling"}
      /\ pointer[peer] = "ALT_WAITING" <=>
           pc[peer] = "disabling" /\ turns[peer] = 0
      /\ peer = Receiver[ch] /\ RegisteredIn(ch)
  <2>1. pc[peer] # "run"
    BY <1>1, PointerTells DEF NotifyAlternative
  <2>2. peer = Receiver[ch] /\ RegisteredIn(ch)
    BY <1>1, <2>1, AltInWord
  <2>3. QED
    BY <1>1, <2>2, PointerTells DEF RegisteredIn, Registered
<1>3. turns[w] = 1 /\ \A d \in Chan : word[d] # w
  BY RunnerInNoWord DEF Inv, TypeOK, ReadyOnce
<1>4. /\ word' = [word EXCEPT ![ch] = w]
      /\ pointer' = [pointer EXCEPT ![w] = address, ![peer] = "ALT_READY"]
      /\ turns' = [turns EXCEPT ![w] = 0,
                      ![peer] = IF pointer[peer] = "ALT_WAITING" THEN 1 ELSE @]
      /\ received' = received
  <2>1. /\ turns[w] - 1 = 0
        /\ pointer[peer] = "ALT_WAITING" => turns[peer] + 1 = 1
    BY <1>2, <1>3
  <2>2. QED
    BY <1>1, <2>1 DEF NotifyAlternative, ReadyPeer, Inv, TypeOK
<1>5. \A x \in Proc \ {w, peer} : Same(x)
  BY <1>4 DEF Inv, TypeOK, Same
<1>6. TypeOK'
  BY <1>1, <1>4 DEF Inv, TypeOK, AltState
<1>7. ReadyOnce'
  BY SMTT(20), <1>1, <1>4 DEF Inv, TypeOK, ReadyOnce
<1>8. WordInv'
  <2>1. WordInvOf(ch)'
    <3>1. SenderIn(ch)'
      BY <1>1, <1>2, <1>3, <1>4, ChannelsAssumption
         DEF Inv, TypeOK, SenderIn, AwaitsIn, RegisteredIn
    <3>2. QED
      BY <3>1 DEF WordInvOf
  <2>2. ASSUME NEW d \in Chan \ {ch} PROVE WordInvOf(d)'
    <3>1. SameWord(d) /\ word[d] # w
      BY <1>3, <1>4 DEF Inv, TypeOK, SameWord
    <3>2. CASE word[d] = peer
      <4>1. RegisteredIn(d) /\ peer = Receiver[d]
        BY <1>2, <3>2, AltInWord
      <4>2. RegisteredIn(d)'
        BY <3>1, <4>1 DEF RegisteredIn, Registered, SameWord
      <4>3. QED
        BY <4>2 DEF WordInvOf
    <3>3. CASE word[d] # peer
      BY <1>5, <3>1, <3>3, OtherWord
    <3>4. QED
      BY <3>2, <3>3
  <2>3. QED
    BY <2>1, <2>2 DEF WordInv
<1>9. OnceInWords'
  BY <1>3, <1>4 DEF Inv, TypeOK, OnceInWords
<1>10. PreviousInv'
  BY <1>1, <1>2, <1>3, <1>4 DEF Inv, TypeOK, PreviousInv
<1>11. SleepInv'
  <2>1. word'[ch] = w /\ \A d \in Chan : word[d] # peer => word'[d] = word[d]
    BY <1>1, <1>4 DEF Inv, TypeOK
  <2>2. ASSUME NEW x \in Proc \ {w}, turns'[x] = 0, pc'[x] = "run"
        PROVE  x # peer /\ turns[x] = 0 /\ pc[x] = "run"
    BY <1>1, <1>2, <1>4, <2>2 DEF Inv, TypeOK
  <2>3. ASSUME NEW x \in Proc, turns'[x] = 0, pc'[x] = "run"
        PROVE  \/ \E d \in Chan : word'[d] = x
               \/ \E y \in Proc : previous'[y] = x
    <3>1. CASE x = w
      BY <2>1, <3>1
    <3>2. CASE x # w
      BY <2>1, <2>2, <2>3, <3>2 DEF Inv, SleepInv
    <3>3. QED
      BY <3>1, <3>2
  <2>4. QED
    BY <2>3 DEF SleepInv
<1>12. AltInv'
  <2>1. ASSUME NEW g, GuardReady(g) PROVE GuardReady(g)'
    <3>1. g \in Chan => g # ch /\ word[g] \in Proc \ {w, peer}
      BY <1>1, <1>2, <1>3, <2>1, ChannelsAssumption DEF GuardReady, AwaitsIn
    <3>2. QED
      BY <1>4, <1>5, <2>1, <3>1, OtherReady DEF Inv, TypeOK
  <2>2. AltInvOf(w)'
    BY <1>2, <1>4 DEF Inv, TypeOK, AltInv, AltInvOf, GuardsOf
  <2>3. AltInvOf(peer)'
    <3>1. GuardReady(ch)'
      BY <1>1, <1>2, <1>3, <1>4, ChannelsAssumption
         DEF Inv, TypeOK, GuardReady, AwaitsIn
    <3>2. /\ pointer'[peer] = "ALT_READY" /\ turns'[peer] = 1
          /\ memory'[peer] = memory[peer]
      <4>1. turns[peer] \in 0 .. 1
        BY DEF Inv, ReadyOnce
      <4>2. pc[peer] = "enabling" => turns[peer] = 1
        BY DEF Inv, AltInv, AltInvOf, EnablingInv
      <4>3. QED
        BY <1>1, <1>2, <1>4, <4>1, <4>2 DEF Inv, TypeOK
    <3>3. CASE pc[peer] = "enabling"
      <4>1. ch \in guards[peer] \ todo[peer]
        BY <1>2, <3>3 DEF RegisteredIn, Registered
      <4>2. EnablingInv(peer)'
        BY <3>1, <3>2, <4>1 DEF EnablingInv
      <4>3. QED
        BY <3>3, <4>2 DEF Inv, AltInv, AltInvOf, GuardsOf
    <3>4. CASE pc[peer] = "disabling"
      <4>1. ch \in todo[peer]
        BY <1>2, <3>4 DEF RegisteredIn, Registered
      <4>2. \/ memory[peer]["temp"] = ALT_NONE_SELECTED
            \/ /\ memory[peer]["temp"] \in guards[peer]
               /\ GuardReady(memory[peer]["temp"])
        BY <3>4 DEF Inv, AltInv, AltInvOf, ReadyOnce, AsleepInv, SelectingInv
      <4>3. SelectingInv(peer)'
        BY <2>1, <3>1, <3>2, <4>1, <4>2 DEF SelectingInv
      <4>4. QED
        BY <3>2, <3>4, <4>3 DEF Inv, AltInv, AltInvOf, GuardsOf
    <3>5. QED
      BY <1>2, <3>3, <3>4
  <2>4. ASSUME NEW x \in Proc \ {w, peer} PROVE AltInvOf(x)'
    <3>1. \A g \in guards[x] : g # Skip /\ word[g] = x => word'[g] = x
      BY <1>1, <1>4 DEF Inv, TypeOK, Guard
    <3>2. QED
      BY <1>5, <2>1, <3>1, OtherAlt
  <2>5. QED
    BY <2>2, <2>3, <2>4 DEF AltInv
<1>13. QED
  BY <1>6, <1>7, <1>8, <1>9, <1>10, <1>11, <1>12 DEF Inv

\* out, outbyte and outword keep the invariant.
LEMMA OutputInv ==
  ASSUME Inv, NEW w \in Proc, NEW ch \in Chan, Output(w, ch) PROVE Inv'
<1> DEFINE address == IF ch \in ScalarChan THEN "temp" ELSE "buffer"
           message == Following(sent[ch])
           stored  == [memory EXCEPT ![w][address] = message]
<1>1. /\ pc[w] = "run" /\ turns[w] > 0 /\ w = Sender[ch]
      /\ sent' = [sent EXCEPT ![ch] = message]
      /\ previous' = previous /\ todo' = todo /\ pc' = pc /\ guards' = guards
  BY DEF Output, AtOutput, CanRun
<1>2. address \in Address /\ message \in Message /\ message # sent[ch]
  BY FollowingMessage DEF Inv, TypeOK, Address
<1>3. /\ stored \in [Proc -> [Address -> Message \union Guard
                                         \union {ALT_NONE_SELECTED}]]
      /\ stored[w][address] = message
      /\ \A x \in Proc \ {w} : stored[x] = memory[x]
      /\ \A x \in Proc : stored[x]["buffer"] \in Message
  BY <1>2 DEF Inv, TypeOK, Address
<1>4. sent' \in [Chan -> Message] /\ \A d \in Chan \ {ch} : sent'[d] = sent[d]
  BY <1>1, <1>2 DEF Inv, TypeOK
<1> HIDE DEF address, message, stored
<1>5. CASE AwaitPeer(w, ch, address) /\ memory' = stored
  <2>1. sent[ch] = received[ch]
    BY <1>5, ChannelsAssumption
       DEF AwaitPeer, Inv, WordInv, WordInvOf, SenderIn, ReceiverIn,
           RegisteredIn, AwaitsIn
  <2>2. guards' = [guards EXCEPT ![w] = {}]
    BY <1>1 DEF Inv, TypeOK, AltInv, AltInvOf
  <2>3. QED
    BY <1>1, <1>2, <1>3, <1>4, <1>5, <2>1, <2>2, AwaitInv DEF Inv, TypeOK
<1>6. CASE NotifyAlternative(w, ch, address) /\ memory' = stored
  BY <1>1, <1>2, <1>3, <1>4, <1>6, NotifyInv DEF Inv, TypeOK
<1>7. CASE /\ CompleteWith(word[ch], w, ch)
           /\ memory' =
                [stored EXCEPT ![word[ch]][pointer[word[ch]]] = message]
           /\ received' = [received EXCEPT ![ch] = message]
  <2>1. PICK peer \in Proc : peer = word[ch] /\ peer # w
    BY <1>7 DEF CompleteWith, Inv, TypeOK
  <2>2. ReceiverIn(ch) /\ peer = Receiver[ch]
    <3>1. SenderIn(ch) \/ ReceiverIn(ch)
      BY <1>7, <2>1, PointerTells, TransferInWord DEF CompleteWith
    <3>2. QED
      BY <1>1, <2>1, <3>1 DEF SenderIn, ReceiverIn, AwaitsIn
  <2>3. memory' = [stored EXCEPT ![peer]["buffer"] = message]
    BY <1>7, <2>1, <2>2 DEF ReceiverIn
  <2>4. /\ memory' \in [Proc -> [Address -> Message \union Guard
                                             \union {ALT_NONE_SELECTED}]]
        /\ \A x \in Proc \ {w, peer} : memory'[x] = memory[x]
        /\ \A x \in Proc : memory'[x]["buffer"] \in Message
    BY <1>2, <1>3, <2>3 DEF Address
  <2>5. pc' = [pc EXCEPT ![w] = "run"] /\ guards' = [guards EXCEPT ![w] = {}]
    BY <1>1 DEF Inv, TypeOK, AltInv, AltInvOf
  <2>6. /\ received' \in [Chan -> Message] /\ sent'[ch] = received'[ch]
        /\ \A d \in Chan \ {ch} : received'[d] = received[d]
    BY <1>1, <1>2, <1>7 DEF Inv, TypeOK
  <2>7. QED
    BY <1>1, <1>4, <1>7, <2>1, <2>4, <2>5, <2>6, CompleteInv
<1>8. QED
  BY <1>5, <1>6, <1>7 DEF Output, address, message, stored

\* A branch finds the sender its guard was selected for.
LEMMA BranchMeetsSender ==
  ASSUME Inv, NEW w \in Proc, NEW ch \in Chan, AtInput(w, ch)
  PROVE  /\ Receiver[ch] = w
         /\ pc[w] = "branch" => ch \in guards[w] /\ SenderIn(ch)
<1>1. CASE pc[w] = "run"
  BY <1>1 DEF AtInput
<1>2. CASE pc[w] = "branch"
  <2>1. ch \in guards[w] /\ AwaitsIn(Sender[ch], ch)
    BY <1>2, ChannelsAssumption
       DEF AtInput, Inv, AltInv, AltInvOf, BranchInv, GuardReady
  <2>2. Receiver[ch] = w
    BY <2>1, ChannelsAssumption DEF Inv, AltInv, AltInvOf, GuardsOf
  <2>3. QED
    BY <2>1, <2>2, TransferInWord, ChannelsAssumption
       DEF AwaitsIn, ReceiverIn
<1>3. QED
  BY <1>1, <1>2 DEF AtInput

\* in keeps the invariant, in a branch or by itself.
LEMMA InputInv ==
  ASSUME Inv, NEW w \in Proc, NEW ch \in Chan, Input(w, ch) PROVE Inv'
<1>1. /\ pc[w] \in {"run", "branch"} /\ turns[w] > 0 /\ w = Receiver[ch]
      /\ pc' = [pc EXCEPT ![w] = "run"]
      /\ guards' = [guards EXCEPT ![w] = {}]
      /\ sent' = sent /\ previous' = previous /\ todo' = todo
  BY BranchMeetsSender DEF Input, AtInput, CanRun
<1>2. CASE AwaitPeer(w, ch, "buffer") /\ memory' = memory
  <2>1. pc[w] = "run" /\ pc' = pc
    <3>1. word[ch] # Sender[ch]
      BY <1>2, ChannelsAssumption DEF AwaitPeer
    <3>2. pc[w] = "run"
      BY <1>1, <3>1, BranchMeetsSender DEF Input, SenderIn, AwaitsIn
    <3>3. QED
      BY <1>1, <3>2 DEF Inv, TypeOK
  <2>2. "buffer" \in Address
    BY DEF Address
  <2>3. QED
    BY <1>1, <1>2, <2>1, <2>2, AwaitInv DEF Inv, TypeOK
<1>3. CASE /\ CompleteWith(word[ch], w, ch)
           /\ memory' = [memory EXCEPT ![w]["buffer"] = Held(word[ch])]
           /\ received' = [received EXCEPT ![ch] = Held(word[ch])]
  <2>1. PICK peer \in Proc : peer = word[ch] /\ peer # w
    BY <1>3 DEF CompleteWith, Inv, TypeOK
  <2>2. SenderIn(ch) /\ peer = Sender[ch]
    <3>1. SenderIn(ch) \/ ReceiverIn(ch)
      BY <1>3, <2>1, PointerTells, TransferInWord DEF CompleteWith
    <3>2. QED
      BY <1>1, <2>1, <3>1 DEF SenderIn, ReceiverIn, AwaitsIn
  <2>3. Held(word[ch]) = sent[ch] /\ sent[ch] \in Message
    BY <2>1, <2>2 DEF Held, SenderIn, Inv, TypeOK
  <2>4. /\ memory' \in [Proc -> [Address -> Message \union Guard
                                             \union {ALT_NONE_SELECTED}]]
        /\ \A x \in Proc \ {w, peer} : memory'[x] = memory[x]
        /\ \A x \in Proc : memory'[x]["buffer"] \in Message
    BY <1>3, <2>3 DEF Inv, TypeOK, Address
  <2>5. /\ received' \in [Chan -> Message] /\ sent'[ch] = received'[ch]
        /\ \A d \in Chan \ {ch} : received'[d] = received[d]
        /\ sent' \in [Chan -> Message]
    BY <1>1, <1>3, <2>3 DEF Inv, TypeOK
  <2>6. QED
    BY <1>1, <1>3, <2>1, <2>4, <2>5, CompleteInv
<1>4. QED
  BY <1>2, <1>3 DEF Input

------------------------------------------------------------------------------
(* The alternative *)

\* A step of an alternative that touches no channel word but for its own
\* registration, and nobody else.
LEMMA AltStepInv ==
  ASSUME Inv, NEW w \in Proc, turns[w] > 0,
         TypeOK', ReadyOnce',
         \A x \in Proc \ {w} : Same(x),
         \A ch \in Chan : \/ SameWord(ch)
                          \/ /\ \/ word[ch] = w /\ word'[ch] = NoProcess
                                \/ word[ch] = NoProcess /\ word'[ch] = w
                             /\ sent'[ch] = sent[ch]
                             /\ received'[ch] = received[ch],
         \A ch \in Chan : word'[ch] = w =>
           w = Receiver[ch] /\ ch \in Registered(w)',
         pc'[w] = "run" => turns'[w] = 1,
         previous' = previous,
         AltInvOf(w)'
  PROVE  Inv'
<1>1. WordInv'
  <2>1. SUFFICES ASSUME NEW ch \in Chan PROVE WordInvOf(ch)'
    BY DEF WordInv
  <2>2. CASE word[ch] = w \/ word'[ch] = w
    <3>1. CASE word'[ch] = w
      <4>1. sent[ch] = received[ch]
        <5>1. CASE word[ch] = NoProcess
          BY <5>1, ChannelsAssumption
             DEF Inv, WordInv, WordInvOf, SenderIn, ReceiverIn, RegisteredIn,
                 AwaitsIn
        <5>2. CASE word[ch] = w
          BY <3>1, <5>2 DEF Inv, WordInv, WordInvOf, SenderIn, ReceiverIn,
                            RegisteredIn, AwaitsIn
        <5>3. QED
          BY <3>1, <5>1, <5>2, ChannelsAssumption DEF SameWord
      <4>2. RegisteredIn(ch)'
        BY <3>1, <4>1 DEF RegisteredIn, SameWord
      <4>3. QED
        BY <4>2 DEF WordInvOf
    <3>2. CASE word'[ch] # w
      <4>1. word[ch] = w /\ word'[ch] = NoProcess
        BY <2>2, <3>2 DEF SameWord
      <4>2. sent[ch] = received[ch]
        BY <4>1 DEF Inv, WordInv, WordInvOf, SenderIn, ReceiverIn,
                    RegisteredIn, AwaitsIn
      <4>3. QED
        BY <3>2, <4>1, <4>2 DEF WordInvOf, SameWord
    <3>3. QED
      BY <3>1, <3>2
  <2>3. CASE word[ch] # w /\ word'[ch] # w
    BY <2>3, OtherWord
  <2>4. QED
    BY <2>2, <2>3
<1>2. \A ch \in Chan, x \in Proc \ {w} : word'[ch] = x <=> word[ch] = x
  BY ChannelsAssumption DEF SameWord
<1>3. OnceInWords'
  <2>1. SUFFICES ASSUME NEW ch \in Chan, NEW d \in Chan, NEW x \in Proc,
                        word'[ch] = x, word'[d] = x, pc'[x] = "run"
                 PROVE  ch = d
    BY DEF OnceInWords
  <2>2. x # w
    BY <2>1 DEF Registered
  <2>3. QED
    BY <1>2, <2>1, <2>2 DEF Inv, OnceInWords, Same
<1>4. PreviousInv'
  <2>1. ASSUME NEW x \in Proc, previous[x] \in Proc
        PROVE  previous[x] # w /\ Same(previous[x])
    BY <2>1 DEF Inv, PreviousInv
  <2>2. QED
    BY <1>2, <2>1 DEF Inv, PreviousInv, Same
<1>5. SleepInv'
  <2>1. ASSUME NEW x \in Proc, turns'[x] = 0, pc'[x] = "run"
        PROVE  x # w /\ turns[x] = 0 /\ pc[x] = "run"
    BY <2>1 DEF Same
  <2>2. QED
    BY <1>2, <2>1 DEF Inv, SleepInv
<1>6. AltInv'
  <2>1. ASSUME NEW x \in Proc \ {w} PROVE AltInvOf(x)'
    <3>1. ASSUME NEW g, GuardReady(g) PROVE GuardReady(g)'
      <4>1. g \in Chan => /\ word[g] \in Proc
                          /\ pc[word[g]] = "run" /\ turns[word[g]] = 0
        BY <3>1, ChannelsAssumption DEF GuardReady, AwaitsIn
      <4>2. g \in Chan => word[g] \in Proc \ {w} /\ word'[g] = word[g]
        BY <4>1, ChannelsAssumption DEF SameWord
      <4>3. QED
        BY <3>1, <4>2, OtherReady
    <3>2. \A g \in guards[x] : g # Skip /\ word[g] = x => word'[g] = x
      BY ChannelsAssumption DEF Inv, TypeOK, Guard, SameWord
    <3>3. QED
      BY <3>1, <3>2, OtherAlt
  <2>2. QED
    BY <2>1 DEF AltInv
<1>7. QED
  BY <1>1, <1>3, <1>4, <1>6, <1>5 DEF Inv

\* A sender's readiness in a guard survives what an alternative does.
LEMMA ReadyKept ==
  ASSUME Inv, NEW w \in Proc, turns[w] > 0, NEW g, GuardReady(g),
         \A x \in Proc \ {w} : Same(x),
         \A ch \in Chan :
           word[ch] \notin {w, NoProcess} => word'[ch] = word[ch]
  PROVE  GuardReady(g)'
<1>1. g \in Chan => word[g] \in Proc \ {w} /\ word'[g] = word[g]
  BY ChannelsAssumption DEF GuardReady, AwaitsIn
<1>2. QED
  BY <1>1, OtherReady

\* Whoever holds the word of a guard that is not registered is its sender.
LEMMA OtherInGuard ==
  ASSUME Inv, NEW w \in Proc, NEW ch \in guards[w] \intersect Chan,
         turns[w] > 0, word[ch] \notin {NoProcess, w}
  PROVE  GuardReady(ch)
<1>1. Receiver[ch] = w
  BY ChannelsAssumption DEF Inv, AltInv, AltInvOf, GuardsOf
<1>2. QED
  BY <1>1 DEF Inv, WordInv, WordInvOf, SenderIn, ReceiverIn, RegisteredIn,
              AwaitsIn, GuardReady

\* alt keeps the invariant.
LEMMA BeginAlternativeInv ==
  ASSUME Inv, NEW w \in Proc, NEW choice \in SUBSET GuardsOf(w),
         BeginAlternative(w, choice)
  PROVE  Inv'
<1>1. turns[w] = 1 /\ \A ch \in Chan : word[ch] # w
  BY RunnerInNoWord DEF BeginAlternative, CanRun, Inv, TypeOK, ReadyOnce
<1>2. TypeOK' /\ ReadyOnce'
  BY DEF BeginAlternative, Inv, TypeOK, ReadyOnce, GuardsOf, Guard, AltState
<1>3. AltInvOf(w)'
  BY <1>1 DEF BeginAlternative, Inv, TypeOK, AltInvOf, EnablingInv, GuardsOf
<1>4. \A x \in Proc \ {w} : Same(x)
  BY DEF BeginAlternative, Same, Inv, TypeOK
<1>5. QED
  BY <1>1, <1>2, <1>3, <1>4, AltStepInv DEF BeginAlternative, SameWord

\* enbc keeps the invariant.
LEMMA EnableChannelInv ==
  ASSUME Inv, NEW w \in Proc, NEW ch \in Chan, EnableChannel(w, ch)
  PROVE  Inv'
<1>1. /\ turns[w] = 1 /\ pc[w] = "enabling" /\ ch \in guards[w]
      /\ todo' = [todo EXCEPT ![w] = @ \ {ch}]
      /\ memory' = memory /\ turns' = turns /\ pc' = pc /\ guards' = guards
      /\ previous' = previous /\ sent' = sent /\ received' = received
      /\ Receiver[ch] = w
  BY ChannelsAssumption DEF EnableChannel, Enabling, CanRun, Inv, TypeOK,
     ReadyOnce, AltInv, AltInvOf, GuardsOf
<1>2. \/ /\ word[ch] = NoProcess
         /\ word' = [word EXCEPT ![ch] = w] /\ pointer' = pointer
      \/ /\ word[ch] \notin {NoProcess, w} /\ word' = word
         /\ pointer' = [pointer EXCEPT ![w] = "ALT_READY"]
      \/ word[ch] = w /\ word' = word /\ pointer' = pointer
  BY DEF EnableChannel, Registers
<1>3. TypeOK' /\ ReadyOnce'
  BY <1>1, <1>2 DEF Inv, TypeOK, ReadyOnce, AltState
<1>4. \A x \in Proc \ {w} : Same(x)
  BY <1>1, <1>2 DEF Same, Inv, TypeOK
<1>5. \A d \in Chan \ {ch} : SameWord(d)
  BY <1>1, <1>2 DEF SameWord, Inv, TypeOK
<1>6. \A d \in Chan : word'[d] = w =>
         w = Receiver[d] /\ d \in Registered(w)'
  <2>1. SUFFICES ASSUME NEW d \in Chan \ {ch}, word'[d] = w
                 PROVE  w = Receiver[d] /\ d \in Registered(w)'
    BY <1>1 DEF Registered, Inv, TypeOK
  <2>2. RegisteredIn(d) /\ w = Receiver[d]
    BY <1>1, <1>5, <2>1, AltInWord DEF SameWord
  <2>3. QED
    BY <1>1, <2>2 DEF RegisteredIn, Registered, Inv, TypeOK
<1>7. AltInvOf(w)'
  <2>1. EnablingInv(w) /\ AltInvOf(w)
    BY <1>1 DEF Inv, AltInv, AltInvOf
  <2>2. todo'[w] = todo[w] \ {ch} /\ guards'[w] = guards[w]
    BY <1>1 DEF Inv, TypeOK
  <2>3. ASSUME NEW g, GuardReady(g) PROVE GuardReady(g)'
    <3>1. \A d \in Chan : word[d] \notin {w, NoProcess} => word'[d] = word[d]
      BY <1>1, <1>2 DEF Inv, TypeOK
    <3>2. QED
      BY <1>1, <1>4, <2>3, <3>1, ReadyKept
  <2>4. pointer'[w] = "ALT_ENABLING" =>
          \A g \in guards[w] \ todo'[w] : g # Skip /\ word'[g] = w
    <3>1. SUFFICES ASSUME pointer'[w] = "ALT_ENABLING"
                   PROVE  \A g \in guards[w] \ todo'[w] :
                            g # Skip /\ word'[g] = w
      OBVIOUS
    <3>2. pointer[w] = "ALT_ENABLING" /\ word'[ch] = w
      BY <1>2, <3>1 DEF Inv, TypeOK
    <3>3. QED
      BY <1>2, <2>1, <2>2, <3>2, ChannelsAssumption
         DEF EnablingInv, Inv, TypeOK, Guard
  <2>5. pointer'[w] = "ALT_READY" =>
          \E g \in guards[w] \ todo'[w] : GuardReady(g)'
    <3>1. CASE word[ch] \notin {NoProcess, w}
      BY <1>1, <2>2, <2>3, <3>1, OtherInGuard
    <3>2. CASE word[ch] \in {NoProcess, w}
      BY <1>2, <2>1, <2>2, <2>3, <3>2 DEF EnablingInv
    <3>3. QED
      BY <3>1, <3>2
  <2>6. pointer'[w] \in {"ALT_ENABLING", "ALT_READY"}
    BY <1>2, <2>1 DEF EnablingInv, Inv, TypeOK
  <2>7. EnablingInv(w)'
    BY <1>1, <2>2, <2>4, <2>5, <2>6 DEF EnablingInv
  <2>8. QED
    BY <1>1, <2>1, <2>2, <2>7 DEF AltInvOf, GuardsOf
<1>8. \/ SameWord(ch)
      \/ /\ word[ch] = NoProcess /\ word'[ch] = w
         /\ sent'[ch] = sent[ch] /\ received'[ch] = received[ch]
  BY <1>1, <1>2 DEF SameWord, Inv, TypeOK
<1>9. QED
  BY <1>1, <1>3, <1>4, <1>5, <1>6, <1>7, <1>8, AltStepInv

\* enbs keeps the invariant.
LEMMA EnableSkipInv ==
  ASSUME Inv, NEW w \in Proc, EnableSkip(w) PROVE Inv'
<1>1. /\ turns[w] = 1 /\ pc[w] = "enabling" /\ Skip \in guards[w]
      /\ todo' = [todo EXCEPT ![w] = @ \ {Skip}]
      /\ memory' = memory /\ turns' = turns /\ pc' = pc /\ guards' = guards
      /\ previous' = previous /\ sent' = sent /\ received' = received
      /\ word' = word /\ pointer' = [pointer EXCEPT ![w] = "ALT_READY"]
  BY DEF EnableSkip, Enabling, CanRun, Inv, TypeOK, ReadyOnce
<1>2. TypeOK' /\ ReadyOnce'
  BY <1>1 DEF Inv, TypeOK, ReadyOnce, AltState
<1>3. \A x \in Proc \ {w} : Same(x)
  BY <1>1 DEF Same, Inv, TypeOK
<1>4. ASSUME NEW d \in Chan, word[d] = w
      PROVE  w = Receiver[d] /\ d \in Registered(w)'
  <2>1. RegisteredIn(d) /\ w = Receiver[d]
    BY <1>1, <1>4, AltInWord
  <2>2. QED
    BY <1>1, <2>1, ChannelsAssumption
       DEF RegisteredIn, Registered, Inv, TypeOK
<1>5. AltInvOf(w)'
  <2>1. EnablingInv(w) /\ AltInvOf(w)
    BY <1>1 DEF Inv, AltInv, AltInvOf
  <2>2. /\ todo'[w] = todo[w] \ {Skip} /\ guards'[w] = guards[w]
        /\ pointer'[w] = "ALT_READY"
    BY <1>1 DEF Inv, TypeOK
  <2>3. EnablingInv(w)'
    BY <1>1, <2>2 DEF EnablingInv, GuardReady
  <2>4. QED
    BY <1>1, <2>1, <2>2, <2>3 DEF AltInvOf, GuardsOf
<1>6. QED
  BY <1>1, <1>2, <1>3, <1>4, <1>5, AltStepInv DEF SameWord

\* altwt keeps the invariant.
LEMMA WaitAlternativeInv ==
  ASSUME Inv, NEW w \in Proc, WaitAlternative(w) PROVE Inv'
<1>1. /\ turns[w] = 1 /\ pc[w] = "enabling" /\ todo[w] = {}
      /\ memory' = [memory EXCEPT ![w]["temp"] = ALT_NONE_SELECTED]
      /\ pc' = [pc EXCEPT ![w] = "disabling"]
      /\ todo' = [todo EXCEPT ![w] = guards[w]]
      /\ guards' = guards /\ previous' = previous
      /\ sent' = sent /\ received' = received /\ word' = word
  BY DEF WaitAlternative, CanRun, Inv, TypeOK, ReadyOnce
<1>2. \/ pointer[w] = "ALT_READY" /\ pointer' = pointer /\ turns' = turns
      \/ /\ pointer[w] # "ALT_READY"
         /\ pointer' = [pointer EXCEPT ![w] = "ALT_WAITING"]
         /\ turns' = [turns EXCEPT ![w] = 0]
  BY <1>1 DEF WaitAlternative
<1>3. TypeOK' /\ ReadyOnce'
  <2>1. /\ memory' \in [Proc -> [Address -> Message \union Guard
                                             \union {ALT_NONE_SELECTED}]]
        /\ \A x \in Proc : memory'[x]["buffer"] \in Message
    BY <1>1 DEF Inv, TypeOK, Address
  <2>2. turns \in [Proc -> 0 .. 1]
    BY DEF Inv, TypeOK, ReadyOnce
  <2>3. turns' \in [Proc -> 0 .. 1]
    BY <1>2, <2>2
  <2>4. pointer' \in [Proc -> Address \union AltState]
    BY <1>2 DEF Inv, TypeOK, AltState
  <2>5. QED
    BY <1>1, <2>1, <2>3, <2>4 DEF Inv, TypeOK, ReadyOnce
<1>4. \A x \in Proc \ {w} : Same(x)
  BY <1>1, <1>2 DEF Same, Inv, TypeOK
<1>5. ASSUME NEW d \in Chan, word[d] = w
      PROVE  w = Receiver[d] /\ d \in Registered(w)'
  <2>1. RegisteredIn(d) /\ w = Receiver[d]
    BY <1>1, <1>5, AltInWord
  <2>2. QED
    BY <1>1, <2>1 DEF RegisteredIn, Registered, Inv, TypeOK
<1>6. AltInvOf(w)'
  <2>1. EnablingInv(w) /\ AltInvOf(w)
    BY <1>1 DEF Inv, AltInv, AltInvOf
  <2>2. /\ todo'[w] = guards[w] /\ guards'[w] = guards[w]
        /\ pc'[w] = "disabling" /\ memory'[w]["temp"] = ALT_NONE_SELECTED
    BY <1>1 DEF Inv, TypeOK, Address
  <2>3. CASE pointer[w] = "ALT_READY" /\ pointer' = pointer /\ turns' = turns
    <3>1. \A g : GuardReady(g) => GuardReady(g)'
      BY <1>1, <1>4, ReadyKept
    <3>2. SelectingInv(w)'
      BY <1>1, <2>1, <2>2, <2>3, <3>1 DEF EnablingInv, SelectingInv
    <3>3. QED
      BY <1>1, <2>1, <2>2, <2>3, <3>2 DEF AltInvOf, GuardsOf
  <2>4. CASE /\ pointer[w] # "ALT_READY"
             /\ pointer' = [pointer EXCEPT ![w] = "ALT_WAITING"]
             /\ turns' = [turns EXCEPT ![w] = 0]
    <3>1. pointer'[w] = "ALT_WAITING" /\ turns'[w] = 0
      BY <2>4 DEF Inv, TypeOK
    <3>2. AsleepInv(w)'
      BY <1>1, <2>1, <2>2, <2>4, <3>1 DEF EnablingInv, AsleepInv
    <3>3. QED
      BY <2>1, <2>2, <3>1, <3>2 DEF AltInvOf, GuardsOf
  <2>5. QED
    BY <1>2, <2>3, <2>4
<1>7. pc'[w] # "run"
  BY <1>1 DEF Inv, TypeOK
<1>8. QED
  BY <1>1, <1>3, <1>4, <1>5, <1>6, <1>7, AltStepInv DEF SameWord

\* Selecting a guard keeps the type of memory.
LEMMA SelectType ==
  ASSUME Inv, NEW w \in Proc, NEW guard \in Guard
  PROVE  /\ Select(w, guard) \in [Proc -> [Address -> Message \union Guard
                                                  \union {ALT_NONE_SELECTED}]]
         /\ \A x \in Proc : Select(w, guard)[x]["buffer"] \in Message
BY DEF Inv, TypeOK, Select, Address

\* The branch selected is a ready guard, and one is still to come or selected.
LEMMA SelectingKept ==
  ASSUME Inv, NEW w \in Proc, NEW guard \in guards[w],
         turns[w] > 0, pc[w] = "disabling",
         todo'[w] = todo[w] \ {guard},
         \A x \in Proc \ {w} : Same(x),
         \A ch \in Chan :
           word[ch] \notin {w, NoProcess} => word'[ch] = word[ch],
         pointer' = pointer, turns' = turns, pc' = pc, guards' = guards,
         \/ GuardReady(guard) /\ memory' = Select(w, guard)
         \/ ~GuardReady(guard) /\ memory' = memory
  PROVE  AltInvOf(w)'
<1>1. turns[w] = 1 /\ AltInvOf(w) /\ SelectingInv(w)
  BY DEF Inv, TypeOK, ReadyOnce, AltInv, AltInvOf
<1>2. \A g : GuardReady(g) => GuardReady(g)'
  BY <1>1, ReadyKept
<1>3. ALT_NONE_SELECTED \notin guards[w]
  BY <1>1, ChannelsAssumption DEF AltInvOf, GuardsOf, Guard
<1>4. SelectingInv(w)'
  <2>1. CASE GuardReady(guard) /\ memory' = Select(w, guard)
    <3>1. memory'[w]["temp"] = IF memory[w]["temp"] = ALT_NONE_SELECTED
                               THEN guard ELSE memory[w]["temp"]
      BY <2>1 DEF Select, Inv, TypeOK, Address
    <3>2. QED
      BY <1>1, <1>2, <1>3, <2>1, <3>1 DEF SelectingInv
  <2>2. CASE ~GuardReady(guard) /\ memory' = memory
    BY <1>1, <1>2, <2>2 DEF SelectingInv
  <2>3. QED
    BY <2>1, <2>2
<1>5. QED
  BY <1>1, <1>4 DEF AltInvOf, GuardsOf

\* disc keeps the invariant.
LEMMA DisableChannelInv ==
  ASSUME Inv, NEW w \in Proc, NEW ch \in Chan, DisableChannel(w, ch)
  PROVE  Inv'
<1>1. /\ turns[w] = 1 /\ pc[w] = "disabling" /\ ch \in guards[w]
      /\ todo' = [todo EXCEPT ![w] = @ \ {ch}]
      /\ pointer' = pointer /\ turns' = turns /\ pc' = pc /\ guards' = guards
      /\ previous' = previous /\ sent' = sent /\ received' = received
      /\ Receiver[ch] = w
  BY ChannelsAssumption DEF DisableChannel, Disabling, CanRun, Inv, TypeOK,
     ReadyOnce, AltInv, AltInvOf, GuardsOf
<1>2. \/ /\ word[ch] \in {NoProcess, w} /\ ~GuardReady(ch)
         /\ word' = [word EXCEPT ![ch] = NoProcess] /\ memory' = memory
      \/ /\ word[ch] \notin {NoProcess, w} /\ GuardReady(ch)
         /\ word' = word /\ memory' = Select(w, ch)
  <2>1. CASE word[ch] \in {NoProcess, w}
    BY <1>1, <2>1, ChannelsAssumption
       DEF DisableChannel, Deregisters, Freed, GuardReady, AwaitsIn, Inv, TypeOK
  <2>2. CASE word[ch] \notin {NoProcess, w}
    BY <1>1, <2>2, OtherInGuard DEF DisableChannel, Deregisters
  <2>3. QED
    BY <2>1, <2>2
<1>3. TypeOK' /\ ReadyOnce'
  <2>1. /\ memory' \in [Proc -> [Address -> Message \union Guard
                                             \union {ALT_NONE_SELECTED}]]
        /\ \A x \in Proc : memory'[x]["buffer"] \in Message
    BY <1>2, SelectType DEF Inv, TypeOK, Guard
  <2>2. word' \in [Chan -> Proc \union {NoProcess}]
    BY <1>2 DEF Inv, TypeOK
  <2>3. QED
    BY <1>1, <2>1, <2>2 DEF Inv, TypeOK, ReadyOnce
<1>4. \A x \in Proc \ {w} : Same(x)
  BY <1>1, <1>2 DEF Same, Inv, TypeOK, Select
<1>5. /\ \A d \in Chan \ {ch} : SameWord(d)
      /\ \/ SameWord(ch)
         \/ /\ word[ch] = w /\ word'[ch] = NoProcess
            /\ sent'[ch] = sent[ch] /\ received'[ch] = received[ch]
  BY <1>1, <1>2 DEF SameWord, Inv, TypeOK
<1>6. \A d \in Chan : word'[d] = w =>
         w = Receiver[d] /\ d \in Registered(w)'
  <2>1. SUFFICES ASSUME NEW d \in Chan, word'[d] = w
                 PROVE  w = Receiver[d] /\ d \in Registered(w)'
    OBVIOUS
  <2>2. d # ch /\ word[d] = w
    BY <1>2, <1>5, <2>1, ChannelsAssumption DEF SameWord, Inv, TypeOK
  <2>3. RegisteredIn(d) /\ w = Receiver[d]
    BY <1>1, <2>2, AltInWord
  <2>4. QED
    BY <1>1, <2>2, <2>3 DEF RegisteredIn, Registered, Inv, TypeOK
<1>7. AltInvOf(w)'
  <2>1. \A d \in Chan : word[d] \notin {w, NoProcess} => word'[d] = word[d]
    BY <1>5 DEF SameWord
  <2>2. todo'[w] = todo[w] \ {ch}
    BY <1>1 DEF Inv, TypeOK
  <2>3. QED
    BY <1>1, <1>2, <1>4, <2>1, <2>2, SelectingKept
<1>8. QED
  BY <1>1, <1>3, <1>4, <1>5, <1>6, <1>7, AltStepInv

\* diss keeps the invariant.
LEMMA DisableSkipInv ==
  ASSUME Inv, NEW w \in Proc, DisableSkip(w) PROVE Inv'
<1>1. /\ turns[w] = 1 /\ pc[w] = "disabling" /\ Skip \in guards[w]
      /\ todo' = [todo EXCEPT ![w] = @ \ {Skip}]
      /\ pointer' = pointer /\ turns' = turns /\ pc' = pc /\ guards' = guards
      /\ previous' = previous /\ sent' = sent /\ received' = received
      /\ word' = word /\ memory' = Select(w, Skip)
  BY DEF DisableSkip, Disabling, CanRun, Inv, TypeOK, ReadyOnce
<1>2. TypeOK' /\ ReadyOnce'
  BY <1>1, SelectType DEF Inv, TypeOK, ReadyOnce, Guard
<1>3. \A x \in Proc \ {w} : Same(x)
  BY <1>1 DEF Same, Inv, TypeOK, Select
<1>4. ASSUME NEW d \in Chan, word[d] = w
      PROVE  w = Receiver[d] /\ d \in Registered(w)'
  <2>1. RegisteredIn(d) /\ w = Receiver[d]
    BY <1>1, <1>4, AltInWord
  <2>2. QED
    BY <1>1, <2>1, ChannelsAssumption
       DEF RegisteredIn, Registered, Inv, TypeOK
<1>5. AltInvOf(w)'
  <2>1. GuardReady(Skip) /\ todo'[w] = todo[w] \ {Skip}
    BY <1>1 DEF GuardReady, Inv, TypeOK
  <2>2. QED
    BY <1>1, <1>3, <2>1, SelectingKept
<1>6. QED
  BY <1>1, <1>2, <1>3, <1>4, <1>5, AltStepInv DEF SameWord

\* altend keeps the invariant.
LEMMA FinishAlternativeInv ==
  ASSUME Inv, NEW w \in Proc, FinishAlternative(w) PROVE Inv'
<1>1. /\ turns[w] = 1 /\ pc[w] = "disabling" /\ todo[w] = {}
      /\ pointer' = pointer /\ turns' = turns /\ memory' = memory
      /\ todo' = todo /\ previous' = previous
      /\ sent' = sent /\ received' = received /\ word' = word
  BY DEF FinishAlternative, CanRun, Inv, TypeOK, ReadyOnce
<1>2. \/ /\ memory[w]["temp"] = Skip
         /\ pc' = [pc EXCEPT ![w] = "run"]
         /\ guards' = [guards EXCEPT ![w] = {}]
      \/ /\ memory[w]["temp"] # Skip
         /\ pc' = [pc EXCEPT ![w] = "branch"]
         /\ guards' = guards
  BY DEF FinishAlternative
<1>3. TypeOK' /\ ReadyOnce'
  BY <1>1, <1>2 DEF Inv, TypeOK, ReadyOnce
<1>4. \A x \in Proc \ {w} : Same(x)
  BY <1>1, <1>2 DEF Same, Inv, TypeOK
<1>5. \A d \in Chan : word[d] # w
  BY <1>1, AltInWord DEF RegisteredIn, Registered
<1>6. AltInvOf(w)'
  <2>1. SelectingInv(w) /\ AltInvOf(w)
    BY <1>1 DEF Inv, AltInv, AltInvOf
  <2>2. CASE memory[w]["temp"] = Skip
    BY <1>1, <1>2, <2>2 DEF AltInvOf, GuardsOf, Inv, TypeOK
  <2>3. CASE memory[w]["temp"] # Skip
    <3>1. pc'[w] = "branch" /\ guards'[w] = guards[w]
      BY <1>2, <2>3 DEF Inv, TypeOK
    <3>2. /\ memory[w]["temp"] \in guards[w] \ {Skip}
          /\ GuardReady(memory[w]["temp"])
      BY <1>1, <2>1, <2>3 DEF SelectingInv
    <3>3. \A g : GuardReady(g) => GuardReady(g)'
      BY <1>1, <1>4, ReadyKept
    <3>4. BranchInv(w)'
      BY <1>1, <3>1, <3>2, <3>3 DEF BranchInv
    <3>5. QED
      BY <1>1, <2>1, <3>1, <3>4 DEF AltInvOf, GuardsOf
  <2>4. QED
    BY <2>2, <2>3
<1>7. QED
  BY <1>1, <1>3, <1>4, <1>5, <1>6, AltStepInv DEF SameWord

------------------------------------------------------------------------------
(* Reset *)

\* resetch keeps the invariant.
LEMMA ResetChannelInv ==
  ASSUME Inv, NEW w \in Proc, NEW ch \in Chan, ResetChannel(w, ch)
  PROVE  Inv'
<1>1. /\ turns[w] = 1 /\ pc[w] = "run" /\ pc[Receiver[ch]] = "run"
      /\ previous[w] = NoProcess
      /\ previous' = [previous EXCEPT ![w] = word[ch]]
      /\ word' = [word EXCEPT ![ch] = NoProcess]
      /\ sent' = [sent EXCEPT ![ch] = received[ch]]
      /\ pointer' = pointer /\ memory' = memory /\ turns' = turns /\ pc' = pc
      /\ todo' = todo /\ guards' = guards /\ received' = received
  BY DEF ResetChannel, Freed, CanRun, Inv, TypeOK, ReadyOnce
<1>2. \A x : Same(x)
  BY <1>1 DEF Same
<1>3. word[ch] \in Proc =>
        /\ pc[word[ch]] = "run" /\ turns[word[ch]] = 0
        /\ \A d \in Chan \ {ch} : word[d] # word[ch]
  <2>1. word[ch] \in Proc => pc[word[ch]] = "run"
    BY <1>1, AltInWord
  <2>2. QED
    BY <2>1, TransferInWord DEF Inv, OnceInWords
<1>4. TypeOK' /\ ReadyOnce'
  BY <1>1 DEF Inv, TypeOK, ReadyOnce
<1>5. WordInv'
  <2>1. WordInvOf(ch)'
    BY <1>1 DEF WordInvOf, Inv, TypeOK
  <2>2. ASSUME NEW d \in Chan \ {ch} PROVE WordInvOf(d)'
    <3>1. SameWord(d)
      BY <1>1 DEF SameWord, Inv, TypeOK
    <3>2. QED
      BY <1>2, <3>1, OtherWord
  <2>3. QED
    BY <2>1, <2>2 DEF WordInv
<1>6. OnceInWords'
  BY <1>1, ChannelsAssumption DEF Inv, TypeOK, OnceInWords
<1>7. PreviousInv'
  <2>1. SUFFICES ASSUME NEW x \in Proc, NEW z \in Proc, previous'[x] = z
                 PROVE  /\ turns[z] = 0 /\ pc[z] = "run"
                        /\ \A d \in Chan : word'[d] # z
                        /\ \A y \in Proc : previous'[y] = z => y = x
    BY <1>1 DEF PreviousInv
  <2>2. CASE x = w
    <3>1. z = word[ch]
      BY <1>1, <2>1, <2>2 DEF Inv, TypeOK
    <3>2. \A y \in Proc : previous[y] # z
      BY <3>1 DEF Inv, PreviousInv
    <3>3. QED
      BY <1>1, <1>3, <2>2, <3>1, <3>2, ChannelsAssumption DEF Inv, TypeOK
  <2>3. CASE x # w
    <3>1. previous[x] = z
      BY <1>1, <2>1, <2>3 DEF Inv, TypeOK
    <3>2. QED
      BY <1>1, <2>1, <2>3, <3>1, ChannelsAssumption
         DEF Inv, TypeOK, PreviousInv
  <2>4. QED
    BY <2>2, <2>3
<1>8. SleepInv'
  <2>1. SUFFICES ASSUME NEW x \in Proc, turns[x] = 0, pc[x] = "run"
                 PROVE  \/ \E d \in Chan : word'[d] = x
                        \/ \E y \in Proc : previous'[y] = x
    BY <1>1 DEF SleepInv
  <2>2. CASE \E d \in Chan : word[d] = x
    BY <1>1, <2>2 DEF Inv, TypeOK
  <2>3. CASE \E y \in Proc : previous[y] = x
    BY <1>1, <2>3, ChannelsAssumption DEF Inv, TypeOK
  <2>4. QED
    BY <2>1, <2>2, <2>3 DEF Inv, SleepInv
<1>9. AltInv'
  <2>1. SUFFICES ASSUME NEW x \in Proc PROVE AltInvOf(x)'
    BY DEF AltInv
  <2>2. ASSUME pc[x] # "run", NEW g \in guards[x]
        PROVE  /\ GuardReady(g) => GuardReady(g)'
               /\ g # Skip /\ word[g] = x => word'[g] = x
    <3>1. g = Skip \/ (g \in Chan /\ g # ch)
      BY <1>1, <2>2 DEF Inv, AltInv, AltInvOf, GuardsOf
    <3>2. g \in Chan => word'[g] = word[g]
      BY <1>1, <3>1, ChannelsAssumption DEF Inv, TypeOK
    <3>3. QED
      BY <1>2, <3>1, <3>2, OtherReady
  <2>3. QED
    BY <1>2, <2>2, OtherAlt
<1>10. QED
  BY <1>4, <1>5, <1>6, <1>7, <1>8, <1>9 DEF Inv

\* runp of what resetch returned keeps the invariant.
LEMMA RunPreviousInv ==
  ASSUME Inv, NEW w \in Proc, RunPrevious(w) PROVE Inv'
<1>1. PICK z \in Proc : z = previous[w]
  BY DEF RunPrevious, Inv, TypeOK
<1>2. /\ turns[z] = 0 /\ pc[z] = "run"
      /\ \A d \in Chan : word[d] # z
      /\ \A y \in Proc : previous[y] = z => y = w
  BY <1>1 DEF Inv, PreviousInv
<1>3. /\ turns' = [turns EXCEPT ![z] = 1]
      /\ previous' = [previous EXCEPT ![w] = NoProcess]
      /\ pointer' = pointer /\ memory' = memory /\ word' = word /\ pc' = pc
      /\ todo' = todo /\ guards' = guards
      /\ sent' = sent /\ received' = received
  BY <1>1, <1>2 DEF RunPrevious
<1>4. \A x \in Proc \ {z} : Same(x)
  BY <1>3 DEF Same, Inv, TypeOK
<1>5. TypeOK' /\ ReadyOnce'
  <2>1. turns \in [Proc -> 0 .. 1]
    BY DEF Inv, TypeOK, ReadyOnce
  <2>2. turns' \in [Proc -> 0 .. 1]
    BY <1>3, <2>1
  <2>3. QED
    BY <1>3, <2>2 DEF Inv, TypeOK, ReadyOnce
<1>6. WordInv'
  <2>1. SUFFICES ASSUME NEW d \in Chan PROVE WordInvOf(d)'
    BY DEF WordInv
  <2>2. SameWord(d) /\ word[d] # z
    BY <1>2, <1>3 DEF SameWord
  <2>3. QED
    BY <1>4, <2>2, OtherWord
<1>7. OnceInWords'
  BY <1>3 DEF Inv, OnceInWords
<1>8. PreviousInv'
  BY <1>1, <1>2, <1>3, ChannelsAssumption DEF Inv, TypeOK, PreviousInv
<1>9. SleepInv'
  <2>1. SUFFICES ASSUME NEW x \in Proc, turns'[x] = 0, pc[x] = "run"
                 PROVE  \/ \E d \in Chan : word[d] = x
                        \/ \E y \in Proc : previous'[y] = x
    BY <1>3 DEF SleepInv
  <2>2. x # z /\ turns[x] = 0
    BY <1>3, <2>1 DEF Inv, TypeOK
  <2>3. ASSUME NEW y \in Proc, previous[y] = x PROVE previous'[y] = x
    BY <1>1, <1>3, <2>2, <2>3 DEF Inv, TypeOK
  <2>4. QED
    BY <2>1, <2>2, <2>3 DEF Inv, SleepInv
<1>10. AltInv'
  <2>1. ASSUME NEW x \in Proc \ {z} PROVE AltInvOf(x)'
    <3>1. ASSUME NEW g, GuardReady(g) PROVE GuardReady(g)'
      <4>1. g \in Chan => word[g] \in Proc \ {z}
        BY <1>2, <3>1, ChannelsAssumption DEF GuardReady, AwaitsIn
      <4>2. QED
        BY <1>3, <1>4, <3>1, <4>1, OtherReady
    <3>2. QED
      BY <1>3, <1>4, <3>1, OtherAlt
  <2>2. AltInvOf(z)'
    BY <1>2, <1>3 DEF Inv, AltInv, AltInvOf, GuardsOf
  <2>3. QED
    BY <2>1, <2>2 DEF AltInv
<1>11. QED
  BY <1>5, <1>6, <1>7, <1>8, <1>9, <1>10 DEF Inv

------------------------------------------------------------------------------
(* The invariant *)

\* A step that changes nothing keeps the invariant.
LEMMA StutterInv == ASSUME Inv, UNCHANGED vars PROVE Inv'
BY DEF vars, Inv, TypeOK, ReadyOnce, WordInv, WordInvOf, SenderIn, ReceiverIn,
       RegisteredIn, Registered, AwaitsIn, OnceInWords, PreviousInv, SleepInv,
       AltInv, AltInvOf, EnablingInv, AsleepInv, SelectingInv, BranchInv,
       GuardReady

\* Every step keeps the invariant.
LEMMA NextInv == ASSUME Inv, [Next]_vars PROVE Inv'
<1>1. ASSUME NEW w \in Proc, NEW ch \in Chan,
             Output(w, ch) \/ Input(w, ch) \/ ResetChannel(w, ch)
      PROVE  Inv'
  BY <1>1, OutputInv, InputInv, ResetChannelInv
<1>2. ASSUME NEW w \in Proc, NEW choice \in SUBSET GuardsOf(w),
             BeginAlternative(w, choice)
      PROVE  Inv'
  BY <1>2, BeginAlternativeInv
<1>3. ASSUME NEW w \in Proc, Alternative(w) PROVE Inv'
  BY <1>3, EnableChannelInv, DisableChannelInv, EnableSkipInv, DisableSkipInv,
     WaitAlternativeInv, FinishAlternativeInv DEF Alternative
<1>4. ASSUME NEW w \in Proc, RunPrevious(w) PROVE Inv'
  BY <1>4, RunPreviousInv
<1>5. QED
  BY <1>1, <1>2, <1>3, <1>4, StutterInv DEF Next

\* The invariant holds when every process is ready and every word free.
LEMMA InitInv == Init => Inv
BY ChannelsAssumption
   DEF Init, Inv, TypeOK, ReadyOnce, WordInv, WordInvOf, OnceInWords,
       PreviousInv, SleepInv, AltInv, AltInvOf, Message, Address, GuardsOf

\* What channel words, workspaces and ready queues say of each other.
THEOREM InvCorrect == Spec => []Inv
<1>1. Inv /\ [Next]_vars => Inv'
  BY NextInv
<1>2. QED
  BY <1>1, InitInv, PTL DEF Spec

------------------------------------------------------------------------------
(* The properties *)

\* The words of every channel, message, counter and program have their types.
THEOREM TypeCorrect == Spec => []TypeOK
<1>1. Inv => TypeOK
  BY DEF Inv
<1>2. QED
  BY <1>1, InvCorrect, PTL

\* A channel word holds nobody, a waiting sender with its message, a waiting
\* receiver, or an alternative that is due to disable the channel.
THEOREM WordsCorrect == Spec => []ChannelWordsValid
<1>1. Inv => ChannelWordsValid
  BY DEF Inv, WordInv, WordInvOf, SenderIn, ReceiverIn, RegisteredIn,
         ChannelWordsValid
<1>2. QED
  BY <1>1, InvCorrect, PTL

\* A process that is not ready is in a word, was reset, or sleeps in an
\* alternative whose channels are all registered.
THEOREM SleepersCorrect == Spec => []SleepersFindable
<1>1. ASSUME Inv, NEW w \in Proc, turns[w] = 0
      PROVE  \/ \E ch \in Chan : AwaitsIn(w, ch)
             \/ \E x \in Proc : previous[x] = w
             \/ /\ pc[w] = "disabling" /\ pointer[w] = "ALT_WAITING"
                /\ \A g \in guards[w] : g # Skip /\ word[g] = w
  <2>1. CASE pc[w] = "run"
    BY <1>1, <2>1 DEF Inv, SleepInv, AwaitsIn
  <2>2. CASE pc[w] = "disabling"
    BY <1>1, <2>2 DEF Inv, AltInv, AltInvOf, AsleepInv
  <2>3. CASE pc[w] \in {"enabling", "branch"}
    BY <1>1, <2>3 DEF Inv, AltInv, AltInvOf, EnablingInv, BranchInv
  <2>4. QED
    BY <1>1, <2>1, <2>2, <2>3 DEF Inv, TypeOK
<1>2. Inv => SleepersFindable
  BY <1>1 DEF SleepersFindable
<1>3. QED
  BY <1>2, InvCorrect, PTL

\* However senders and alternatives meet, nobody is readied twice.
THEOREM ReadyOnceCorrect == Spec => []ReadyOnce
<1>1. Inv => ReadyOnce
  BY DEF Inv
<1>2. QED
  BY <1>1, InvCorrect, PTL

\* An alternative that runs on has a branch, with a sender that still waits.
THEOREM SelectionCorrect == Spec => []SelectionReady
<1>1. ASSUME Inv, NEW w \in Proc,
             pc[w] = "disabling", turns[w] = 1, todo[w] = {}
      PROVE  memory[w]["temp"] \in guards[w]
  BY <1>1 DEF Inv, AltInv, AltInvOf, SelectingInv
<1>2. ASSUME Inv, NEW w \in Proc, pc[w] = "branch"
      PROVE  \E ch \in guards[w] \ {Skip} :
               memory[w]["temp"] = ch /\ AwaitsIn(Sender[ch], ch)
  BY <1>2 DEF Inv, AltInv, AltInvOf, BranchInv, GuardReady
<1>3. Inv => SelectionReady
  BY <1>1, <1>2 DEF SelectionReady
<1>4. QED
  BY <1>3, InvCorrect, PTL

\* INVALID_CHANNEL is out of a program's reach.
THEOREM NeverInvalidCorrect == Spec => []NeverInvalid
<1>1. ASSUME Inv, NEW w \in Proc, NEW ch \in Chan, Rejected(w, ch)
      PROVE  FALSE
  <2>1. word[ch] \in Proc
    BY <1>1 DEF Rejected, Inv, TypeOK
  <2>2. CASE pc[w] = "run" /\ turns[w] > 0
    <3>1. word[ch] # w
      BY <1>1, <2>2, RunnerInNoWord
    <3>2. pointer[word[ch]] \in AltState /\ Receiver[ch] = w
      BY <1>1, <2>2, <3>1 DEF Rejected, AtInput
    <3>3. pc[word[ch]] # "run"
      BY <1>1, <2>1, <3>2, PointerTells
    <3>4. QED
      BY <1>1, <2>1, <3>1, <3>2, <3>3, AltInWord
  <2>3. CASE pc[w] = "branch" /\ memory[w]["temp"] = ch
    <3>1. AwaitsIn(Sender[ch], ch)
      BY <1>1, <2>3, ChannelsAssumption
         DEF Inv, AltInv, AltInvOf, BranchInv, GuardReady
    <3>2. pc[word[ch]] = "run"
      BY <3>1 DEF AwaitsIn
    <3>3. QED
      BY <1>1, <2>1, <2>3, <3>2, PointerTells DEF Rejected
  <2>4. QED
    BY <1>1, <2>2, <2>3 DEF Rejected, AtInput, AtOutput, CanRun
<1>2. Inv => NeverInvalid
  BY <1>1 DEF NeverInvalid
<1>3. QED
  BY <1>2, InvCorrect, PTL

\* out is synchronous: a message outstanding means its sender waits.
THEOREM SynchronousCorrect == Spec => []OutputSynchronous
<1>1. Inv => OutputSynchronous
  BY DEF Inv, WordInv, WordInvOf, SenderIn, ReceiverIn, RegisteredIn,
         OutputSynchronous
<1>2. QED
  BY <1>1, InvCorrect, PTL

------------------------------------------------------------------------------
(* The refinement: each step is one of Rendezvous or changes nothing there *)

Wants == [w \in Proc |-> Wanted(w)]

\* Process x wants what it wanted.
WantKept(x) ==
  /\ pc'[x] = pc[x] /\ guards'[x] = guards[x]
  /\ \A d \in Chan : pc[x] = "run" => (word'[d] = x <=> word[d] = x)

\* If every process wants what it wanted, wanted is unchanged.
LEMMA WantsKept ==
  ASSUME \A x \in Proc : WantKept(x) PROVE Wants' = Wants
<1>1. ASSUME NEW x \in Proc PROVE Wanted(x)' = Wanted(x)
  BY DEF Wanted, WantKept
<1>2. QED
  BY <1>1 DEF Wants

\* If one process alone wants something else, wanted changes there.
LEMMA WantsChanged ==
  ASSUME NEW w \in Proc, NEW new, \A x \in Proc \ {w} : WantKept(x),
         Wanted(w)' = new
  PROVE  Wants' = [Wants EXCEPT ![w] = new]
<1>1. ASSUME NEW x \in Proc \ {w} PROVE Wanted(x)' = Wanted(x)
  BY DEF Wanted, WantKept
<1>2. QED
  BY <1>1 DEF Wants

\* A process whose program runs is idle.
LEMMA RunnerIdle ==
  ASSUME Inv, NEW w \in Proc, turns[w] > 0, pc[w] = "run"
  PROVE  Abstract!Idle(w)
<1>1. Wanted(w) = {}
  BY RunnerInNoWord DEF Wanted
<1>2. ASSUME NEW ch \in Chan, Sender[ch] = w PROVE sent[ch] = received[ch]
  <2>1. word[ch] # w
    BY RunnerInNoWord
  <2>2. QED
    BY <1>2, <2>1 DEF Inv, WordInv, WordInvOf, SenderIn, ReceiverIn,
                      RegisteredIn, AwaitsIn
<1>3. QED
  BY <1>1, <1>2 DEF Abstract!Idle, Abstract!Pending

\* Somebody comes to a channel in which its peer does not wait in a transfer:
\* only what it wants itself can change.
LEMMA AwaitWants ==
  ASSUME Inv, NEW w \in Proc, NEW ch \in Chan, NEW address,
         \/ AwaitPeer(w, ch, address)
         \/ NotifyAlternative(w, ch, address),
         turns[w] > 0, pc[w] = "run", pc' = pc,
         guards' = [guards EXCEPT ![w] = {}]
  PROVE  /\ \A x \in Proc \ {w} : WantKept(x)
         /\ \A d \in Chan : word'[d] = w <=> d = ch
<1>1. word' = [word EXCEPT ![ch] = w]
  BY DEF AwaitPeer, NotifyAlternative
<1>2. \A d \in Chan : word'[d] = w <=> d = ch
  BY <1>1, RunnerInNoWord DEF Inv, TypeOK
<1>3. ASSUME NEW x \in Proc \ {w} PROVE WantKept(x)
  <2>1. pc[x] = "run" => word[ch] # x
    <3>1. SUFFICES ASSUME pc[x] = "run", word[ch] = x PROVE FALSE
      OBVIOUS
    <3>2. pointer[word[ch]] \in AltState
      BY <3>1, ChannelsAssumption DEF AwaitPeer, NotifyAlternative
    <3>3. QED
      BY <3>1, <3>2, PointerTells
  <2>2. QED
    BY <1>1, <2>1 DEF WantKept, Inv, TypeOK
<1>4. QED
  BY <1>2, <1>3

\* The peer of a transfer is let go: it wanted the channel, and no more.
LEMMA CompleteWants ==
  ASSUME Inv, NEW w \in Proc, NEW ch \in Chan, NEW peer \in Proc,
         w \in {Sender[ch], Receiver[ch]}, turns[w] > 0,
         pc[w] = "run" \/ (pc[w] = "branch" /\ w = Receiver[ch]),
         peer = word[ch], CompleteWith(peer, w, ch),
         pc' = [pc EXCEPT ![w] = "run"],
         guards' = [guards EXCEPT ![w] = {}]
  PROVE  /\ Wants' = [Wants EXCEPT ![Receiver[ch]] = {}]
         /\ peer \in {Sender[ch], Receiver[ch]} \ {w}
         /\ SenderIn(ch) \/ ReceiverIn(ch)
<1>1. /\ peer \in Proc \ {w} /\ pc[peer] = "run"
      /\ word' = [word EXCEPT ![ch] = NoProcess]
  BY PointerTells DEF CompleteWith, Freed
<1>2. SenderIn(ch) \/ ReceiverIn(ch)
  BY <1>1, TransferInWord
<1>3. peer \in {Sender[ch], Receiver[ch]} \ {w}
  BY <1>1, <1>2 DEF SenderIn, ReceiverIn, AwaitsIn
<1>4. \A d \in Chan : word[d] # w
  <2>1. ASSUME NEW d \in Chan, word[d] = w PROVE FALSE
    <3>1. CASE pc[w] = "run"
      BY <2>1, <3>1, RunnerInNoWord
    <3>2. CASE pc[w] = "branch"
      BY <2>1, <3>2, AltInWord DEF RegisteredIn, Registered
    <3>3. QED
      BY <3>1, <3>2
  <2>2. QED
    BY <2>1
<1>5. \A d \in Chan : word'[d] \notin {w, peer}
  <2>1. \A d \in Chan \ {ch} : word[d] # peer
    BY <1>1 DEF Inv, OnceInWords
  <2>2. QED
    BY <1>1, <1>4, <2>1, ChannelsAssumption DEF Inv, TypeOK
<1>6. \A x \in Proc \ {w, peer} : WantKept(x)
  BY <1>1, ChannelsAssumption DEF WantKept, Inv, TypeOK
<1>7. pc'[w] = "run" /\ pc'[peer] = "run"
  BY <1>1 DEF Inv, TypeOK
<1>8. Wanted(w)' = {} /\ Wanted(peer)' = {}
  BY <1>5, <1>7 DEF Wanted
<1>9. Wanted(Sender[ch]) = {} /\ pc[Sender[ch]] = "run"
  <2>1. pc[Sender[ch]] = "run"
    BY <1>1, <1>3, ChannelsAssumption
  <2>2. \A d \in Chan \ {ch} : word[d] # Sender[ch]
    BY <1>1, <1>3, <1>4 DEF Inv, OnceInWords
  <2>3. QED
    BY <2>1, <2>2, ChannelsAssumption DEF Wanted
<1>10. ASSUME NEW x \in Proc \ {Receiver[ch]} PROVE Wanted(x)' = Wanted(x)
  <2>1. CASE x \in {w, peer}
    <3>1. x = Sender[ch]
      BY <1>3, <1>10, <2>1
    <3>2. QED
      BY <1>8, <1>9, <2>1, <3>1
  <2>2. CASE x \notin {w, peer}
    BY SMTT(20), <1>6, <1>10, <2>2 DEF Wanted, WantKept
  <2>3. QED
    BY <2>1, <2>2
<1>11. Wanted(Receiver[ch])' = {}
  BY <1>3, <1>8
<1>12. QED
  BY <1>2, <1>3, <1>10, <1>11 DEF Wants

\* An output commits the sender, and meets the receiver if it waits.
LEMMA OutputSimulates ==
  ASSUME Inv, NEW w \in Proc, NEW ch \in Chan, Output(w, ch)
  PROVE  Abstract!Send(ch) \/ Abstract!Meet(ch)
<1>1. /\ pc[w] = "run" /\ turns[w] > 0 /\ w = Sender[ch]
      /\ sent' = [sent EXCEPT ![ch] = Following(sent[ch])]
  BY DEF Output, AtOutput, CanRun
<1>2. /\ Abstract!Idle(Sender[ch])
      /\ sent' = [sent EXCEPT ![ch] = Abstract!Following(@)]
  BY <1>1, RunnerIdle DEF Following, Message, Abstract!Following, Abstract!Message
<1>3. pc' = pc /\ guards' = [guards EXCEPT ![w] = {}]
  BY <1>1 DEF Output, Inv, TypeOK, AltInv, AltInvOf
<1>4. ASSUME NEW address,
             AwaitPeer(w, ch, address) \/ NotifyAlternative(w, ch, address)
      PROVE  Abstract!Send(ch)
  <2>1. /\ \A x \in Proc \ {w} : WantKept(x)
        /\ \A d \in Chan : word'[d] = w <=> d = ch
    <3>1. CASE AwaitPeer(w, ch, address)
      BY ZenonT(40), <1>1, <1>3, <3>1, AwaitWants
    <3>2. CASE NotifyAlternative(w, ch, address)
      BY ZenonT(40), <1>1, <1>3, <3>2, AwaitWants
    <3>3. QED
      BY <1>4, <3>1, <3>2
  <2>2. Wanted(w)' = {} /\ Wanted(w) = {}
    BY <1>1, <1>3, <2>1, RunnerInNoWord, ChannelsAssumption DEF Wanted
  <2>3. Wants' = Wants
    BY <2>1, <2>2, WantsChanged DEF Wants
  <2>4. received' = received
    BY <1>4 DEF AwaitPeer, NotifyAlternative
  <2>5. QED
    BY <1>2, <2>3, <2>4 DEF Abstract!Send, Wants
<1>5. CASE /\ CompleteWith(word[ch], w, ch)
           /\ received' = [received EXCEPT ![ch] = Following(sent[ch])]
  <2>1. pc' = [pc EXCEPT ![w] = "run"]
    BY <1>1, <1>3 DEF Inv, TypeOK
  <2>2. PICK peer \in Proc : peer = word[ch]
    BY <1>5 DEF CompleteWith, Inv, TypeOK
  <2>3. /\ Wants' = [Wants EXCEPT ![Receiver[ch]] = {}]
        /\ peer = Receiver[ch] /\ ReceiverIn(ch)
    <3>1. /\ Wants' = [Wants EXCEPT ![Receiver[ch]] = {}]
          /\ peer \in {Sender[ch], Receiver[ch]} \ {w}
          /\ SenderIn(ch) \/ ReceiverIn(ch)
      <4>1. guards' = [guards EXCEPT ![w] = {}]
        BY <1>3
      <4>2. QED
        BY <1>1, <1>5, <2>1, <2>2, <4>1, CompleteWants
    <3>2. QED
      BY <1>1, <2>2, <3>1 DEF SenderIn, AwaitsIn
  <2>4. ch \in Wants[Receiver[ch]]
    BY <2>3, ChannelsAssumption DEF Wants, Wanted, ReceiverIn, AwaitsIn
  <2>5. received' = [received EXCEPT ![ch] = sent'[ch]]
    BY <1>1, <1>5 DEF Inv, TypeOK
  <2>6. QED
    BY <1>2, <2>3, <2>4, <2>5 DEF Abstract!Meet, Wants
<1>6. QED
  BY <1>4, <1>5 DEF Output

\* An input asks for the channel, or meets the sender that waits.
LEMMA InputSimulates ==
  ASSUME Inv, NEW w \in Proc, NEW ch \in Chan, Input(w, ch)
  PROVE  Abstract!Want(w, {ch}) \/ Abstract!Meet(ch)
<1>1. /\ turns[w] > 0 /\ w = Receiver[ch]
      /\ \/ pc[w] = "run"
         \/ pc[w] = "branch" /\ ch \in guards[w] /\ SenderIn(ch)
      /\ pc' = [pc EXCEPT ![w] = "run"]
      /\ guards' = [guards EXCEPT ![w] = {}] /\ sent' = sent
  BY BranchMeetsSender DEF Input, AtInput, CanRun
<1>2. CASE AwaitPeer(w, ch, "buffer")
  <2>1. pc[w] = "run" /\ pc' = pc
    <3>1. word[ch] # Sender[ch]
      BY <1>2, ChannelsAssumption DEF AwaitPeer
    <3>2. pc[w] = "run"
      BY <1>1, <3>1 DEF SenderIn, AwaitsIn
    <3>3. QED
      BY <1>1, <3>2 DEF Inv, TypeOK
  <2>2. /\ \A x \in Proc \ {w} : WantKept(x)
        /\ \A d \in Chan : word'[d] = w <=> d = ch
    BY ZenonT(40), <1>1, <1>2, <2>1, AwaitWants
  <2>3. Wanted(w)' = {ch}
    BY <1>1, <2>1, <2>2 DEF Wanted
  <2>4. Wants' = [Wants EXCEPT ![w] = {ch}]
    BY <2>2, <2>3, WantsChanged
  <2>5. Abstract!Idle(w) /\ received' = received
    BY <1>1, <1>2, <2>1, RunnerIdle DEF AwaitPeer
  <2>6. QED
    BY <1>1, <2>4, <2>5 DEF Abstract!Want, Wants
<1>3. CASE /\ CompleteWith(word[ch], w, ch)
           /\ received' = [received EXCEPT ![ch] = Held(word[ch])]
  <2>1. PICK peer \in Proc : peer = word[ch]
    BY <1>3 DEF CompleteWith, Inv, TypeOK
  <2>2. /\ Wants' = [Wants EXCEPT ![Receiver[ch]] = {}]
        /\ peer = Sender[ch] /\ SenderIn(ch)
    <3>1. /\ Wants' = [Wants EXCEPT ![Receiver[ch]] = {}]
          /\ peer \in {Sender[ch], Receiver[ch]} \ {w}
          /\ SenderIn(ch) \/ ReceiverIn(ch)
      BY <1>1, <1>3, <2>1, CompleteWants
    <3>2. QED
      BY <1>1, <2>1, <3>1 DEF ReceiverIn, AwaitsIn
  <2>3. received' = [received EXCEPT ![ch] = sent'[ch]]
    BY <1>1, <1>3, <2>1, <2>2 DEF Held, SenderIn
  <2>4. Abstract!Pending(ch)
    BY <2>2 DEF Abstract!Pending, SenderIn
  <2>5. ch \in Wants[Receiver[ch]] \/ Abstract!Idle(Receiver[ch])
    BY <1>1, RunnerIdle DEF Wants, Wanted
  <2>6. QED
    BY <1>1, <2>2, <2>3, <2>4, <2>5 DEF Abstract!Meet, Wants
<1>4. QED
  BY <1>2, <1>3 DEF Input

\* alt asks for all guards at once.
LEMMA BeginAlternativeSimulates ==
  ASSUME Inv, NEW w \in Proc, NEW choice \in SUBSET GuardsOf(w),
         BeginAlternative(w, choice)
  PROVE  choice \in SUBSET Guard /\ Abstract!Want(w, choice)
<1>1. /\ turns[w] > 0 /\ pc[w] = "run" /\ word' = word
      /\ pc' = [pc EXCEPT ![w] = "enabling"]
      /\ guards' = [guards EXCEPT ![w] = choice]
      /\ sent' = sent /\ received' = received
  BY DEF BeginAlternative, CanRun
<1>2. \A x \in Proc \ {w} : WantKept(x)
  BY <1>1 DEF WantKept, Inv, TypeOK
<1>3. Wanted(w)' = choice
  BY <1>1 DEF Wanted, Inv, TypeOK
<1>4. Wants' = [Wants EXCEPT ![w] = choice]
  BY <1>2, <1>3, WantsChanged
<1>5. Abstract!Idle(w)
  BY <1>1, RunnerIdle
<1>6. choice \in SUBSET Guard
  BY DEF GuardsOf, Guard
<1>7. QED
  BY <1>1, <1>4, <1>5, <1>6 DEF Abstract!Want, Wants

\* An alternative's step that does not end it is its own affair.
LEMMA AltStepSimulates ==
  ASSUME Inv, NEW w \in Proc, pc[w] # "run", pc'[w] # "run",
         \A x \in Proc \ {w} : pc'[x] = pc[x],
         guards' = guards, sent' = sent, received' = received,
         \A d \in Chan : \/ word'[d] = word[d]
                         \/ {word[d], word'[d]} \subseteq {w, NoProcess}
  PROVE  UNCHANGED <<sent, received, Wants>>
<1>1. ASSUME NEW x \in Proc PROVE Wanted(x)' = Wanted(x)
  <2>1. CASE x = w
    BY <2>1 DEF Wanted
  <2>2. CASE x # w
    BY <2>2, ChannelsAssumption DEF Wanted
  <2>3. QED
    BY <2>1, <2>2
<1>2. QED
  BY <1>1 DEF Wants

\* Of the rest of an alternative only the end of a skip branch shows.
LEMMA AlternativeSimulates ==
  ASSUME Inv, NEW w \in Proc, Alternative(w)
  PROVE  Abstract!TakeSkip(w) \/ UNCHANGED <<sent, received, Wants>>
<1>1. CASE \E ch \in Chan : EnableChannel(w, ch) \/ DisableChannel(w, ch)
  <2>1. PICK ch \in Chan : EnableChannel(w, ch) \/ DisableChannel(w, ch)
    BY <1>1
  <2>2. /\ pc[w] # "run" /\ pc' = pc
        /\ guards' = guards /\ sent' = sent /\ received' = received
    BY <2>1 DEF EnableChannel, Enabling, DisableChannel, Disabling
  <2>3. \/ word' = word
        \/ word[ch] = NoProcess /\ word' = [word EXCEPT ![ch] = w]
        \/ word[ch] = w /\ word' = [word EXCEPT ![ch] = NoProcess]
    BY <2>1 DEF EnableChannel, Registers, DisableChannel, Deregisters, Freed
  <2>4. \A d \in Chan : \/ word'[d] = word[d]
                        \/ {word[d], word'[d]} \subseteq {w, NoProcess}
    BY <2>3 DEF Inv, TypeOK
  <2>5. QED
    BY <2>2, <2>4, AltStepSimulates
<1>2. CASE EnableSkip(w) \/ DisableSkip(w) \/ WaitAlternative(w)
  <2>1. /\ pc[w] # "run" /\ pc'[w] # "run"
        /\ \A x \in Proc \ {w} : pc'[x] = pc[x]
        /\ guards' = guards /\ sent' = sent /\ received' = received
        /\ word' = word
    BY <1>2 DEF EnableSkip, Enabling, DisableSkip, Disabling, WaitAlternative,
                Inv, TypeOK
  <2>2. QED
    BY <2>1, AltStepSimulates
<1>3. CASE FinishAlternative(w)
  <2>1. /\ pc[w] = "disabling" /\ turns[w] > 0 /\ todo[w] = {}
        /\ word' = word /\ sent' = sent /\ received' = received
    BY <1>3 DEF FinishAlternative, CanRun
  <2>2. CASE memory[w]["temp"] # Skip
    <3>1. /\ pc'[w] # "run" /\ guards' = guards
          /\ \A x \in Proc \ {w} : pc'[x] = pc[x]
      BY <1>3, <2>2 DEF FinishAlternative, Inv, TypeOK
    <3>2. QED
      BY <2>1, <3>1, AltStepSimulates
  <2>3. CASE memory[w]["temp"] = Skip
    <3>1. /\ pc' = [pc EXCEPT ![w] = "run"]
          /\ guards' = [guards EXCEPT ![w] = {}]
      BY <1>3, <2>3 DEF FinishAlternative
    <3>2. Skip \in Wanted(w)
      <4>1. turns[w] = 1
        BY <2>1 DEF Inv, TypeOK, ReadyOnce
      <4>2. memory[w]["temp"] \in guards[w]
        BY <2>1, <4>1 DEF Inv, AltInv, AltInvOf, SelectingInv
      <4>3. QED
        BY <2>1, <2>3, <4>2 DEF Wanted
    <3>3. \A d \in Chan : word[d] # w
      <4>1. ASSUME NEW d \in Chan, word[d] = w PROVE FALSE
        BY <2>1, <4>1, AltInWord DEF RegisteredIn, Registered
      <4>2. QED
        BY <4>1
    <3>4. Wanted(w)' = {}
      BY <2>1, <3>1, <3>3 DEF Wanted, Inv, TypeOK
    <3>5. \A x \in Proc \ {w} : WantKept(x)
      BY <2>1, <3>1 DEF WantKept, Inv, TypeOK
    <3>6. Wants' = [Wants EXCEPT ![w] = {}]
      BY <3>4, <3>5, WantsChanged
    <3>7. QED
      BY <2>1, <3>2, <3>6 DEF Abstract!TakeSkip, Wants
  <2>4. QED
    BY <2>2, <2>3
<1>4. QED
  BY <1>1, <1>2, <1>3 DEF Alternative

\* resetch withdraws what waits in the channel, if anything does.
LEMMA ResetChannelSimulates ==
  ASSUME Inv, NEW w \in Proc, NEW ch \in Chan, ResetChannel(w, ch)
  PROVE  Abstract!Withdraw(ch) \/ UNCHANGED <<sent, received, Wants>>
<1>1. /\ pc[Receiver[ch]] = "run" /\ pc' = pc /\ guards' = guards
      /\ word' = [word EXCEPT ![ch] = NoProcess]
      /\ sent' = [sent EXCEPT ![ch] = received[ch]] /\ received' = received
  BY DEF ResetChannel, Freed
<1>2. \A x \in Proc \ {word[ch]} : WantKept(x)
  BY <1>1, ChannelsAssumption DEF WantKept, Inv, TypeOK
<1>3. CASE word[ch] = NoProcess
  <2>1. sent[ch] = received[ch]
    BY <1>3, ChannelsAssumption
       DEF Inv, WordInv, WordInvOf, SenderIn, ReceiverIn, RegisteredIn, AwaitsIn
  <2>2. sent' = sent
    BY <1>1, <2>1 DEF Inv, TypeOK
  <2>3. Wants' = Wants
    BY <1>2, <1>3, ChannelsAssumption, WantsKept
  <2>4. QED
    BY <1>1, <2>2, <2>3
<1>4. CASE SenderIn(ch)
  <2>1. \A d \in Chan \ {ch} : word[d] # Sender[ch]
    BY <1>4, ChannelsAssumption DEF SenderIn, AwaitsIn, Inv, OnceInWords
  <2>2. /\ pc[Sender[ch]] = "run" /\ word[ch] = Sender[ch]
        /\ \A d \in Chan : word'[d] # Sender[ch]
    <3>1. pc[Sender[ch]] = "run" /\ word[ch] = Sender[ch]
      BY <1>4 DEF SenderIn, AwaitsIn
    <3>2. ASSUME NEW d \in Chan PROVE word'[d] # Sender[ch]
      BY <1>1, <2>1, ChannelsAssumption DEF Inv, TypeOK
    <3>3. QED
      BY <3>1, <3>2
  <2>3. Wanted(Sender[ch])' = {} /\ Wanted(Sender[ch]) = {}
    BY <1>1, <2>1, <2>2, ChannelsAssumption DEF Wanted
  <2>4. \A x \in Proc : Wanted(x)' = Wanted(x)
    <3>1. ASSUME NEW x \in Proc \ {Sender[ch]} PROVE Wanted(x)' = Wanted(x)
      BY <1>2, <2>2, <3>1 DEF Wanted, WantKept
    <3>2. QED
      BY <2>3, <3>1
  <2>5. Wants' = Wants
    BY <2>4 DEF Wants
  <2>6. QED
    BY <1>1, <1>4, <2>5 DEF Abstract!Withdraw, Abstract!Pending, SenderIn, Wants
<1>5. CASE ReceiverIn(ch)
  <2>1. \A d \in Chan \ {ch} : word[d] # Receiver[ch]
    BY <1>5, ChannelsAssumption DEF ReceiverIn, AwaitsIn, Inv, OnceInWords
  <2>2. word[ch] = Receiver[ch] /\ \A d \in Chan : word'[d] # Receiver[ch]
    BY ZenonT(40), <1>1, <1>5, <2>1, ChannelsAssumption DEF ReceiverIn, AwaitsIn, Inv, TypeOK
  <2>3. Wanted(Receiver[ch]) = {ch} /\ Wanted(Receiver[ch])' = {}
    BY <1>1, <2>1, <2>2 DEF Wanted
  <2>4. Wants' = [Wants EXCEPT ![Receiver[ch]] = {}]
    BY <1>2, <2>2, <2>3, ChannelsAssumption, WantsChanged
  <2>5. sent' = sent
    BY <1>1, <1>5 DEF ReceiverIn, Inv, TypeOK
  <2>6. Wants[Receiver[ch]] = {ch}
    BY <2>3, ChannelsAssumption DEF Wants
  <2>7. QED
    BY <1>1, <2>4, <2>5, <2>6 DEF Abstract!Withdraw, Wants
<1>6. ~RegisteredIn(ch)
  BY <1>1 DEF RegisteredIn, Registered
<1>7. QED
  BY <1>3, <1>4, <1>5, <1>6 DEF Inv, WordInv, WordInvOf

\* Every step is a step of Rendezvous or changes nothing there.
LEMMA NextSimulates ==
  ASSUME Inv, [Next]_vars
  PROVE  Abstract!Next \/ UNCHANGED <<sent, received, Wants>>
<1>1. ASSUME NEW w \in Proc, NEW ch \in Chan, Output(w, ch) \/ Input(w, ch)
      PROVE  Abstract!Next
  <2>1. {ch} \in SUBSET Guard
    BY DEF Guard
  <2>2. \/ Abstract!Send(ch) \/ Abstract!Meet(ch)
        \/ {ch} \in SUBSET Guard /\ Abstract!Want(w, {ch})
    BY <1>1, <2>1, OutputSimulates, InputSimulates
  <2>3. QED
    BY <2>2 DEF Abstract!Next, Abstract!Guard, Guard
<1>2. ASSUME NEW w \in Proc, NEW choice \in SUBSET GuardsOf(w),
             BeginAlternative(w, choice)
      PROVE  Abstract!Next
  BY <1>2, BeginAlternativeSimulates DEF Abstract!Next, Abstract!Guard, Guard
<1>3. ASSUME NEW w \in Proc, Alternative(w)
      PROVE  Abstract!Next \/ UNCHANGED <<sent, received, Wants>>
  BY <1>3, AlternativeSimulates DEF Abstract!Next
<1>4. ASSUME NEW w \in Proc, NEW ch \in Chan, ResetChannel(w, ch)
      PROVE  Abstract!Next \/ UNCHANGED <<sent, received, Wants>>
  BY <1>4, ResetChannelSimulates DEF Abstract!Next
<1>5. ASSUME NEW w \in Proc, RunPrevious(w)
      PROVE  UNCHANGED <<sent, received, Wants>>
  BY <1>5, WantsKept DEF RunPrevious, WantKept
<1>6. CASE UNCHANGED vars
  BY <1>6, WantsKept DEF vars, WantKept
<1>7. QED
  BY <1>1, <1>2, <1>3, <1>4, <1>5, <1>6 DEF Next

\* Channels and alternatives are rendezvous: whatever the interleaving, a
\* message gets across once, in order, and when both ends want it.
THEOREM RefinementCorrect == Spec => ImplementsRendezvous
<1>1. Init => Abstract!Init
  BY ChannelsAssumption DEF Init, Abstract!Init, Wanted
<1>2. Inv /\ [Next]_vars => [Abstract!Next]_(Abstract!vars)
  BY NextSimulates DEF Abstract!vars, Wants
<1>3. QED
  BY <1>1, <1>2, InvCorrect, PTL
     DEF Spec, ImplementsRendezvous, Abstract!Spec
===============================================================================
