------------------------- MODULE EngineReadsProofs -------------------------
(***************************************************************************)
(* The reads of the engine, for any number of probes, any limits of        *)
(* failures and any bounds: both kinds of polling stay in the phase that   *)
(* owns them, and a cycle of the reconciler leaves no funds behind,        *)
(* proved.                                                                 *)
(***************************************************************************)
EXTENDS EngineReads, FiniteSetTheorems, SequenceTheorems, TLAPS

(* The reconciler.                                                         *)

OnChain == 1..Len(chain)

NoneLive == \A i \in OnChain : chain[i].cycle # cycle

(* No refresh belongs to a cycle that is still to come, and one at most to *)
(* the present one; the timer is armed when none does.                     *)
OneLive ==
    /\ \A i \in OnChain : chain[i].cycle <= cycle /\ chain[i].cycle <= MaxCycles
    /\ \A i, j \in OnChain : chain[i].cycle = cycle /\ chain[j].cycle = cycle => i = j
    /\ timer # NoProbe => /\ timer.cycle = cycle /\ timer.cycle <= MaxCycles
                          /\ timer.attempt > 0
                          /\ NoneLive

(* A cycle that began with the snapshot up to date has one payment at most *)
(* to wait for: the balance is off its baseline only when it has come.     *)
Accounted(p) == p.spaced => balance >= p.baseline /\ balance + due <= p.baseline + 1

FundsKnown ==
    /\ balance + due <= MaxFunds
    /\ \A i \in OnChain : chain[i].cycle = cycle => Accounted(chain[i])
    /\ timer # NoProbe => Accounted(timer)

SettleInv == TypeOK /\ OneLive /\ FundsKnown

(* The sync poll: a tick in flight is the one that the poller knows of.    *)
TickKnown ==
    /\ ticks = IF poll.inFlight THEN 1 ELSE 0
    /\ poll.running => phase = "syncing"

(* A cycle lives in the ready phase only.                                  *)
CycleInPhase == phase # "ready" => timer = NoProbe /\ NoneLive

IInv == ReadsTypeOK /\ SettleInv /\ TickKnown /\ CycleInPhase
-----------------------------------------------------------------------------
(* The reconciler, whoever makes its steps.                                *)

LEMMA TailFacts ==
    ASSUME TypeOK, chain # <<>>
    PROVE  /\ Len(chain) \in Nat \ {0}
           /\ Head(chain) = chain[1] /\ chain[1] \in Probe
           /\ Tail(chain) \in Seq(Probe) /\ Len(Tail(chain)) = Len(chain) - 1
           /\ \A i \in 1..Len(Tail(chain)) : i + 1 \in OnChain /\ Tail(chain)[i] = chain[i + 1]
<1>1. chain \in Seq(Probe)
  BY DEF TypeOK
<1>2. Len(chain) \in Nat \ {0}
  BY <1>1, EmptySeq
<1> QED
  BY <1>1, <1>2, HeadTailProperties, ElementOfSeq DEF OnChain

LEMMA AppendFacts ==
    ASSUME TypeOK, NEW p \in Probe
    PROVE  /\ Len(chain) \in Nat
           /\ Append(chain, p) \in Seq(Probe) /\ Len(Append(chain, p)) = Len(chain) + 1
           /\ \A i \in 1..(Len(chain) + 1) :
                Append(chain, p)[i] = IF i \in OnChain THEN chain[i] ELSE p
<1>1. chain \in Seq(Probe) /\ Len(chain) \in Nat
  BY LenProperties DEF TypeOK
<1> QED
  BY <1>1, AppendProperties DEF OnChain

LEMMA ProbeOnChain ==
    ASSUME TypeOK
    PROVE  /\ Len(chain) \in Nat
           /\ \A i \in OnChain :
                chain[i] \in Probe /\ chain[i].cycle \in Int /\ chain[i].baseline \in Int
<1>1. Len(chain) \in Nat /\ \A i \in OnChain : chain[i] \in Probe
  BY LenProperties, ElementOfSeq DEF TypeOK, OnChain
<1>2. \A p \in Probe : p.cycle \in Int /\ p.baseline \in Int
  BY SettleAssumption DEF Probe, Funds
<1> QED
  BY <1>1, <1>2

LEMMA NoneLiveMeans == NoneLive <=> Live = {}
  BY DEF NoneLive, Live, OnChain

(* The head of the chain lands or fails, and arms no timer.                *)
LEMMA HeadGoes ==
    ASSUME SettleInv, chain # <<>>, chain' = Tail(chain), shown' \in Funds,
           UNCHANGED <<cycle, timer, balance, due>>
    PROVE  SettleInv' /\ (NoneLive => NoneLive')
<1>0. TypeOK /\ OneLive /\ FundsKnown
  BY DEF SettleInv
<1>1. TypeOK'
  BY <1>0, TailFacts DEF TypeOK
<1>2. /\ OnChain' = 1..Len(Tail(chain))
      /\ \A i \in OnChain' : i + 1 \in OnChain /\ chain'[i] = chain[i + 1]
      /\ \A i \in OnChain' : i \in Int
  BY <1>0, TailFacts DEF OnChain
<1>3. NoneLive => NoneLive'
  BY <1>2 DEF NoneLive
<1>4. OneLive'
  BY <1>0, <1>2, <1>3 DEF OneLive
<1>5. FundsKnown'
  BY <1>0, <1>2 DEF FundsKnown, Accounted
<1> QED
  BY <1>1, <1>3, <1>4, <1>5 DEF SettleInv

(* A cycle is retired, while the head of the chain may go.                 *)
LEMMA CycleRetires ==
    ASSUME SettleInv, Retires, shown' \in Funds, UNCHANGED <<balance, due>>,
           chain' = chain \/ (chain # <<>> /\ chain' = Tail(chain))
    PROVE  SettleInv' /\ timer' = NoProbe /\ NoneLive'
<1>0. /\ TypeOK /\ OneLive /\ FundsKnown
      /\ cycle \in Int /\ MaxCycles \in Nat
  BY SettleAssumption DEF SettleInv, TypeOK
<1>1. timer' = NoProbe /\ NoProbe \in Probe
  BY SettleAssumption DEF Retires, NoProbe, Probe, Funds, NoFunds
<1>2. \A i \in OnChain' : \E j \in OnChain : chain'[i] = chain[j]
  <2>1. CASE chain' = chain
    BY <2>1 DEF OnChain
  <2>2. CASE chain # <<>> /\ chain' = Tail(chain)
    BY <1>0, <2>2, TailFacts DEF OnChain
  <2> QED
    BY <2>1, <2>2
<1>3. /\ cycle' \in 0..(MaxCycles + 1) /\ cycle' >= cycle
      /\ Live # {} => cycle' = cycle + 1
  <2>1. CASE Live # {} \/ timer # NoProbe
    <3>1. cycle <= MaxCycles
      BY <1>0, <2>1 DEF OneLive, NoneLive, Live, OnChain
    <3> QED
      BY <1>0, <2>1, <3>1 DEF Retires, TypeOK
  <2>2. CASE ~(Live # {} \/ timer # NoProbe)
    BY <1>0, <2>2 DEF Retires, TypeOK
  <2> QED
    BY <2>1, <2>2
<1>4. NoneLive'
  <2> SUFFICES ASSUME NEW i \in OnChain' PROVE chain'[i].cycle # cycle'
    BY DEF NoneLive
  <2>1. PICK j \in OnChain : chain'[i] = chain[j]
    BY <1>2
  <2>2. chain[j].cycle \in Int /\ chain[j].cycle <= cycle
    BY <1>0, ProbeOnChain DEF OneLive
  <2>3. CASE Live = {}
    <3>1. chain[j].cycle # cycle
      BY <2>3, NoneLiveMeans DEF NoneLive
    <3> QED
      BY <1>0, <1>3, <2>1, <2>2, <3>1
  <2>4. CASE Live # {}
    BY <1>0, <1>3, <2>1, <2>2, <2>4
  <2> QED
    BY <2>3, <2>4
<1>5. TypeOK'
  <2>1. chain' \in Seq(Probe)
    BY <1>0, TailFacts DEF TypeOK
  <2> QED
    BY <1>0, <1>1, <1>3, <2>1 DEF TypeOK
<1>6. OneLive'
  <2>1. \A i \in OnChain' : chain'[i].cycle <= cycle' /\ chain'[i].cycle <= MaxCycles
    BY <1>0, <1>2, <1>3, ProbeOnChain DEF OneLive
  <2> QED
    BY <1>1, <1>4, <2>1 DEF OneLive, NoneLive
<1>7. FundsKnown'
  BY <1>0, <1>1, <1>4 DEF FundsKnown, NoneLive
<1> QED
  BY <1>1, <1>4, <1>5, <1>6, <1>7 DEF SettleInv

LEMMA TriggerKeeps ==
    ASSUME SettleInv, Trigger
    PROVE  SettleInv'
<1>0. /\ TypeOK /\ OneLive /\ FundsKnown
      /\ cycle \in Nat /\ {MaxCycles, MaxFunds, Probes} \subseteq Nat
      /\ cycle < MaxCycles
      /\ {shown, balance, due} \subseteq Funds
  BY SettleAssumption DEF SettleInv, TypeOK, Trigger
<1> DEFINE p == [cycle |-> cycle + 1, attempt |-> 0, baseline |-> shown,
                 prev |-> NoFunds, before |-> balance,
                 spaced |-> shown = balance /\ due = 0]
<1>1. p \in Probe
  BY <1>0 DEF Probe, NoFunds
<1>2. /\ chain' = Append(chain, p) /\ timer' = NoProbe
      /\ cycle' = cycle + 1 /\ shown' = shown /\ balance' = balance
      /\ \E payments \in {0, 1} : balance + due + payments <= MaxFunds /\ due' = due + payments
  BY DEF Trigger
<1>3. /\ p.cycle = cycle + 1
      /\ p.spaced => balance = p.baseline /\ due = 0
  BY <1>0 DEF Funds
<1> HIDE DEF p
<1>4. /\ Len(chain) \in Nat /\ Len(chain') = Len(chain) + 1
      /\ OnChain' = 1..(Len(chain) + 1)
      /\ \A i \in OnChain' : chain'[i] = IF i \in OnChain THEN chain[i] ELSE p
      /\ \A i \in OnChain' : i \notin OnChain => i = Len(chain) + 1
  BY <1>0, <1>1, <1>2, AppendFacts DEF OnChain
<1>5. NoProbe \in Probe
  BY <1>0 DEF NoProbe, Probe, Funds, NoFunds
<1>6. due' \in Nat /\ balance \in Nat /\ balance + due' <= MaxFunds
  BY <1>0, <1>2 DEF Funds
<1>7. TypeOK'
  <2>1. chain' \in Seq(Probe)
    BY <1>0, <1>1, <1>2, AppendFacts
  <2>2. due' \in Funds
    BY <1>0, <1>6 DEF Funds
  <2> QED
    BY <1>0, <1>2, <1>5, <2>1, <2>2 DEF TypeOK
<1>8. \A i \in OnChain : chain[i].cycle \in Int /\ chain[i].cycle <= cycle
  BY <1>0, ProbeOnChain DEF OneLive
<1>9. OneLive'
  <2>1. \A i \in OnChain' : chain'[i].cycle <= cycle' /\ chain'[i].cycle <= MaxCycles
    BY <1>0, <1>2, <1>3, <1>4, <1>8
  <2>2. \A i \in OnChain' : chain'[i].cycle = cycle' => i = Len(chain) + 1
    BY <1>0, <1>2, <1>4, <1>8
  <2> QED
    BY <1>2, <2>1, <2>2 DEF OneLive
<1>10. FundsKnown'
  <2>1. ASSUME NEW i \in OnChain', chain'[i].cycle = cycle' PROVE Accounted(chain[i])'
    <3>1. chain'[i] = p
      BY <1>0, <1>2, <1>4, <1>8, <2>1
    <3> QED
      BY <1>0, <1>2, <1>3, <1>6, <3>1 DEF Accounted, Funds
  <2> QED
    BY <1>2, <1>6, <2>1 DEF FundsKnown
<1> QED
  BY <1>7, <1>9, <1>10 DEF SettleInv

LEMMA CatchesUpKeeps ==
    ASSUME SettleInv, CatchesUp
    PROVE  SettleInv' /\ (NoneLive => NoneLive')
<1>0. /\ TypeOK /\ OneLive /\ FundsKnown
      /\ {MaxCycles, MaxFunds, Probes} \subseteq Nat
      /\ balance \in Nat /\ due \in Nat /\ timer.baseline \in Nat
  BY SettleAssumption DEF SettleInv, TypeOK, Funds, Probe
<1>1. /\ UNCHANGED <<cycle, timer, chain, shown>>
      /\ balance' = balance + 1 /\ due' = due - 1 /\ due > 0
  BY DEF CatchesUp
<1>2. balance' \in Nat /\ due' \in Nat /\ balance' + due' <= MaxFunds
  BY <1>0, <1>1 DEF FundsKnown
<1>3. TypeOK'
  BY <1>0, <1>1, <1>2 DEF TypeOK, Funds
<1>4. OneLive' /\ (NoneLive => NoneLive')
  BY <1>0, <1>1 DEF OneLive, NoneLive, OnChain
<1>5. ASSUME NEW p \in Probe, Accounted(p) PROVE Accounted(p)'
  BY <1>0, <1>1, <1>5 DEF Accounted, Probe, Funds
<1>6. FundsKnown'
  <2>1. \A i \in OnChain : chain[i] \in Probe
    BY <1>0, ProbeOnChain
  <2>2. timer \in Probe /\ OnChain' = OnChain
    BY <1>0, <1>1 DEF TypeOK, OnChain
  <2> QED
    BY <1>0, <1>1, <1>2, <1>5, <2>1, <2>2 DEF FundsKnown
<1> QED
  BY <1>3, <1>4, <1>6 DEF SettleInv

LEMMA KickKeeps ==
    ASSUME SettleInv, chain' = Append(chain, Kick), UNCHANGED <<cycle, timer, shown, balance, due>>
    PROVE  SettleInv' /\ (NoneLive => NoneLive')
<1>0. /\ TypeOK /\ OneLive /\ FundsKnown
      /\ {MaxCycles, MaxFunds, Probes} \subseteq Nat /\ cycle \in Nat
  BY SettleAssumption DEF SettleInv, TypeOK
<1>1. Kick \in Probe /\ Kick.cycle = -1
  <2>1. NoProbe \in Probe
    BY <1>0 DEF NoProbe, Probe, Funds, NoFunds
  <2> QED
    BY <1>0, <2>1 DEF Kick, Probe
<1>2. /\ OnChain' = 1..(Len(chain) + 1) /\ Len(chain) \in Nat
      /\ \A i \in OnChain' : chain'[i] = IF i \in OnChain THEN chain[i] ELSE Kick
  BY <1>0, <1>1, AppendFacts DEF OnChain
<1>3. TypeOK'
  BY <1>0, <1>1, AppendFacts DEF TypeOK
<1>4. NoneLive => NoneLive'
  BY <1>0, <1>1, <1>2 DEF NoneLive
<1>5. OneLive'
  BY <1>0, <1>1, <1>2, <1>4 DEF OneLive
<1>6. FundsKnown'
  BY <1>0, <1>1, <1>2 DEF FundsKnown, Accounted
<1> QED
  BY <1>3, <1>4, <1>5, <1>6 DEF SettleInv

(* The probe that follows a probe.                                         *)
LEMMA NextProbeFacts ==
    ASSUME NEW p \in Probe, p.attempt < Probes, balance \in Funds
    PROVE  /\ NextProbe(p) \in Probe /\ NextProbe(p).attempt = p.attempt + 1
           /\ NextProbe(p).cycle = p.cycle /\ NextProbe(p).spaced = p.spaced
           /\ NextProbe(p).baseline = p.baseline
<1>1. /\ Probes \in Nat /\ p.attempt \in 0..Probes /\ balance \in Funds \cup {NoFunds}
      /\ p \in [cycle : -1..(MaxCycles + 1), attempt : 0..Probes, baseline : Funds,
                prev : Funds \cup {NoFunds}, before : Funds, spaced : BOOLEAN]
  BY SettleAssumption DEF Probe
<1> DEFINE counted == [p EXCEPT !.attempt = @ + 1]
           read == [counted EXCEPT !.prev = balance]
<1>2. /\ counted \in Probe /\ counted.attempt = p.attempt + 1 /\ counted.cycle = p.cycle
      /\ counted.spaced = p.spaced /\ counted.baseline = p.baseline
  BY <1>1 DEF Probe
<1>3. NextProbe(p) = read
  BY DEF NextProbe
<1> HIDE DEF counted
<1>4. /\ read \in Probe /\ read.attempt = counted.attempt /\ read.cycle = counted.cycle
      /\ read.spaced = counted.spaced /\ read.baseline = counted.baseline
  BY <1>1, <1>2 DEF Probe
<1> HIDE DEF read
<1> QED
  BY <1>2, <1>3, <1>4

LEMMA LandsKeeps ==
    ASSUME SettleInv, Lands
    PROVE  SettleInv' /\ (NoneLive => NoneLive' /\ timer' = timer)
<1>0. /\ TypeOK /\ OneLive /\ FundsKnown
      /\ {MaxCycles, MaxFunds, Probes} \subseteq Nat /\ balance \in Funds
  BY SettleAssumption DEF SettleInv, TypeOK
<1> DEFINE p == chain[1]
           next == NextProbe(p)
<1>1. /\ chain # <<>> /\ chain' = Tail(chain) /\ shown' = balance
      /\ Head(chain) = p /\ p \in Probe /\ 1 \in OnChain
      /\ UNCHANGED <<cycle, balance, due>>
  BY <1>0, TailFacts DEF Lands, OnChain
<1>2. CASE timer' = timer
  BY <1>0, <1>1, <1>2, HeadGoes
<1>3. CASE timer' # timer
  <2>1. GoesOn(p) /\ HasMore(p) /\ timer' = next
    BY <1>1, <1>3 DEF Lands
  <2>2. /\ next \in Probe /\ next.attempt = p.attempt + 1
        /\ next.cycle = p.cycle /\ next.spaced = p.spaced /\ next.baseline = p.baseline
    BY <1>0, <1>1, <2>1, NextProbeFacts DEF HasMore
  <2> HIDE DEF next
  <2>3. /\ p.cycle = cycle /\ p.cycle <= MaxCycles /\ p.attempt \in Nat /\ Accounted(p)
        /\ ~NoneLive
    BY <1>0, <1>1, <2>1 DEF GoesOn, OneLive, FundsKnown, NoneLive, Probe
  <2>4. /\ OnChain' = 1..Len(Tail(chain))
        /\ \A i \in OnChain' : i + 1 \in OnChain /\ i + 1 # 1 /\ chain'[i] = chain[i + 1]
    BY <1>0, <1>1, TailFacts DEF OnChain
  <2>5. NoneLive'
    BY <1>0, <1>1, <2>3, <2>4 DEF NoneLive, OneLive
  <2>6. TypeOK'
    BY <1>0, <1>1, <2>1, <2>2, TailFacts DEF TypeOK
  <2>7. OneLive'
    <3>1. \A i \in OnChain' : chain'[i].cycle <= cycle' /\ chain'[i].cycle <= MaxCycles
      BY <1>0, <1>1, <2>4 DEF OneLive
    <3>2. timer'.cycle = cycle' /\ timer'.cycle <= MaxCycles /\ timer'.attempt > 0
      BY <1>1, <2>1, <2>2, <2>3
    <3>3. \A i, j \in OnChain' : chain'[i].cycle = cycle' /\ chain'[j].cycle = cycle' => i = j
      BY <2>5 DEF NoneLive
    <3> QED
      BY <2>5, <3>1, <3>2, <3>3 DEF OneLive
  <2>8. FundsKnown'
    BY <1>0, <1>1, <2>1, <2>2, <2>3, <2>5 DEF FundsKnown, NoneLive, Accounted
  <2> QED
    BY <2>3, <2>6, <2>7, <2>8 DEF SettleInv
<1> QED
  BY <1>2, <1>3

LEMMA TimerKeeps ==
    ASSUME SettleInv, TimerFires
    PROVE  SettleInv'
<1>0. /\ TypeOK /\ OneLive /\ FundsKnown /\ NoProbe \in Probe
      /\ timer \in Probe /\ timer.cycle = cycle /\ timer.cycle <= MaxCycles
      /\ NoneLive /\ Accounted(timer)
  BY SettleAssumption
     DEF SettleInv, TypeOK, TimerFires, OneLive, FundsKnown, NoProbe, Probe, Funds, NoFunds
<1>1. /\ chain' = Append(chain, timer) /\ timer' = NoProbe
      /\ UNCHANGED <<cycle, shown, balance, due>>
  BY <1>0 DEF TimerFires, GoesOn
<1>2. /\ OnChain' = 1..(Len(chain) + 1) /\ Len(chain) \in Nat
      /\ \A i \in OnChain' : chain'[i] = IF i \in OnChain THEN chain[i] ELSE timer
      /\ \A i \in OnChain' : i \notin OnChain => i = Len(chain) + 1
  BY <1>0, <1>1, AppendFacts DEF OnChain
<1>3. TypeOK'
  BY <1>0, <1>1, AppendFacts DEF TypeOK
<1>4. OneLive'
  <2>1. \A i \in OnChain' : chain'[i].cycle <= cycle' /\ chain'[i].cycle <= MaxCycles
    BY <1>0, <1>1, <1>2, SettleAssumption DEF OneLive, TypeOK
  <2>2. \A i \in OnChain' : chain'[i].cycle = cycle' => i = Len(chain) + 1
    BY <1>0, <1>1, <1>2 DEF NoneLive
  <2> QED
    BY <1>1, <2>1, <2>2 DEF OneLive
<1>5. FundsKnown'
  BY <1>0, <1>1, <1>2 DEF FundsKnown, NoneLive, Accounted
<1> QED
  BY <1>3, <1>4, <1>5 DEF SettleInv

-----------------------------------------------------------------------------
(* What the moves of the phase do to the polls.                            *)

LEMMA PhasesClosed ==
    /\ \A p \in Phases :
         /\ \A e \in {"startRequested", "startFailed", "stopRequested", "stopCompleted",
                      "stopFailed", "syncPollExhausted", "backgroundRefreshExhausted"} :
              Transition(p, e) \in Phases
         /\ \A i : OnInfo(p, i) \in Phases
    /\ \A p \in Phases, e \in {"stopCompleted", "stopFailed"} :
         Transition(p, e) # p => p = "stopping"
    /\ Transition("syncing", "syncPollExhausted") = "error"
    /\ Transition("ready", "backgroundRefreshExhausted") = "error"
  BY DEF Transition, Accepts, Target, OnInfo, PhaseFromInfo, Phases, WalletPhases, RuntimePhases

(* A poll with one field set.                                              *)
LEMMA PollRuns ==
    ASSUME NEW p \in Sync!Poll, NEW x \in BOOLEAN
    PROVE  /\ [p EXCEPT !.running = x] \in Sync!Poll
           /\ [p EXCEPT !.running = x].running = x
           /\ [p EXCEPT !.running = x].inFlight = p.inFlight
  BY DEF Sync!Poll

LEMMA PollCounts ==
    ASSUME NEW p \in Sync!Poll, NEW n \in 0..SyncPollLimit
    PROVE  /\ [p EXCEPT !.failures = n] \in Sync!Poll
           /\ [p EXCEPT !.failures = n].running = p.running
           /\ [p EXCEPT !.failures = n].inFlight = p.inFlight
  BY DEF Sync!Poll

LEMMA PollFlies ==
    ASSUME NEW p \in Sync!Poll, NEW x \in BOOLEAN
    PROVE  /\ [p EXCEPT !.inFlight = x] \in Sync!Poll
           /\ [p EXCEPT !.inFlight = x].running = p.running
           /\ [p EXCEPT !.inFlight = x].inFlight = x
  BY DEF Sync!Poll

LEMMA MovesFacts ==
    ASSUME phase \in Phases, NEW next \in Phases, NEW p \in Sync!Poll, MovesTo(next, p),
           p.running => phase = "syncing"
    PROVE  /\ phase' = next
           /\ poll' \in Sync!Poll /\ poll'.inFlight = p.inFlight
           /\ poll'.running => phase' = "syncing"
<1>1. 0 \in 0..SyncPollLimit
  BY ReadsAssumption
<1> DEFINE on == [p EXCEPT !.running = TRUE]
           fresh == [on EXCEPT !.failures = 0]
           off == [p EXCEPT !.running = FALSE]
<1>2. Sync!Started(p) = (IF p.running THEN p ELSE fresh) /\ Sync!Stopped(p) = off
  BY DEF Sync!Started, Sync!Stopped
<1>3. /\ on \in Sync!Poll /\ on.inFlight = p.inFlight
      /\ off \in Sync!Poll /\ off.inFlight = p.inFlight /\ ~off.running
  BY PollRuns
<1> HIDE DEF on, off
<1>4. fresh \in Sync!Poll /\ fresh.inFlight = p.inFlight
  BY <1>1, <1>3, PollCounts
<1> HIDE DEF fresh
<1> QED
  BY <1>2, <1>3, <1>4 DEF MovesTo

(* What a settled tick makes of the poll.                                  *)
LEMMA TickFacts ==
    ASSUME NEW p \in Sync!Poll
    PROVE  /\ Sync!Fulfilled(p) \in Sync!Poll /\ ~Sync!Fulfilled(p).inFlight
           /\ Sync!Fulfilled(p).running => p.running
           /\ Sync!Rejected(p) \in Sync!Poll /\ ~Sync!Rejected(p).inFlight
           /\ Sync!Rejected(p).running => p.running
           /\ Sync!Ticking(p) \in Sync!Poll /\ Sync!Ticking(p).inFlight
           /\ Sync!Ticking(p).running => p.running
<1>1. /\ 0 \in 0..SyncPollLimit /\ SyncPollLimit \in 0..SyncPollLimit /\ SyncPollLimit > 0
      /\ p.running \in BOOLEAN /\ p.failures \in 0..SyncPollLimit /\ p.inFlight \in BOOLEAN
  BY ReadsAssumption DEF Sync!Poll
<1>2. Sync!Exhausts(p) \/ p.failures + 1 \in 0..SyncPollLimit
  BY <1>1 DEF Sync!Exhausts
<1> DEFINE cleared == [p EXCEPT !.failures = 0]
           counted == [p EXCEPT !.failures = IF SyncPollLimit = 0 THEN 0 ELSE @ + 1]
           spent == [running |-> FALSE, failures |-> SyncPollLimit, inFlight |-> FALSE]
           over(q) == [q EXCEPT !.inFlight = FALSE]
<1>3. /\ Sync!Fulfilled(p) = over(cleared)
      /\ Sync!Rejected(p) = IF Sync!Exhausts(p) THEN spent ELSE over(counted)
  BY DEF Sync!Fulfilled, Sync!Rejected
<1>4. /\ cleared \in Sync!Poll /\ cleared.running = p.running
      /\ spent \in Sync!Poll /\ ~spent.running /\ ~spent.inFlight
  BY <1>1 DEF Sync!Poll
<1>5. ~Sync!Exhausts(p) => counted \in Sync!Poll /\ counted.running = p.running
  BY <1>1, <1>2, PollCounts
<1> HIDE DEF cleared, counted, spent
<1>6. \A q \in Sync!Poll : /\ over(q) \in Sync!Poll /\ ~over(q).inFlight
                          /\ over(q).running = q.running
  BY PollFlies
<1> HIDE DEF over
<1>7. Sync!Ticking(p) \in Sync!Poll /\ Sync!Ticking(p).inFlight
      /\ Sync!Ticking(p).running = p.running
  BY PollFlies DEF Sync!Ticking
<1> QED
  BY <1>3, <1>4, <1>5, <1>6, <1>7

(* A step that only reconciles: a cycle does not outlive its phase.        *)
LEMMA ReconcilesKeeps ==
    ASSUME SettleInv, CycleInPhase, Reconciles, shown' \in Funds,
           UNCHANGED <<chain, balance, due>>
    PROVE  SettleInv' /\ CycleInPhase'
<1>1. CASE LeavesReady
  BY <1>1, CycleRetires DEF Reconciles, CycleInPhase
<1>2. CASE ~LeavesReady
  <2>1. UNCHANGED <<cycle, timer>>
    BY <1>2 DEF Reconciles
  <2>2. SettleInv'
    BY <2>1 DEF SettleInv, TypeOK, OneLive, FundsKnown, NoneLive, OnChain, Accounted
  <2> QED
    BY <1>2, <2>1, <2>2 DEF LeavesReady, CycleInPhase, NoneLive, OnChain
<1> QED
  BY <1>1, <1>2

-----------------------------------------------------------------------------
(* The steps.                                                              *)

EngineTypeOK ==
    /\ phase \in Phases
    /\ error \in BOOLEAN
    /\ failures \in 0..RefreshLimit
    /\ poll \in Sync!Poll
    /\ ticks \in Nat
    /\ calls \subseteq {"start", "stop", "refresh"}

PollInv == EngineTypeOK /\ TickKnown

LEMMA IInvParts == IInv <=> PollInv /\ SettleInv /\ CycleInPhase
  BY DEF IInv, ReadsTypeOK, EngineTypeOK, PollInv, SettleInv

(* A move that leaves the ticks alone.                                     *)
LEMMA MovesKeeps ==
    ASSUME PollInv, NEW next \in Phases, MovesTo(next, poll), ticks' = ticks
    PROVE  phase' \in Phases /\ poll' \in Sync!Poll /\ ticks' \in Nat /\ TickKnown'
<1>1. /\ phase' = next /\ poll' \in Sync!Poll /\ poll'.inFlight = poll.inFlight
      /\ poll'.running => phase' = "syncing"
  BY MovesFacts DEF PollInv, EngineTypeOK, TickKnown
<1> QED
  BY <1>1 DEF PollInv, EngineTypeOK, TickKnown

(* A move that a settled tick makes.                                       *)
LEMMA TickKeeps ==
    ASSUME PollInv, NEW next \in Phases, NEW p \in Sync!Poll, MovesTo(next, p),
           ~p.inFlight, p.running => poll.running, ticks > 0, ticks' = ticks - 1
    PROVE  phase' \in Phases /\ poll' \in Sync!Poll /\ ticks' \in Nat /\ TickKnown'
<1>1. /\ phase' = next /\ poll' \in Sync!Poll /\ poll'.inFlight = p.inFlight
      /\ poll'.running => phase' = "syncing"
  BY MovesFacts DEF PollInv, EngineTypeOK, TickKnown
<1>2. ticks = 1
  BY DEF PollInv, TickKnown
<1> QED
  BY <1>1, <1>2 DEF TickKnown

LEMMA PhaseReadFacts ==
    ASSUME phase \in Phases
    PROVE  PhaseRead \in Phases /\ OnInfo(phase, Info) \in Phases
  BY PhasesClosed DEF PhaseRead

LEMMA CountFacts ==
    ASSUME failures \in 0..RefreshLimit
    PROVE  /\ 0 \in 0..RefreshLimit
           /\ (IF failures < RefreshLimit THEN failures + 1 ELSE failures) \in 0..RefreshLimit
  BY ReadsAssumption

(* The engine's own state.                                                 *)
LEMMA PollStep ==
    ASSUME PollInv, ReadsNext
    PROVE  PollInv'
<1>0. /\ phase \in Phases /\ error \in BOOLEAN /\ failures \in 0..RefreshLimit
      /\ poll \in Sync!Poll /\ ticks \in Nat /\ calls \subseteq {"start", "stop", "refresh"}
  BY DEF PollInv, EngineTypeOK
<1>1. CASE Starts
  <2>1. /\ MovesTo(Transition(phase, "startRequested"), poll) /\ ticks' = ticks
        /\ calls' \subseteq {"start", "stop", "refresh"} /\ failures' = 0 /\ error' = FALSE
    BY <1>0, <1>1 DEF Starts
  <2> QED
    BY <1>0, <2>1, PhasesClosed, MovesKeeps, CountFacts DEF PollInv, EngineTypeOK
<1>2. CASE StartSettles
  <2>1. /\ UNCHANGED <<ticks, error, failures>>
        /\ calls' \subseteq {"start", "stop", "refresh"}
        /\ \/ MovesTo(OnInfo(phase, Info), poll)
           \/ MovesTo(Transition(phase, "startFailed"), poll)
           \/ UNCHANGED <<phase, poll>>
    BY <1>0, <1>2 DEF StartSettles
  <2>2. phase' \in Phases /\ poll' \in Sync!Poll /\ ticks' \in Nat /\ TickKnown'
    <3>1. CASE MovesTo(OnInfo(phase, Info), poll)
      BY <1>0, <2>1, <3>1, PhaseReadFacts, MovesKeeps
    <3>2. CASE MovesTo(Transition(phase, "startFailed"), poll)
      BY <1>0, <2>1, <3>2, PhasesClosed, MovesKeeps
    <3>3. CASE UNCHANGED <<phase, poll>>
      BY <1>0, <2>1, <3>3 DEF PollInv, TickKnown
    <3> QED
      BY <2>1, <3>1, <3>2, <3>3
  <2> QED
    BY <1>0, <2>1, <2>2 DEF PollInv, EngineTypeOK
<1>3. CASE Stops
  <2>1. /\ MovesTo(Transition(phase, "stopRequested"), poll) /\ UNCHANGED <<ticks, error, failures>>
        /\ calls' \subseteq {"start", "stop", "refresh"}
    BY <1>0, <1>3 DEF Stops
  <2> QED
    BY <1>0, <2>1, PhasesClosed, MovesKeeps DEF PollInv, EngineTypeOK
<1>4. CASE StopSettles
  <2>1. /\ UNCHANGED <<ticks, error, failures>>
        /\ calls' \subseteq {"start", "stop", "refresh"}
    BY <1>0, <1>4 DEF StopSettles
  <2>2. PICK e \in {"stopCompleted", "stopFailed"} : MovesTo(Transition(phase, e), poll)
    BY <1>4 DEF StopSettles
  <2> QED
    BY <1>0, <2>1, <2>2, PhasesClosed, MovesKeeps DEF PollInv, EngineTypeOK
<1>5. CASE RefreshSettles
  <2>1. /\ UNCHANGED <<ticks, error, failures>>
        /\ calls' \subseteq {"start", "stop", "refresh"}
        /\ MovesTo(PhaseRead, poll) \/ UNCHANGED <<phase, poll>>
    BY <1>0, <1>5 DEF RefreshSettles
  <2>2. phase' \in Phases /\ poll' \in Sync!Poll /\ ticks' \in Nat /\ TickKnown'
    <3>1. CASE MovesTo(PhaseRead, poll)
      BY <1>0, <2>1, <3>1, PhaseReadFacts, MovesKeeps
    <3>2. CASE UNCHANGED <<phase, poll>>
      BY <1>0, <2>1, <3>2 DEF PollInv, TickKnown
    <3> QED
      BY <2>1, <3>1, <3>2
  <2> QED
    BY <1>0, <2>1, <2>2 DEF PollInv, EngineTypeOK
<1>6. CASE PollTicks
  <2>1. /\ poll' = Sync!Ticking(poll) /\ ticks' = ticks + 1 /\ poll.running /\ ~poll.inFlight
        /\ UNCHANGED <<phase, error, failures, calls>>
    BY <1>6 DEF PollTicks, Sync!MayTick
  <2>2. poll' \in Sync!Poll /\ poll'.inFlight /\ ticks = 0
    BY <1>0, <2>1, TickFacts DEF PollInv, TickKnown
  <2> QED
    BY <1>0, <2>1, <2>2 DEF PollInv, EngineTypeOK, TickKnown
<1>7. CASE TickFulfils
  <2>1. /\ ticks > 0 /\ ticks' = ticks - 1 /\ MovesTo(PhaseRead, Sync!Fulfilled(poll))
        /\ UNCHANGED <<error, failures, calls>>
    BY <1>7 DEF TickFulfils
  <2>2. phase' \in Phases /\ poll' \in Sync!Poll /\ ticks' \in Nat /\ TickKnown'
    BY <1>0, <2>1, TickFacts, PhaseReadFacts, TickKeeps
  <2> QED
    BY <1>0, <2>1, <2>2 DEF PollInv, EngineTypeOK
<1>8. CASE TickRejects
  <2>1. /\ ticks > 0 /\ ticks' = ticks - 1 /\ UNCHANGED <<failures, calls>>
        /\ error' \in BOOLEAN
        /\ \/ MovesTo(Transition(phase, "syncPollExhausted"), Sync!Rejected(poll))
           \/ MovesTo(phase, Sync!Rejected(poll))
    BY <1>0, <1>8 DEF TickRejects
  <2>2. phase' \in Phases /\ poll' \in Sync!Poll /\ ticks' \in Nat /\ TickKnown'
    <3>1. PICK next \in Phases : MovesTo(next, Sync!Rejected(poll))
      BY <1>0, <2>1, PhasesClosed
    <3> QED
      BY <1>0, <2>1, <3>1, TickFacts, TickKeeps
  <2> QED
    BY <1>0, <2>1, <2>2 DEF PollInv, EngineTypeOK
<1>9. CASE BackgroundLands
  <2>1. MovesTo(PhaseRead, poll) /\ failures' = 0 /\ UNCHANGED <<ticks, error, calls>>
    BY <1>9 DEF BackgroundLands
  <2> QED
    BY <1>0, <2>1, PhaseReadFacts, CountFacts, MovesKeeps DEF PollInv, EngineTypeOK
<1>10. CASE BackgroundFails
  <2>1. /\ failures' \in 0..RefreshLimit /\ UNCHANGED <<ticks, calls>> /\ error' \in BOOLEAN
        /\ \/ MovesTo(Transition(phase, "backgroundRefreshExhausted"), poll)
           \/ UNCHANGED <<phase, poll>>
    BY <1>0, <1>10, CountFacts DEF BackgroundFails
  <2>2. phase' \in Phases /\ poll' \in Sync!Poll /\ ticks' \in Nat /\ TickKnown'
    <3>1. CASE MovesTo(Transition(phase, "backgroundRefreshExhausted"), poll)
      BY <1>0, <2>1, <3>1, PhasesClosed, MovesKeeps
    <3>2. CASE UNCHANGED <<phase, poll>>
      BY <1>0, <2>1, <3>2 DEF PollInv, TickKnown
    <3> QED
      BY <2>1, <3>1, <3>2
  <2> QED
    BY <1>0, <2>1, <2>2 DEF PollInv, EngineTypeOK
<1>11. CASE Refreshes
  <2>1. UNCHANGED <<phase, error, failures, poll, ticks>> /\ calls' \subseteq {"start", "stop", "refresh"}
    BY <1>0, <1>11 DEF Refreshes
  <2> QED
    BY <1>0, <2>1 DEF PollInv, EngineTypeOK, TickKnown
<1>12. CASE Kicks \/ Activity \/ ProbeFires \/ WalletMoves \/ DaemonTurns \/ BalanceMoves
  <2>1. UNCHANGED engineVars
    BY <1>12 DEF Kicks, Activity, ProbeFires, WalletMoves, DaemonTurns, BalanceMoves
  <2> QED
    BY <2>1 DEF PollInv, EngineTypeOK, TickKnown, engineVars
<1> QED
  BY <1>1, <1>2, <1>3, <1>4, <1>5, <1>6, <1>7, <1>8, <1>9, <1>10, <1>11, <1>12
     DEF ReadsNext, TickSettles, BackgroundSettles

(* The part of a step in which the reconciler takes none.                  *)
LEMMA SettleIdle ==
    ASSUME SettleInv, CycleInPhase, UNCHANGED vars, phase = "ready" => phase' = "ready"
    PROVE  SettleInv' /\ CycleInPhase'
  BY DEF SettleInv, TypeOK, OneLive, FundsKnown, NoneLive, OnChain, Accounted, CycleInPhase, vars

LEMMA PatchFacts == TypeOK /\ Patches => shown' \in Funds
  BY DEF TypeOK, Patches

(* The reconciler's state.                                                 *)
LEMMA SettleStep ==
    ASSUME PollInv, SettleInv, CycleInPhase, ReadsNext
    PROVE  SettleInv' /\ CycleInPhase'
<1>0. phase \in Phases /\ TypeOK /\ shown \in Funds
  BY DEF PollInv, EngineTypeOK, SettleInv, TypeOK
<1>1. CASE Starts \/ StartSettles \/ Stops \/ RefreshSettles \/ TickFulfils
  <2>1. Reconciles /\ UNCHANGED <<chain, balance, due>> /\ (Patches \/ UNCHANGED shown)
    BY <1>1 DEF Starts, StartSettles, Stops, RefreshSettles, TickFulfils
  <2> QED
    BY <1>0, <2>1, PatchFacts, ReconcilesKeeps
<1>2. CASE StopSettles
  <2>1. UNCHANGED vars
        /\ \E e \in {"stopCompleted", "stopFailed"} : phase' = Transition(phase, e)
    BY <1>2 DEF StopSettles, MovesTo
  <2>2. phase = "ready" => phase' = "ready"
    BY <1>0, <2>1, PhasesClosed
  <2> QED
    BY <2>1, <2>2, SettleIdle
<1>3. CASE TickRejects
  <2>1. /\ UNCHANGED vars
        /\ phase' = phase \/ phase = "syncing"
    BY <1>3 DEF TickRejects, MovesTo
  <2> QED
    BY <2>1, SettleIdle
<1>4. CASE Refreshes \/ PollTicks \/ WalletMoves \/ DaemonTurns
  <2>1. UNCHANGED vars /\ phase' = phase
    BY <1>4 DEF Refreshes, PollTicks, WalletMoves, DaemonTurns, engineVars
  <2> QED
    BY <2>1, SettleIdle
<1>5. CASE Kicks
  <2>1. /\ chain' = Append(chain, Kick) /\ UNCHANGED <<cycle, timer, shown, balance, due>>
        /\ phase' = phase
    BY <1>5 DEF Kicks, engineVars
  <2> QED
    BY <2>1, KickKeeps DEF CycleInPhase
<1>6. CASE BackgroundLands
  <2>1. CASE LeavesReady
    <3>1. /\ chain # <<>> /\ chain' = Tail(chain) /\ Patches /\ Retires
          /\ UNCHANGED <<balance, due>>
      BY <1>6, <2>1 DEF BackgroundLands, Reconciles
    <3> QED
      BY <1>0, <3>1, PatchFacts, CycleRetires DEF CycleInPhase
  <2>2. CASE Down /\ ~LeavesReady
    <3>1. /\ chain # <<>> /\ chain' = Tail(chain) /\ Patches
          /\ UNCHANGED <<cycle, timer, balance, due>> /\ phase # "ready"
      BY <1>6, <2>2 DEF BackgroundLands, Reconciles, Down
    <3> QED
      BY <1>0, <3>1, PatchFacts, HeadGoes DEF CycleInPhase
  <2>3. CASE ~Down /\ ~LeavesReady
    <3>1. Lands
      BY <1>6, <2>3 DEF BackgroundLands
    <3> QED
      BY <2>3, <3>1, LandsKeeps DEF CycleInPhase, LeavesReady
  <2> QED
    BY <2>1, <2>2, <2>3
<1>7. CASE BackgroundFails
  <2>1. CASE Retires /\ chain # <<>> /\ chain' = Tail(chain) /\ UNCHANGED <<shown, balance, due>>
    BY <1>0, <2>1, CycleRetires DEF CycleInPhase
  <2>2. CASE Fails /\ phase' = phase
    <3>1. /\ chain # <<>> /\ chain' = Tail(chain)
          /\ UNCHANGED <<cycle, timer, shown, balance, due>>
      BY <2>2 DEF Fails
    <3> QED
      BY <1>0, <2>2, <3>1, HeadGoes DEF CycleInPhase
  <2> QED
    BY <1>7, <2>1, <2>2 DEF BackgroundFails
<1>8. CASE Activity
  <2>1. Trigger /\ phase = "ready" /\ phase' = phase
    BY <1>8 DEF Activity, engineVars
  <2> QED
    BY <2>1, TriggerKeeps DEF CycleInPhase
<1>9. CASE ProbeFires
  <2>1. TimerFires /\ phase' = phase /\ timer # NoProbe
    BY <1>9 DEF ProbeFires, TimerFires, engineVars
  <2> QED
    BY <2>1, TimerKeeps DEF CycleInPhase
<1>10. CASE BalanceMoves
  <2>1. CatchesUp /\ phase' = phase /\ timer' = timer
    BY <1>10 DEF BalanceMoves, CatchesUp, engineVars
  <2> QED
    BY <2>1, CatchesUpKeeps DEF CycleInPhase
<1> QED
  BY <1>1, <1>2, <1>3, <1>4, <1>5, <1>6, <1>7, <1>8, <1>9, <1>10
     DEF ReadsNext, TickSettles, BackgroundSettles

LEMMA InitIInv == ReadsInit => IInv
<1> SUFFICES ASSUME ReadsInit PROVE IInv
  OBVIOUS
<1>1. /\ cycle = 0 /\ timer = NoProbe /\ chain = <<>> /\ shown = 0 /\ balance = 0 /\ due = 0
      /\ phase = "runtimeReady" /\ error = FALSE /\ failures = 0 /\ ticks = 0 /\ calls = {}
      /\ poll = Sync!NewPoll
  BY DEF ReadsInit, Init
<1>2. {Probes, MaxCycles, MaxFunds, RefreshLimit, SyncPollLimit} \subseteq Nat
  BY SettleAssumption, ReadsAssumption
<1>3. TypeOK
  <2>1. NoProbe \in Probe
    BY <1>2 DEF NoProbe, Probe, Funds, NoFunds
  <2> QED
    BY <1>1, <1>2, <2>1 DEF TypeOK, Funds
<1>4. OnChain = {}
  BY <1>1 DEF OnChain
<1>5. SettleInv /\ CycleInPhase
  BY <1>1, <1>2, <1>3, <1>4 DEF SettleInv, OneLive, FundsKnown, NoneLive, CycleInPhase
<1>6. PollInv
  <2>1. Sync!NewPoll \in Sync!Poll /\ ~Sync!NewPoll.running /\ ~Sync!NewPoll.inFlight
    BY <1>2 DEF Sync!NewPoll, Sync!Poll
  <2>2. phase \in Phases
    BY <1>1 DEF Phases, RuntimePhases
  <2>3. poll \in Sync!Poll /\ ~poll.running /\ ~poll.inFlight
    BY <1>1, <2>1
  <2>4. failures \in 0..RefreshLimit /\ ticks \in Nat
    BY <1>1, <1>2
  <2>5. error \in BOOLEAN
    BY <1>1, Zenon
  <2>6. TickKnown
    BY <1>1, <2>3 DEF TickKnown
  <2> QED
    BY <1>1, <2>2, <2>3, <2>4, <2>5, <2>6 DEF PollInv, EngineTypeOK
<1> QED
  BY <1>5, <1>6, IInvParts

LEMMA NextIInv == IInv /\ [ReadsNext]_allVars => IInv'
<1> SUFFICES ASSUME IInv, [ReadsNext]_allVars PROVE IInv'
  OBVIOUS
<1>0. PollInv /\ SettleInv /\ CycleInPhase
  BY IInvParts
<1>1. CASE ReadsNext
  <2>1. PollInv' /\ SettleInv' /\ CycleInPhase'
    BY <1>0, <1>1, PollStep, SettleStep
  <2> QED
    BY <2>1, IInvParts DEF IInv, ReadsTypeOK, EngineTypeOK, PollInv, SettleInv
<1>2. CASE UNCHANGED allVars
  <2>1. UNCHANGED vars /\ UNCHANGED engineVars
    BY <1>2 DEF allVars
  <2>2. SettleInv' /\ CycleInPhase'
    BY <1>0, <2>1, SettleIdle DEF engineVars
  <2>3. PollInv'
    BY <1>0, <2>1 DEF PollInv, EngineTypeOK, TickKnown, engineVars
  <2> QED
    BY <2>2, <2>3 DEF IInv, ReadsTypeOK, EngineTypeOK, PollInv, SettleInv
<1> QED
  BY <1>1, <1>2

-----------------------------------------------------------------------------
(* The theorems.                                                           *)

(* In every behaviour the reads keep their books: ticks match the poller,  *)
(* live cycles are unique and in their phase, and funds are accounted for. *)
THEOREM Invariance == ReadsSpec => []IInv
<1> QED
  BY InitIInv, NextIInv, PTL DEF ReadsSpec

(* Every variable of the reads keeps its type.                             *)
THEOREM TypeCorrect == ReadsSpec => []ReadsTypeOK
<1>1. IInv => ReadsTypeOK
  BY DEF IInv
<1> QED
  BY <1>1, Invariance, PTL

LEMMA AtMostOne ==
    ASSUME NEW S, \A i, j \in S : i = j
    PROVE  Cardinality(S) <= 1
<1>1. CASE S = {}
  BY <1>1, FS_EmptySet
<1>2. CASE S # {}
  <2>1. PICK i \in S : TRUE
    BY <1>2
  <2>2. S = {i}
    BY <2>1
  <2>3. Cardinality(S) = 1
    BY <2>2, FS_Singleton
  <2> QED
    BY <2>3
<1> QED
  BY <1>1, <1>2

(* Neither the sync poll nor the reconciler of engine.ts and reconcile.ts  *)
(* ever runs twice over, or outside the phase that owns it, however        *)
(* starts, stops, slow ticks and slow refreshes interleave.                *)
THEOREM PollsOwned == ReadsSpec => []PollsAreOwned
<1>1. IInv => PollsAreOwned
  <2> SUFFICES ASSUME IInv PROVE PollsAreOwned
    OBVIOUS
  <2>0. OneLive /\ TickKnown /\ CycleInPhase
    BY DEF IInv, SettleInv
  <2>1. OneTick
    BY <2>0 DEF OneTick, TickKnown
  <2>2. Cardinality(Live) <= 1
    <3>1. \A i, j \in Live : i = j
      BY <2>0 DEF OneLive, Live, OnChain
    <3> QED
      BY <3>1, AtMostOne
  <2>3. OneSchedule
    BY <2>0, <2>2, NoneLiveMeans DEF OneSchedule, OneLive
  <2>4. ProbesOnlyWhenReady
    BY <2>0, NoneLiveMeans DEF ProbesOnlyWhenReady, CycleInPhase
  <2> QED
    BY <2>1, <2>3, <2>4 DEF PollsAreOwned, ScheduleIsOwned
<1> QED
  BY <1>1, Invariance, PTL

(* The engine never stamps the error of an exhausted budget on a snapshot  *)
(* that stays out of 'error'.                                              *)
THEOREM Escalation == ReadsSpec => ErrorsEscalate
<1>1. [ReadsNext]_allVars => [~error /\ error' => phase' = "error"]_allVars
  <2> SUFFICES ASSUME ReadsNext, ~error, error' PROVE phase' = "error"
    BY DEF allVars, engineVars
  <2>1. CASE TickRejects
    BY <2>1, PhasesClosed DEF TickRejects, MovesTo
  <2>2. CASE BackgroundFails
    BY <2>2, PhasesClosed DEF BackgroundFails, MovesTo
  <2>3. CASE ~TickRejects /\ ~BackgroundFails
    <3>1. UNCHANGED error \/ error' = FALSE
      BY <2>3 DEF ReadsNext, Starts, StartSettles, Stops, StopSettles, Refreshes, RefreshSettles,
                  PollTicks, TickSettles, TickFulfils, Kicks, BackgroundSettles, BackgroundLands,
                  Activity, ProbeFires, WalletMoves, DaemonTurns, BalanceMoves, engineVars
    <3> QED
      BY <3>1
  <2> QED
    BY <2>1, <2>2, <2>3
<1> QED
  BY <1>1, PTL DEF ReadsSpec, ErrorsEscalate

(* A cycle that stops before its probes run out, and that began with the   *)
(* snapshot up to date, leaves no announced funds out of the snapshot.     *)
THEOREM NothingLeft == ReadsSpec => NothingDue
<1>1. IInv /\ [ReadsNext]_allVars => [StopsEarly /\ Head(chain).spaced => due = 0]_vars
  <2> SUFFICES ASSUME IInv, StopsEarly, Head(chain).spaced PROVE due = 0
    BY DEF vars
  <2>0. /\ TypeOK /\ OneLive /\ FundsKnown /\ {MaxCycles, MaxFunds, Probes} \subseteq Nat
        /\ balance \in Nat /\ due \in Nat
    BY SettleAssumption DEF IInv, SettleInv, TypeOK, Funds
  <2>1. /\ chain # <<>> /\ GoesOn(chain[1]) /\ HasMore(chain[1]) /\ timer' = NoProbe
        /\ chain[1] \in Probe /\ chain[1].spaced /\ 1 \in OnChain
        /\ timer' = IF GoesOn(chain[1]) /\ ~Settled(chain[1]) /\ HasMore(chain[1])
                    THEN NextProbe(chain[1]) ELSE timer
    BY <2>0, TailFacts DEF StopsEarly, Lands, OnChain
  <2>2. chain[1].cycle = cycle /\ Accounted(chain[1])
    BY <2>0, <2>1 DEF GoesOn, FundsKnown
  <2>3. Settled(chain[1])
    <3>1. SUFFICES ASSUME ~Settled(chain[1]) PROVE FALSE
      OBVIOUS
    <3>2. NextProbe(chain[1]) = NoProbe
      BY <2>1, <3>1
    <3>3. NextProbe(chain[1]).attempt = chain[1].attempt + 1 /\ chain[1].attempt \in Nat
      BY <2>0, <2>1, NextProbeFacts DEF HasMore, Probe, TypeOK
    <3>4. NoProbe.attempt = 0
      BY DEF NoProbe
    <3> QED
      BY <3>2, <3>3, <3>4
  <2>4. chain[1].baseline \in Nat /\ balance # chain[1].baseline
    BY <2>0, <2>1, <2>3 DEF Settled, Probe, Funds
  <2> QED
    BY <2>0, <2>1, <2>2, <2>4 DEF Accounted
<1> QED
  BY <1>1, Invariance, PTL DEF ReadsSpec, NothingDue
=============================================================================
