------------------------- MODULE EventSystem_proofs -------------------------
(***************************************************************************)
(* Proofs about the event loop and its signals (EventSystem).              *)
(***************************************************************************)
EXTENDS EventSystem, FiniteSetTheorems, SequenceTheorems, WellFoundedInduction, TLAPS

-----------------------------------------------------------------------------
(* Minima *)

(* A set of naturals that is not empty has a least element: < is well      *)
(* founded.                                                                *)
LEMMA MinExists ==
  ASSUME NEW S \in SUBSET Nat, S # {}
  PROVE  Min(S) \in S /\ \A y \in S : Min(S) <= y
<1> DEFINE less == {ss \in Nat \X Nat : ss[1] < ss[2]}
<1>1. IsWellFoundedOn(less, Nat)
  BY NatLessThanWellFounded, Zenon DEF OpToRel
<1>2. \A n, m \in Nat : m < n => <<m, n>> \in less
  OBVIOUS
<1> HIDE DEF less
<1>3. \E x \in S : \A y \in S : ~ (<<y, x>> \in less)
  BY <1>1, WFMin
<1>4. PICK x \in S : \A y \in S : ~ (<<y, x>> \in less)
  BY <1>3
<1>5. ASSUME NEW y \in S PROVE x <= y
  <2>1. <<y, x>> \notin less
    BY <1>4
  <2>2. x \in Nat /\ y \in Nat
    OBVIOUS
  <2> QED
    BY <1>2, <2>1, <2>2
<1> QED
  BY <1>5 DEF Min

LEMMA MinPair ==
  ASSUME NEW m \in Nat, NEW n \in Nat
  PROVE  Min({m, n}) \in {m, n} /\ Min({m, n}) <= m /\ Min({m, n}) <= n
<1>1. {m, n} \in SUBSET Nat /\ {m, n} # {}
  OBVIOUS
<1> QED
  BY <1>1, MinExists

-----------------------------------------------------------------------------
(* The signals.  A signal that waits for its handler has its flag set,     *)
(* until the handler is about to be called; and what makes the loop look   *)
(* at the flag again is ahead of it: a byte in the pipe, or, while it goes *)
(* through the list, the signal's place in it.                             *)

SigType ==
  /\ all_signals \in Seq(Signals!Signal)
  /\ sig_received \in [Signals!Signal -> BOOLEAN]
  /\ pipe \in Nat
  /\ sig \in Nat \ {0}
  /\ got_something \in BOOLEAN
  /\ sig_pc \in {"dispatch", "read", "check", "clear", "call"}
  /\ sig_pc \in {"clear", "call"} => sig <= Len(all_signals)

Unhandled == unseen \cap ToSet(all_signals)

Flagged ==
  \A s \in Unhandled :
    sig_received[s] \/ (sig_pc = "call" /\ all_signals[sig] = s)

Awaited ==
  \A s \in Unhandled :
    \/ pipe > 0
    \/ sig_pc = "read" /\ got_something
    \/ /\ sig_pc \in {"check", "clear", "call"}
       /\ \E i \in DOMAIN all_signals : i >= sig /\ all_signals[i] = s

SigInv == SigType /\ Flagged /\ Awaited

(* The operators of the instance are the ones of this module.              *)
LEMMA SameOperators ==
  /\ \A S : Signals!Min(S) = Min(S) /\ Signals!ToSet(S) = ToSet(S)
  /\ \A q, k : Signals!RemoveAt(q, k) = RemoveAt(q, k)
BY DEF Signals!Min, Min, Signals!ToSet, ToSet, Signals!RemoveAt, RemoveAt

LEMMA SigInitInv == Signals!Init => SigInv
<1> SUFFICES ASSUME Signals!Init PROVE SigInv
  OBVIOUS
<1>1. Signals!Signal = ToSet(signals)
  BY SameOperators DEF Signals!Signal
<1>2. all_signals \in Seq(Signals!Signal) /\ sig_received \in [Signals!Signal -> BOOLEAN]
  BY <1>1, SignalsAssumption DEF Signals!Init
<1>3. SigType
  <2>1. pipe = 0 /\ sig = 1 /\ sig_pc = "dispatch"
    BY DEF Signals!Init
  <2>2. got_something \in BOOLEAN
    BY Zenon DEF Signals!Init
  <2> QED
    BY <1>2, <2>1, <2>2 DEF SigType
<1>4. Unhandled = {}
  BY DEF Signals!Init, Unhandled
<1> QED
  BY <1>3, <1>4 DEF SigInv, Flagged, Awaited

LEMMA SignalHandlerInv ==
  ASSUME SigInv, NEW s \in Signals!Signal, Signals!signal_handler(s)
  PROVE  SigInv'
<1>1. pipe' \in Nat /\ pipe' > 0
  <2>1. pipe + 1 \in Nat /\ PipeSize \in Nat
    BY SizesAssumption DEF SigInv, SigType
  <2>2. pipe' \in {pipe + 1, PipeSize}
    BY <2>1, MinPair, SameOperators DEF Signals!signal_handler
  <2> QED
    BY <2>1, <2>2, SizesAssumption DEF SigInv, SigType
<1>2. \A r \in Signals!Signal :
        sig_received'[r] = IF r = s THEN sig_received[s] \/ s \in ToSet(all_signals)
                           ELSE sig_received[r]
  BY SameOperators DEF Signals!signal_handler, SigInv, SigType
<1>3. SigType'
  <2>1. sig_received' \in [Signals!Signal -> BOOLEAN]
    BY DEF Signals!signal_handler, SigInv, SigType
  <2> QED
    BY <1>1, <2>1 DEF Signals!signal_handler, SigInv, SigType
<1>4. Unhandled' \subseteq Unhandled \cup ({s} \cap ToSet(all_signals))
  BY DEF Signals!signal_handler, Unhandled
<1>5. ToSet(all_signals) \subseteq Signals!Signal
  BY DEF SigInv, SigType, ToSet
<1>6. Flagged'
  <2> SUFFICES ASSUME NEW r \in Unhandled'
               PROVE  sig_received'[r] \/ (sig_pc' = "call" /\ all_signals'[sig'] = r)
    BY DEF Flagged
  <2>1. r \in Signals!Signal
    BY <1>4, <1>5 DEF Unhandled
  <2>2. CASE r = s
    <3>1. s \in ToSet(all_signals)
      BY <2>2 DEF Unhandled, Signals!signal_handler
    <3> QED
      BY <1>2, <2>1, <2>2, <3>1
  <2>3. CASE r # s
    <3>1. r \in Unhandled
      BY <1>4, <2>3
    <3>2. sig_received'[r] = sig_received[r]
      BY <1>2, <2>1, <2>3
    <3> QED
      BY <3>1, <3>2 DEF Signals!signal_handler, SigInv, Flagged
  <2> QED
    BY <2>2, <2>3
<1>7. Awaited'
  BY <1>1 DEF Awaited
<1> QED
  BY <1>3, <1>6, <1>7 DEF SigInv

(* Nothing becomes unhandled but by a signal.                              *)
LEMMA ReadStepsInv ==
  ASSUME SigInv,
         \/ Signals!Enter \/ Signals!Read \/ Signals!Drained
         \/ Signals!CheckFlag \/ Signals!ClearFlag
  PROVE  SigInv'
<1> USE DEF SigInv
<1>1. Unhandled' = Unhandled /\ all_signals' = all_signals
  BY DEF Signals!Enter, Signals!Read, Signals!Drained, Signals!CheckFlag,
     Signals!ClearFlag, Unhandled
<1>2. CASE Signals!Enter
  BY <1>1, <1>2 DEF Signals!Enter, SigType, Flagged, Awaited
<1>3. CASE Signals!Read
  <2>1. BufSize \in Nat /\ pipe \in Nat
    BY SizesAssumption DEF SigType
  <2>2. Min({pipe, BufSize}) \in {pipe, BufSize} /\ Min({pipe, BufSize}) <= pipe
    BY <2>1, MinPair
  <2>3. pipe' \in Nat
    BY <1>3, <2>1, <2>2, SameOperators DEF Signals!Read
  <2> QED
    BY <1>1, <1>3, <2>3 DEF Signals!Read, SigType, Flagged, Awaited
<1>4. CASE Signals!Drained
  <2>0. sig' = 1 /\ sig_received' = sig_received /\ sig_pc' \in {"check", "dispatch"}
    BY <1>4 DEF Signals!Drained
  <2>1. SigType' /\ Flagged'
    <3>1. SigType'
      BY <1>1, <1>4, <2>0 DEF Signals!Drained, SigType
    <3>2. \A s \in Unhandled : sig_received[s]
      BY <1>4 DEF Signals!Drained, Flagged
    <3>3. Flagged'
      BY <1>1, <2>0, <3>2 DEF Flagged
    <3> QED
      BY <3>1, <3>3
  <2>2. \A s \in Unhandled : got_something /\ \E i \in DOMAIN all_signals : i >= 1 /\ all_signals[i] = s
    BY <1>4 DEF Signals!Drained, SigType, Awaited, Unhandled, ToSet
  <2> QED
    BY <1>1, <1>4, <2>1, <2>2 DEF Signals!Drained, Awaited
<1>5. CASE Signals!CheckFlag
  <2>1. CASE sig > Len(all_signals)
    <3>1. SigType' /\ Flagged'
      BY <1>1, <1>5, <2>1 DEF Signals!CheckFlag, SigType, Flagged
    <3>2. \A s \in Unhandled : pipe > 0
      BY <1>5, <2>1 DEF Signals!CheckFlag, SigType, Awaited
    <3> QED
      BY <1>1, <1>5, <2>1, <3>1, <3>2 DEF Signals!CheckFlag, Awaited
  <2>2. CASE sig <= Len(all_signals) /\ sig_received[all_signals[sig]]
    BY <1>1, <1>5, <2>2 DEF Signals!CheckFlag, SigType, Flagged, Awaited
  <2>3. CASE sig <= Len(all_signals) /\ ~sig_received[all_signals[sig]]
    <3>1. sig' = sig + 1 /\ sig_pc' = sig_pc /\ sig_pc = "check"
      BY <1>5, <2>3 DEF Signals!CheckFlag, SigType
    <3>2. SigType' /\ Flagged'
      BY <1>1, <1>5, <3>1 DEF Signals!CheckFlag, SigType, Flagged
    <3>3. ASSUME NEW s \in Unhandled, NEW i \in DOMAIN all_signals,
                 i >= sig, all_signals[i] = s
          PROVE  i >= sig + 1
      BY <2>3, <3>1, <3>3 DEF Flagged, SigType
    <3> QED
      BY <1>1, <1>5, <3>1, <3>2, <3>3 DEF Signals!CheckFlag, Awaited
  <2> QED
    BY <2>1, <2>2, <2>3 DEF SigType
<1>6. CASE Signals!ClearFlag
  <2>1. SigType'
    BY <1>1, <1>6 DEF Signals!ClearFlag, SigType
  <2>2. \A s \in Signals!Signal : s # all_signals[sig] => sig_received'[s] = sig_received[s]
    BY <1>6 DEF Signals!ClearFlag, SigType
  <2>3. Unhandled \subseteq Signals!Signal
    BY DEF Unhandled, SigType, ToSet
  <2>4. Flagged'
    BY <1>1, <1>6, <2>2, <2>3 DEF Signals!ClearFlag, Flagged
  <2> QED
    BY <1>1, <1>6, <2>1, <2>4 DEF Signals!ClearFlag, Awaited
<1> QED
  BY <1>2, <1>3, <1>4, <1>5, <1>6

LEMMA RemoveAtFacts ==
  ASSUME NEW S, NEW q \in Seq(S), NEW k \in DOMAIN q
  PROVE  /\ RemoveAt(q, k) \in Seq(S) /\ Len(RemoveAt(q, k)) = Len(q) - 1
         /\ \A i \in DOMAIN RemoveAt(q, k) :
              RemoveAt(q, k)[i] = IF i < k THEN q[i] ELSE q[i + 1]
<1> DEFINE a == SubSeq(q, 1, k - 1)
           b == SubSeq(q, k + 1, Len(q))
<1>1. a \in Seq(S) /\ Len(a) = k - 1 /\ \A i \in 1 .. k - 1 : a[i] = q[i]
  OBVIOUS
<1>2. b \in Seq(S) /\ Len(b) = Len(q) - k /\ \A i \in 1 .. Len(q) - k : b[i] = q[k + i]
  OBVIOUS
<1>3. k \in Nat /\ k >= 1 /\ k <= Len(q) /\ Len(q) \in Nat
  OBVIOUS
<1> HIDE DEF a, b
<1>4. a \o b \in Seq(S) /\ Len(a \o b) = Len(q) - 1
  BY <1>1, <1>2, <1>3
<1>5. ASSUME NEW i \in 1 .. Len(q) - 1
      PROVE  (a \o b)[i] = IF i < k THEN q[i] ELSE q[i + 1]
  <2>1. CASE i < k
    BY <1>1, <1>2, <1>3, <2>1
  <2>2. CASE i >= k
    <3>1. (a \o b)[i] = b[i - (k - 1)]
      BY <1>1, <1>2, <1>3, <2>2
    <3> QED
      BY <1>2, <1>3, <2>2, <3>1
  <2>3. i < k \/ i >= k
    BY <1>3
  <2> QED
    BY <2>1, <2>2, <2>3
<1>6. RemoveAt(q, k) = a \o b
  BY DEF RemoveAt, a, b
<1>7. DOMAIN (a \o b) = 1 .. Len(q) - 1
  BY <1>3, <1>4
<1> QED
  BY <1>4, <1>5, <1>6, <1>7

LEMMA CallInv ==
  ASSUME SigInv, Signals!Call
  PROVE  SigInv'
<1> USE DEF SigInv
<1>1. sig \in DOMAIN all_signals
  BY DEF Signals!Call, SigType
<1>2. CASE sig' = sig + 1 /\ all_signals' = all_signals
  <2>1. SigType'
    BY <1>2 DEF Signals!Call, SigType
  <2>2. Unhandled' = Unhandled \ {all_signals[sig]}
    BY <1>2 DEF Signals!Call, Unhandled
  <2>3. Flagged'
    BY <1>2, <2>2 DEF Signals!Call, Flagged
  <2>4. ASSUME NEW s \in Unhandled', NEW i \in DOMAIN all_signals,
               i >= sig, all_signals[i] = s
        PROVE  i >= sig + 1
    BY <2>2, <2>4 DEF SigType
  <2> QED
    BY <1>2, <2>1, <2>2, <2>3, <2>4 DEF Signals!Call, Awaited
<1>3. CASE sig' = sig /\ all_signals' = RemoveAt(all_signals, sig)
  <2>1. all_signals \in Seq(Signals!Signal)
    BY DEF SigType
  <2>2. /\ all_signals' \in Seq(Signals!Signal) /\ Len(all_signals') = Len(all_signals) - 1
        /\ \A i \in DOMAIN all_signals' :
             all_signals'[i] = IF i < sig THEN all_signals[i] ELSE all_signals[i + 1]
    BY <1>1, <1>3, <2>1, RemoveAtFacts
  <2>3. SigType'
    BY <1>3, <2>2 DEF Signals!Call, SigType
  <2>4. ToSet(all_signals') \subseteq ToSet(all_signals)
    BY <1>1, <2>1, <2>2 DEF ToSet
  <2>5. Unhandled' \subseteq Unhandled \ {all_signals[sig]}
    BY <2>4 DEF Signals!Call, Unhandled
  <2>6. Flagged'
    BY <2>5 DEF Signals!Call, Flagged
  <2>7. ASSUME NEW s \in Unhandled', NEW i \in DOMAIN all_signals,
               i >= sig, all_signals[i] = s
        PROVE  \E j \in DOMAIN all_signals' : j >= sig /\ all_signals'[j] = s
    <3>1. i # sig /\ sig >= 1 /\ sig \in Nat /\ i \in 1 .. Len(all_signals) /\ Len(all_signals) \in Nat
      BY <1>1, <2>1, <2>5, <2>7 DEF SigType
    <3>2. i - 1 \in DOMAIN all_signals' /\ i - 1 >= sig
      BY <2>2, <2>7, <3>1
    <3>3. all_signals'[i - 1] = all_signals[(i - 1) + 1]
      BY <2>2, <3>1, <3>2
    <3> QED
      BY <2>7, <3>1, <3>2, <3>3
  <2> QED
    BY <1>3, <2>3, <2>5, <2>6, <2>7 DEF Signals!Call, Awaited
<1> QED
  BY <1>2, <1>3, SameOperators DEF Signals!Call

LEMMA SigNextInv == SigInv /\ [Next]_allVars => SigInv'
<1> SUFFICES ASSUME SigInv, [Next]_allVars
             PROVE  SigInv'
  OBVIOUS
<1>1. ASSUME UNCHANGED sigVars
      PROVE  SigInv'
  BY <1>1 DEF sigVars, SigInv, SigType, Flagged, Awaited, Unhandled
<1>2. CASE HandleSignals
  BY <1>2, ReadStepsInv, CallInv DEF HandleSignals, EnterSignal, CallHandler, LeaveSignal
<1>3. CASE SignalComes
  BY <1>3, SignalHandlerInv DEF SignalComes
<1> QED
  BY <1>1, <1>2, <1>3 DEF Next, Dispatch, allVars

-----------------------------------------------------------------------------
(* The list.  A list is a chain of the events of s when head and le_next   *)
(* lead through s, and only once to each; the signal event is at its tail, *)
(* and before it, also when it is taken off the list, the listen event.    *)

List == [head : Event \cup {NULL}, le_next : [Event -> Event \cup {NULL}]]

OnlyOnce(s) == \A i, j \in 1 .. Len(s) : s[i] = s[j] => i = j

IsChain(list, s) ==
  /\ list \in List /\ s \in Seq(Event) /\ Len(s) >= 1 /\ OnlyOnce(s)
  /\ list.head = s[1]
  /\ \A i \in 1 .. Len(s) - 1 : list.le_next[s[i]] = s[i + 1]
  /\ s[Len(s)] = signal_event
  /\ list.le_next[signal_event] = NULL
  /\ list.le_next[listen_event] = signal_event

(* What the recursive definition of Listed defines.                        *)
Follows(list, s) == IF s = << >> THEN list.head ELSE list.le_next[Last(s)]

IsWalk(f, list) ==
  f = [n \in 0 .. Cardinality(Event) |->
        IF n = 0 THEN << >>
        ELSE IF Follows(list, f[n - 1]) = NULL THEN f[n - 1]
             ELSE Append(f[n - 1], Follows(list, f[n - 1]))]

LEMMA ListedDef ==
  ASSUME NEW list
  PROVE  Listed(list) = (CHOOSE f : IsWalk(f, list))[Cardinality(Event)]
BY Zenon DEF Listed, IsWalk, Follows

LEMMA EventFacts ==
  /\ IsFiniteSet(Event) /\ Cardinality(Event) \in Nat
  /\ signal_event \in Event /\ listen_event \in Event /\ Peer \subseteq Event
  /\ signal_event # listen_event /\ NULL \notin Event
  /\ signal_event \notin Peer /\ listen_event \notin Peer
<1>1. IsFiniteSet({listen_event, signal_event})
  <2>1. {listen_event, signal_event} = {listen_event} \cup {signal_event}
    OBVIOUS
  <2>2. IsFiniteSet({listen_event}) /\ IsFiniteSet({signal_event})
    BY FS_Singleton
  <2> QED
    BY <2>1, <2>2, FS_Union
<1>2. IsFiniteSet(Event)
  BY <1>1, PeerAssumption, FS_Union DEF Event
<1> QED
  BY <1>2, FS_CardinalityType, EventAssumption DEF Event

(* A sequence in which no event is twice is not longer than there are      *)
(* events.                                                                 *)
LEMMA LengthBound ==
  ASSUME NEW s \in Seq(Event), OnlyOnce(s)
  PROVE  Len(s) <= Cardinality(Event)
<1> DEFINE n == Len(s)
<1>1. n \in Nat /\ s \in [1 .. n -> Event]
  OBVIOUS
<1>2. \A i, j \in 1 .. n : s[i] = s[j] => i = j
  BY DEF OnlyOnce
<1> HIDE DEF n
<1>3. s \in Injection(1 .. n, Event)
  BY <1>1, <1>2 DEF Injection, IsInjective
<1>4. Cardinality(1 .. n) <= Cardinality(Event)
  BY <1>3, EventFacts, FS_Injection
<1>5. Cardinality(1 .. n) = n
  BY <1>1, FS_Interval
<1> QED
  BY <1>4, <1>5 DEF n

(* Listed returns the sequence that the list is a chain of.                *)
LEMMA ListedIs ==
  ASSUME NEW list, NEW s, IsChain(list, s)
  PROVE  Listed(list) = s
<1> DEFINE n == Len(s)
           most == Cardinality(Event)
           pre(k) == SubSeq(s, 1, IF k <= n THEN k ELSE n)
           after(q) == IF Follows(list, q) = NULL THEN q ELSE Append(q, Follows(list, q))
           g == [k \in 0 .. most |-> pre(k)]
<1>1. n \in Nat /\ n >= 1 /\ most \in Nat /\ n <= most /\ s \in Seq(Event)
  BY EventFacts, LengthBound DEF IsChain
<1>2. /\ pre(0) = << >> /\ after(pre(0)) = pre(1)
      /\ \A k \in Nat : k >= n => pre(k) = s
  <2>1. pre(0) = << >> /\ \A k \in Nat : k >= n => pre(k) = s
    BY <1>1
  <2>2. Follows(list, << >>) = s[1] /\ s[1] # NULL
    BY <1>1, EventFacts DEF Follows, IsChain
  <2>3. pre(0) = SubSeq(s, 1, 0) /\ pre(1) = SubSeq(s, 1, 1)
    BY <1>1
  <2>4. Append(SubSeq(s, 1, 0), s[1]) = SubSeq(s, 1, 1)
    BY <1>1
  <2> QED
    BY <2>1, <2>2, <2>3, <2>4
<1>3. ASSUME NEW k \in Nat, k >= 2
      PROVE  after(pre(k - 1)) = pre(k)
  <2>1. CASE k <= n
    <3>1. pre(k - 1) = SubSeq(s, 1, k - 1) /\ pre(k) = SubSeq(s, 1, k)
      BY <1>1, <1>3, <2>1
    <3>2. Follows(list, SubSeq(s, 1, k - 1)) = list.le_next[s[k - 1]]
      BY <1>1, <1>3, <2>1 DEF Follows, Last
    <3>3. list.le_next[s[k - 1]] = s[k] /\ s[k] # NULL
      <4>1. k - 1 \in 1 .. Len(s) - 1 /\ s[(k - 1) + 1] = s[k] /\ s[k] \in Event
        BY <1>1, <1>3, <2>1
      <4> QED
        BY <4>1, EventFacts DEF IsChain
    <3>4. Append(SubSeq(s, 1, k - 1), s[k]) = SubSeq(s, 1, k)
      BY <1>1, <1>3, <2>1
    <3> QED
      BY <3>1, <3>2, <3>3, <3>4
  <2>2. CASE k > n
    <3>1. pre(k - 1) = s /\ pre(k) = s
      BY <1>1, <1>2, <1>3, <2>2
    <3>2. Follows(list, s) = NULL
      BY <1>1 DEF Follows, Last, IsChain
    <3> QED
      BY <3>1, <3>2
  <2> QED
    BY <1>1, <1>3, <2>1, <2>2
<1> HIDE DEF n, most, pre
<1>4. \A k \in 0 .. most : k # 0 => after(pre(k - 1)) = pre(k)
  <2> SUFFICES ASSUME NEW k \in 0 .. most, k # 0
               PROVE  after(pre(k - 1)) = pre(k)
    OBVIOUS
  <2>1. CASE k = 1
    BY <1>2, <2>1
  <2>2. CASE k # 1
    <3>1. k \in Nat /\ k >= 2
      BY <1>1, <2>2
    <3> QED
      BY <1>3, <3>1
  <2> QED
    BY <2>1, <2>2
<1> HIDE DEF after
<1>5. g = [k \in 0 .. most |-> IF k = 0 THEN << >> ELSE after(g[k - 1])]
  <2>1. \A k \in 0 .. most : k # 0 => k - 1 \in 0 .. most
    BY <1>1
  <2>2. \A k \in 0 .. most : g[k] = IF k = 0 THEN << >> ELSE after(g[k - 1])
    BY <1>2, <1>4, <2>1
  <2> QED
    BY <2>2
<1>6. IsWalk(g, list)
  BY <1>5 DEF IsWalk, after, most
<1> DEFINE f == CHOOSE h : IsWalk(h, list)
<1>7. IsWalk(f, list)
  BY <1>6
<1>8. \A k \in 0 .. most : f[k] = IF k = 0 THEN << >> ELSE after(f[k - 1])
  BY <1>7 DEF IsWalk, after, most
<1> HIDE DEF f
<1>9. \A k \in 0 .. most : f[k] = pre(k)
  <2> DEFINE bad == {k \in 0 .. most : f[k] # pre(k)}
  <2> SUFFICES ASSUME bad # {}
               PROVE  FALSE
    OBVIOUS
  <2>1. bad \in SUBSET Nat
    BY <1>1
  <2>2. Min(bad) \in bad /\ \A k \in bad : Min(bad) <= k
    <3> HIDE DEF bad
    <3> QED
      BY <2>1, MinExists
  <2>3. CASE Min(bad) = 0
    BY <1>2, <1>8, <2>2, <2>3
  <2>4. CASE Min(bad) # 0
    <3>1. Min(bad) - 1 \in 0 .. most /\ Min(bad) - 1 \notin bad
      BY <1>1, <2>1, <2>2, <2>4
    <3>2. f[Min(bad) - 1] = pre(Min(bad) - 1)
      BY <3>1
    <3> QED
      BY <1>4, <1>8, <2>2, <2>4, <3>2
  <2> QED
    BY <2>3, <2>4
<1>10. f[most] = s
  BY <1>1, <1>2, <1>9 
<1> QED
  BY <1>10, ListedDef DEF f, most

LEMMA ToSetFacts ==
  ASSUME NEW S, NEW s \in Seq(S)
  PROVE  ToSet(s) \subseteq S /\ ToSet(s) = {s[i] : i \in 1 .. Len(s)}
BY DEF ToSet

LEMMA ConsFacts ==
  ASSUME NEW S, NEW s \in Seq(S), NEW e \in S
  PROVE  /\ <<e>> \o s \in Seq(S) /\ Len(<<e>> \o s) = Len(s) + 1
         /\ \A i \in 1 .. Len(s) + 1 : (<<e>> \o s)[i] = IF i = 1 THEN e ELSE s[i - 1]
         /\ ToSet(<<e>> \o s) = ToSet(s) \cup {e}
<1> DEFINE t == <<e>> \o s
<1>1. t \in Seq(S) /\ Len(t) = Len(s) + 1
  OBVIOUS
<1>2. \A i \in 1 .. Len(s) + 1 : t[i] = IF i = 1 THEN e ELSE s[i - 1]
  OBVIOUS
<1> HIDE DEF t
<1>3. ASSUME NEW d \in ToSet(t)
      PROVE  d \in ToSet(s) \cup {e}
  BY <1>1, <1>2, <1>3, ToSetFacts
<1>4. e \in ToSet(t)
  BY <1>1, <1>2, ToSetFacts
<1>5. ASSUME NEW i \in 1 .. Len(s)
      PROVE  s[i] \in ToSet(t)
  <2>1. i + 1 \in 1 .. Len(t) /\ t[i + 1] = s[i]
    BY <1>1, <1>2
  <2> QED
    BY <1>1, <2>1, ToSetFacts
<1>6. ToSet(t) = ToSet(s) \cup {e}
  BY <1>3, <1>4, <1>5, ToSetFacts
<1> QED
  BY <1>1, <1>2, <1>6 DEF t

LEMMA InsertChain ==
  ASSUME NEW list, NEW s, IsChain(list, s), NEW e \in Peer, e \notin ToSet(s)
  PROVE  /\ IsChain(LIST_INSERT_HEAD(list, e), <<e>> \o s)
         /\ \A d \in Event : d # e => LIST_INSERT_HEAD(list, e).le_next[d] = list.le_next[d]
<1> DEFINE l == LIST_INSERT_HEAD(list, e)
           t == <<e>> \o s
           n == Len(s)
<1>1. /\ list \in List /\ s \in Seq(Event) /\ e \in Event /\ n \in Nat /\ n >= 1
      /\ \A i \in 1 .. n : s[i] \in Event /\ s[i] # e
  BY EventFacts, ToSetFacts DEF IsChain
<1>2. /\ l.head = e /\ l.le_next[e] = s[1]
      /\ \A d \in Event : d # e => l.le_next[d] = list.le_next[d]
  BY <1>1 DEF LIST_INSERT_HEAD, List, IsChain
<1>3. l \in List
  BY <1>1 DEF LIST_INSERT_HEAD, List
<1>4. t \in Seq(Event) /\ Len(t) = n + 1
      /\ \A i \in 1 .. n + 1 : t[i] = IF i = 1 THEN e ELSE s[i - 1]
  BY <1>1, ConsFacts
<1>5. \A i, j \in 1 .. n : s[i] = s[j] => i = j
  BY DEF IsChain, OnlyOnce
<1>6. \A i \in 1 .. n - 1 : list.le_next[s[i]] = s[i + 1]
  BY DEF IsChain
<1>7. s[n] = signal_event /\ list.le_next[signal_event] = NULL
      /\ list.le_next[listen_event] = signal_event
  BY DEF IsChain
<1> HIDE DEF l, t, n
<1>8. OnlyOnce(t)
  <2> SUFFICES ASSUME NEW i \in 1 .. n + 1, NEW j \in 1 .. n + 1, t[i] = t[j]
               PROVE  i = j
    BY <1>4 DEF OnlyOnce
  <2>1. CASE i = 1
    BY <1>1, <1>4, <2>1
  <2>2. CASE j = 1
    BY <1>1, <1>4, <2>2
  <2>3. CASE i # 1 /\ j # 1
    <3>1. i - 1 \in 1 .. n /\ j - 1 \in 1 .. n /\ s[i - 1] = s[j - 1]
      BY <1>1, <1>4, <2>3
    <3> QED
      BY <1>5, <3>1
  <2> QED
    BY <2>1, <2>2, <2>3
<1>9. ASSUME NEW i \in 1 .. n
      PROVE  l.le_next[t[i]] = t[i + 1]
  <2>1. CASE i = 1
    BY <1>1, <1>2, <1>4, <2>1
  <2>2. CASE i # 1
    <3>1. i - 1 \in 1 .. n - 1 /\ t[i] = s[i - 1] /\ t[i + 1] = s[i]
      BY <1>1, <1>4, <2>2
    <3>2. list.le_next[s[i - 1]] = s[(i - 1) + 1] /\ (i - 1) + 1 = i
      BY <1>1, <1>6, <3>1
    <3>3. s[i - 1] \in Event /\ s[i - 1] # e
      BY <1>1, <3>1
    <3> QED
      BY <1>2, <3>1, <3>2, <3>3
  <2> QED
    BY <2>1, <2>2
<1>10. t[n + 1] = signal_event /\ t[1] = e
  BY <1>1, <1>4, <1>7
<1>11. l.le_next[signal_event] = NULL /\ l.le_next[listen_event] = signal_event
  BY <1>2, <1>7, EventFacts
<1>12. IsChain(l, t)
  <2>1. (n + 1) - 1 = n /\ n + 1 >= 1
    BY <1>1
  <2> QED
    BY <1>2, <1>3, <1>4, <1>8, <1>9, <1>10, <1>11, <2>1 DEF IsChain
<1> QED
  BY <1>2, <1>12 DEF l, t

LEMMA RemoveChain ==
  ASSUME NEW list, NEW s, IsChain(list, s), NEW k \in 1 .. Len(s), s[k] # signal_event
  PROVE  /\ IsChain(LIST_REMOVE(list, s[k]), RemoveAt(s, k))
         /\ Len(RemoveAt(s, k)) = Len(s) - 1
         /\ ToSet(RemoveAt(s, k)) = ToSet(s) \ {s[k]}
         /\ \A d \in Event :
              LIST_REMOVE(list, s[k]).le_next[d] =
                IF d \in ToSet(s) /\ list.le_next[d] = s[k] THEN list.le_next[s[k]]
                ELSE list.le_next[d]
<1> DEFINE e == s[k]
           l == LIST_REMOVE(list, e)
           t == RemoveAt(s, k)
           n == Len(s)
<1>1. /\ list \in List /\ s \in Seq(Event) /\ n \in Nat /\ n >= 1 /\ list.head = s[1]
      /\ \A i \in 1 .. n : s[i] \in Event /\ s[i] \in ToSet(s)
  BY ToSetFacts DEF IsChain
<1>2. \A i, j \in 1 .. n : s[i] = s[j] => i = j
  BY DEF IsChain, OnlyOnce
<1>3. \A i \in 1 .. n - 1 : list.le_next[s[i]] = s[i + 1]
  BY DEF IsChain
<1>4. s[n] = signal_event /\ list.le_next[signal_event] = NULL
      /\ list.le_next[listen_event] = signal_event
  BY DEF IsChain
<1>5. k \in 1 .. n - 1 /\ list.le_next[e] = s[k + 1]
  BY <1>1, <1>3, <1>4
<1>6. /\ \A d \in Event : l.le_next[d] = IF d \in ToSet(s) /\ list.le_next[d] = e
                                        THEN list.le_next[e] ELSE list.le_next[d]
      /\ l.head = IF list.head = e THEN list.le_next[e] ELSE list.head
  BY ListedIs DEF LIST_REMOVE
<1>7. l \in List
  <2>1. l = [head |-> IF list.head = e THEN list.le_next[e] ELSE list.head,
             le_next |-> [d \in Event |-> IF d \in ToSet(s) /\ list.le_next[d] = e
                                          THEN list.le_next[e] ELSE list.le_next[d]]]
    BY ListedIs DEF LIST_REMOVE
  <2>2. e \in Event /\ list.head \in Event \cup {NULL}
        /\ \A d \in Event : list.le_next[d] \in Event \cup {NULL}
    BY <1>1 DEF List
  <2> HIDE DEF e, l
  <2> QED
    BY <2>1, <2>2 DEF List
<1>8. t \in Seq(Event) /\ Len(t) = n - 1
      /\ \A i \in 1 .. n - 1 : t[i] = IF i < k THEN s[i] ELSE s[i + 1]
  <2>1. k \in DOMAIN s
    BY <1>1
  <2>2. /\ t \in Seq(Event) /\ Len(t) = n - 1
        /\ \A i \in DOMAIN t : t[i] = IF i < k THEN s[i] ELSE s[i + 1]
    BY <1>1, <2>1, RemoveAtFacts
  <2> HIDE DEF t, n
  <2>3. DOMAIN t = 1 .. n - 1
    BY <2>2
  <2> QED
    BY <2>2, <2>3
<1> HIDE DEF e, l, t, n
<1>9. \A i \in 1 .. n : s[i] = e <=> i = k
  BY <1>2, <1>5, <1>1 DEF e, n
<1>10. OnlyOnce(t)
  <2> SUFFICES ASSUME NEW i \in 1 .. n - 1, NEW j \in 1 .. n - 1, t[i] = t[j]
               PROVE  i = j
    BY <1>8 DEF OnlyOnce
  <2>1. k \in Nat /\ i \in Nat /\ j \in Nat /\ n \in Nat /\ i <= n - 1 /\ j <= n - 1
        /\ i >= 1 /\ j >= 1
    BY <1>1, <1>5
  <2> DEFINE old(m) == IF m < k THEN m ELSE m + 1
  <2>2. old(i) \in 1 .. n /\ old(j) \in 1 .. n /\ t[i] = s[old(i)] /\ t[j] = s[old(j)]
    BY <1>8, <2>1
  <2>3. old(i) = old(j)
    BY <1>2, <2>2
  <2> QED
    BY <2>1, <2>3
<1>11. ASSUME NEW i \in 1 .. n - 2
       PROVE  l.le_next[t[i]] = t[i + 1]
  <2>0. /\ k \in Nat /\ i \in Nat /\ n \in Nat /\ i <= n - 2 /\ i >= 1 /\ k >= 1 /\ k <= n - 1
        /\ i \in 1 .. n - 1 /\ i + 1 \in 1 .. n - 1
    BY <1>1, <1>5
  <2>1. CASE i < k - 1
    <3>1. t[i] = s[i] /\ t[i + 1] = s[i + 1] /\ i \in 1 .. n /\ i + 1 \in 1 .. n
      BY <1>8, <2>0, <2>1
    <3>2. list.le_next[s[i]] = s[i + 1] /\ s[i + 1] # e
      BY <1>3, <1>9, <2>0, <2>1, <3>1
    <3> QED
      BY <1>1, <1>6, <3>1, <3>2
  <2>2. CASE i = k - 1
    <3>1. t[i] = s[i] /\ t[i + 1] = s[i + 2] /\ i \in 1 .. n /\ i + 2 = k + 1
      BY <1>8, <2>0, <2>2
    <3>2. list.le_next[s[i]] = s[i + 1] /\ i + 1 = k
      BY <1>3, <2>0, <2>2
    <3>3. list.le_next[s[i]] = e /\ list.le_next[e] = s[i + 2]
      BY <1>5, <3>1, <3>2 DEF e
    <3> QED
      BY <1>1, <1>6, <3>1, <3>3
  <2>3. CASE i >= k
    <3>1. t[i] = s[i + 1] /\ t[i + 1] = s[i + 2] /\ i + 1 \in 1 .. n /\ i + 2 \in 1 .. n
      BY <1>8, <2>0, <2>3
    <3>2. list.le_next[s[i + 1]] = s[i + 2] /\ s[i + 2] # e
      BY <1>3, <1>9, <2>0, <2>3, <3>1
    <3> QED
      BY <1>1, <1>6, <3>1, <3>2
  <2> QED
    BY <2>0, <2>1, <2>2, <2>3
<1>12. l.head = t[1]
  <2>1. CASE k = 1
    <3>1. t[1] = s[2] /\ list.head = e /\ list.le_next[e] = s[2]
      BY <1>1, <1>5, <1>8, <2>1 DEF e
    <3> QED
      BY <1>6, <3>1
  <2>2. CASE k # 1
    <3>1. t[1] = s[1] /\ s[1] # e
      BY <1>1, <1>5, <1>8, <1>9, <2>2
    <3> QED
      BY <1>1, <1>6, <3>1
  <2> QED
    BY <2>1, <2>2
<1>13. n - 1 >= 1 /\ t[n - 1] = signal_event
  <2>1. n - 1 \in 1 .. n - 1 /\ n - 1 >= k /\ (n - 1) + 1 = n
    BY <1>1, <1>5
  <2> QED
    BY <1>4, <1>8, <2>1
<1>14. e # signal_event /\ e # NULL
  BY <1>1, <1>5, EventFacts DEF e, n
<1>15. l.le_next[signal_event] = NULL /\ l.le_next[listen_event] = signal_event
  BY <1>4, <1>6, <1>14, EventFacts
<1>16. IsChain(l, t)
  <2>1. (n - 1) - 1 = n - 2
    BY <1>1
  <2> QED
    BY <1>7, <1>8, <1>10, <1>11, <1>12, <1>13, <1>15, <2>1 DEF IsChain
<1>17. ToSet(t) = ToSet(s) \ {e}
  <2>1. ASSUME NEW i \in 1 .. n - 1
        PROVE  t[i] \in ToSet(s) \ {e}
    <3>1. \E j \in 1 .. n : j # k /\ t[i] = s[j]
      <4>1. i \in 1 .. n /\ i + 1 \in 1 .. n /\ k \in Nat /\ i \in Nat
        BY <1>1, <1>5
      <4> QED
        BY <1>8, <4>1
    <3> QED
      BY <1>1, <1>9, <3>1
  <2>2. ASSUME NEW i \in 1 .. n, s[i] # e
        PROVE  s[i] \in ToSet(t)
    <3>1. CASE i < k
      <4>1. i \in 1 .. n - 1 /\ t[i] = s[i]
        BY <1>1, <1>5, <1>8, <3>1
      <4> QED
        BY <1>8, <4>1, ToSetFacts
    <3>2. CASE i > k
      <4>1. i - 1 \in 1 .. n - 1 /\ i - 1 >= k /\ (i - 1) + 1 = i
        BY <1>1, <1>5, <3>2
      <4>2. t[i - 1] = s[i]
        BY <1>1, <1>5, <1>8, <4>1
      <4> QED
        BY <1>8, <4>1, <4>2, ToSetFacts
    <3> QED
      BY <1>1, <1>5, <1>9, <2>2, <3>1, <3>2
  <2>3. ToSet(t) = {t[i] : i \in 1 .. n - 1} /\ ToSet(s) = {s[i] : i \in 1 .. n}
    BY <1>1, <1>8, ToSetFacts DEF n
  <2> QED
    BY <2>1, <2>2, <2>3
<1> QED
  BY <1>6, <1>8, <1>16, <1>17 DEF e, l, t, n

-----------------------------------------------------------------------------
(* Adding several events.  FoldLeft is a recursive function on the sets of *)
(* places; that it exists is shown by going from one set 1 .. n to the     *)
(* next.                                                                   *)

IsFold(g, list, adds, n) ==
  g = [S \in SUBSET (1 .. n) |->
         IF S = {} THEN list ELSE LIST_INSERT_HEAD(g[S \ {Max(S)}], adds[Max(S)])]

LEMMA InsertedDef ==
  ASSUME NEW list, NEW E, NEW adds \in Seq(E)
  PROVE  inserted(list, adds)
           = (CHOOSE g : IsFold(g, list, adds, Len(adds)))[1 .. Len(adds)]
<1>1. DOMAIN adds = 1 .. Len(adds)
  OBVIOUS
<1> QED
  BY <1>1, Zenon DEF inserted, FoldLeft, MapThenFoldSet, IsFold

LEMMA MaxUpTo ==
  ASSUME NEW n \in Nat, NEW S \in SUBSET (1 .. n), n \in S
  PROVE  Max(S) = n
<1>1. n \in S /\ \A y \in S : n >= y
  OBVIOUS
<1>2. Max(S) \in S /\ \A y \in S : Max(S) >= y
  BY <1>1 DEF Max
<1>3. Max(S) >= n /\ n >= Max(S) /\ Max(S) \in 1 .. n
  BY <1>1, <1>2
<1> QED
  BY <1>3

LEMMA FoldGrows ==
  ASSUME NEW list, NEW adds, NEW n \in Nat, n > 0,
         NEW g, IsFold(g, list, adds, n - 1)
  PROVE  \E h : IsFold(h, list, adds, n)
<1> DEFINE value(S) == IF n \notin S THEN g[S]
                       ELSE LIST_INSERT_HEAD(g[S \ {n}], adds[n])
           h == [S \in SUBSET (1 .. n) |-> value(S)]
<1>1. \A S \in SUBSET (1 .. n) : S \ {n} \in SUBSET (1 .. n - 1) /\ S \ {n} \in SUBSET (1 .. n)
  OBVIOUS
<1>2. \A S \in SUBSET (1 .. n - 1) :
        g[S] = IF S = {} THEN list ELSE LIST_INSERT_HEAD(g[S \ {Max(S)}], adds[Max(S)])
  BY DEF IsFold
<1>3. ASSUME NEW S \in SUBSET (1 .. n)
      PROVE  value(S) = IF S = {} THEN list
                        ELSE LIST_INSERT_HEAD(h[S \ {Max(S)}], adds[Max(S)])
  <2>1. CASE n \in S
    <3>1. Max(S) = n /\ S # {}
      BY <2>1, MaxUpTo
    <3>2. h[S \ {n}] = g[S \ {n}]
      BY <1>1
    <3> QED
      BY <2>1, <3>1, <3>2
  <2>2. CASE n \notin S
    <3>1. S \in SUBSET (1 .. n - 1)
      BY <1>1, <2>2
    <3>2. h[S \ {Max(S)}] = g[S \ {Max(S)}]
      BY <2>2
    <3> QED
      BY <1>2, <2>2, <3>1, <3>2
  <2> QED
    BY <2>1, <2>2
<1> HIDE DEF value
<1>4. h = [S \in SUBSET (1 .. n) |->
            IF S = {} THEN list ELSE LIST_INSERT_HEAD(h[S \ {Max(S)}], adds[Max(S)])]
  BY <1>3
<1>5. IsFold(h, list, adds, n)
  BY <1>4 DEF IsFold
<1> QED
  BY <1>5

LEMMA FoldExists ==
  ASSUME NEW list, NEW adds, NEW n \in Nat
  PROVE  \E g : IsFold(g, list, adds, n)
<1> DEFINE bad == {k \in Nat : ~ \E g : IsFold(g, list, adds, k)}
<1> SUFFICES ASSUME bad # {}
             PROVE  FALSE
  OBVIOUS
<1>1. bad \in SUBSET Nat
  OBVIOUS
<1>2. Min(bad) \in bad /\ \A k \in bad : Min(bad) <= k
  <2> HIDE DEF bad
  <2> QED
    BY <1>1, MinExists
<1>3. Min(bad) # 0
  <2> DEFINE g == [S \in SUBSET (1 .. 0) |-> list]
  <2>1. \A S \in SUBSET (1 .. 0) : S = {}
    OBVIOUS
  <2>2. IsFold(g, list, adds, 0)
    BY <2>1 DEF IsFold
  <2> QED
    BY <1>2, <2>2
<1>4. Min(bad) - 1 \in Nat /\ Min(bad) - 1 \notin bad
  <2>1. Min(bad) \in Nat /\ Min(bad) - 1 \in Nat
    BY <1>1, <1>2, <1>3
  <2> HIDE DEF bad
  <2> QED
    BY <1>2, <2>1
<1>5. PICK g : IsFold(g, list, adds, Min(bad) - 1)
  BY <1>4
<1>6. Min(bad) \in Nat /\ Min(bad) > 0
  BY <1>2, <1>3
<1>7. \E h : IsFold(h, list, adds, Min(bad))
  <2> HIDE DEF bad
  <2> QED
    BY <1>5, <1>6, FoldGrows
<1> QED
  BY <1>2, <1>7

(* The lists on the way from list to inserted(list, adds).                 *)
LEMMA InsertedSteps ==
  ASSUME NEW list, NEW E, NEW adds \in Seq(E)
  PROVE  \E steps : /\ steps[0] = list /\ steps[Len(adds)] = inserted(list, adds)
                    /\ \A k \in 1 .. Len(adds) :
                         steps[k] = LIST_INSERT_HEAD(steps[k - 1], adds[k])
<1> DEFINE n == Len(adds)
           g == CHOOSE h : IsFold(h, list, adds, n)
           steps == [k \in 0 .. n |-> g[1 .. k]]
<1>1. n \in Nat
  OBVIOUS
<1>2. IsFold(g, list, adds, n)
  <2> HIDE DEF n
  <2> QED
    BY <1>1, FoldExists
<1>3. inserted(list, adds) = g[1 .. n]
  BY InsertedDef
<1> HIDE DEF n, g
<1>4. \A S \in SUBSET (1 .. n) :
        g[S] = IF S = {} THEN list ELSE LIST_INSERT_HEAD(g[S \ {Max(S)}], adds[Max(S)])
  BY <1>2 DEF IsFold
<1>5. steps[0] = list
  <2>1. 1 .. 0 = {} /\ {} \in SUBSET (1 .. n) /\ 0 \in 0 .. n
    BY <1>1
  <2>2. g[{}] = list
    BY <1>4, <2>1
  <2> QED
    BY <2>1, <2>2
<1>6. ASSUME NEW k \in 1 .. n
      PROVE  steps[k] = LIST_INSERT_HEAD(steps[k - 1], adds[k])
  <2>1. /\ k \in Nat /\ k - 1 \in 0 .. n /\ k \in 0 .. n
        /\ (1 .. k) \in SUBSET (1 .. n) /\ (1 .. k) \in SUBSET (1 .. k)
        /\ k \in 1 .. k /\ (1 .. k) # {}
    <3>1. k \in Nat /\ k - 1 \in 0 .. n /\ k \in 0 .. n /\ k \in 1 .. k
      BY <1>1
    <3>2. \A i \in 1 .. k : i \in 1 .. n
      BY <1>1, <3>1
    <3> QED
      BY <3>1, <3>2
  <2>2. Max(1 .. k) = k
    BY <2>1, MaxUpTo
  <2>3. (1 .. k) \ {k} = 1 .. k - 1
    BY <2>1
  <2>4. g[1 .. k] = LIST_INSERT_HEAD(g[1 .. k - 1], adds[k])
    BY <1>4, <2>1, <2>2, <2>3
  <2> QED
    BY <2>1, <2>4
<1>7. steps[n] = g[1 .. n]
  BY <1>1
<1> QED
  BY <1>3, <1>5, <1>6, <1>7 DEF n

(* Peers that are not on the list are put in front of it.                  *)
LEMMA InsertedChain ==
  ASSUME NEW list, NEW s, IsChain(list, s), NEW adds \in Seq(Peer), OnlyOnce(adds),
         \A i \in 1 .. Len(adds) : adds[i] \notin ToSet(s)
  PROVE  \E t : /\ IsChain(inserted(list, adds), t)
                /\ Len(t) = Len(s) + Len(adds)
                /\ ToSet(t) = ToSet(s) \cup ToSet(adds)
                /\ \A d \in Event \ ToSet(adds) :
                     inserted(list, adds).le_next[d] = list.le_next[d]
<1> DEFINE n == Len(adds)
           part(k) == {adds[i] : i \in 1 .. k}
           grown(l, k) ==
             \E t : /\ IsChain(l, t) /\ Len(t) = Len(s) + k
                    /\ ToSet(t) = ToSet(s) \cup part(k)
                    /\ \A d \in Event \ part(k) : l.le_next[d] = list.le_next[d]
<1>1. PICK steps : /\ steps[0] = list /\ steps[n] = inserted(list, adds)
                   /\ \A k \in 1 .. n : steps[k] = LIST_INSERT_HEAD(steps[k - 1], adds[k])
  BY InsertedSteps
<1>2. n \in Nat /\ Len(s) \in Nat /\ \A i \in 1 .. n : adds[i] \in Peer
  BY DEF IsChain
<1>3. grown(steps[0], 0)
  <2>1. part(0) = {}
    OBVIOUS
  <2> HIDE DEF part
  <2> QED
    BY <1>1, <1>2, <2>1
<1>4. ASSUME NEW k \in 1 .. n, grown(steps[k - 1], k - 1)
      PROVE  grown(steps[k], k)
  <2>1. PICK t : /\ IsChain(steps[k - 1], t) /\ Len(t) = Len(s) + (k - 1)
                 /\ ToSet(t) = ToSet(s) \cup part(k - 1)
                 /\ \A d \in Event \ part(k - 1) : steps[k - 1].le_next[d] = list.le_next[d]
    BY <1>4
  <2>2. part(k) = part(k - 1) \cup {adds[k]}
    <3>1. 1 .. k = (1 .. k - 1) \cup {k}
      BY <1>2
    <3> QED
      BY <3>1
  <2>3. adds[k] \in Peer /\ adds[k] \notin ToSet(t)
    <3>1. ASSUME NEW i \in 1 .. k - 1
          PROVE  adds[i] # adds[k]
      <4>1. i \in 1 .. Len(adds) /\ k \in 1 .. Len(adds) /\ i # k
        BY <1>2
      <4> QED
        BY <4>1 DEF OnlyOnce
    <3> QED
      BY <1>2, <2>1, <3>1
  <2> DEFINE l == LIST_INSERT_HEAD(steps[k - 1], adds[k])
             u == <<adds[k]>> \o t
  <2>4. /\ IsChain(l, u)
        /\ \A d \in Event : d # adds[k] => l.le_next[d] = steps[k - 1].le_next[d]
    BY <2>1, <2>3, InsertChain
  <2>5. Len(u) = Len(t) + 1 /\ ToSet(u) = ToSet(t) \cup {adds[k]}
    BY <2>1, <2>3, EventFacts, ConsFacts DEF IsChain
  <2>6. Len(u) = Len(s) + k
    BY <1>2, <2>1, <2>5
  <2>7. steps[k] = l
    BY <1>1
  <2> HIDE DEF l, u, part
  <2> QED
    BY <2>1, <2>2, <2>4, <2>5, <2>6, <2>7
<1>5. \A k \in 0 .. n : grown(steps[k], k)
  <2> DEFINE bad == {k \in 0 .. n : ~grown(steps[k], k)}
  <2> SUFFICES ASSUME bad # {}
               PROVE  FALSE
    OBVIOUS
  <2> HIDE DEF grown
  <2>1. bad \in SUBSET Nat
    BY <1>2
  <2>2. Min(bad) \in bad /\ \A k \in bad : Min(bad) <= k
    <3> HIDE DEF bad
    <3> QED
      BY <2>1, MinExists
  <2>3. Min(bad) # 0
    BY <1>3, <2>2
  <2>4. Min(bad) - 1 \in 0 .. n /\ Min(bad) - 1 \notin bad /\ Min(bad) \in 1 .. n
    BY <1>2, <2>1, <2>2, <2>3
  <2>5. grown(steps[Min(bad) - 1], Min(bad) - 1)
    BY <2>4
  <2> QED
    BY <1>4, <2>2, <2>4, <2>5
<1>6. ToSet(adds) = part(n)
  BY ToSetFacts
<1>7. grown(steps[n], n)
  <2> HIDE DEF grown
  <2> QED
    BY <1>2, <1>5
<1> QED
  BY <1>1, <1>6, <1>7

-----------------------------------------------------------------------------
(* The loop.  All that a handler may do to the list leaves the peers that  *)
(* the walk has still to come to where they are; only the last of them has *)
(* the signal event behind it when the listen event has been deleted.  So  *)
(* the walk meets each of them at its own slot, and it is past its last    *)
(* peer when it leaves its slot behind.                                    *)

ListInv ==
  /\ IsChain(all_events, Listed(all_events))
  /\ active_events = Len(Listed(all_events))
  /\ exit_time \in {"unset", "set", "passed"}
  /\ exit_time = "unset" <=> listen_event \in Pending
  /\ Pending \cap Peer \subseteq connected /\ connected \subseteq Peer

ArrayInv == poll_allocated \in Nat /\ Len(poll_list) <= poll_allocated

Slots ==
  /\ poll_list \in Seq(Event) /\ Len(poll_list) >= 1 /\ OnlyOnce(poll_list)
  /\ poll_list[Len(poll_list)] = signal_event
  /\ \A i \in 1 .. Len(poll_list) :
       poll_list[i] = listen_event => i = Len(poll_list) - 1
  /\ iter \in 1 .. Len(poll_list) + 1

AtItsSlot ==
  iter <= Len(poll_list) =>
    \/ ev = poll_list[iter] \/ ev = NULL
    \/ poll_list[iter] = listen_event /\ ev = signal_event

(* The slots ahead, whose handlers are still to be called.                 *)
Ahead == {i \in 1 .. Len(poll_list) : i >= iter /\ poll_list[i] \in Peer}

PeersAhead ==
  \A i \in Ahead :
    /\ poll_list[i] \in Pending
    /\ \/ all_events.le_next[poll_list[i]] = poll_list[i + 1]
       \/ /\ poll_list[i + 1] = listen_event
          /\ all_events.le_next[poll_list[i]] = signal_event

ReadyAhead == \A i \in Ahead : i \in revents => poll_list[i] \in ready

WalkInv == pc = "walk" => Slots /\ AtItsSlot /\ PeersAhead /\ ReadyAhead

LoopInv == ListInv /\ ArrayInv /\ WalkInv /\ dropped = {}

(* Where an event's le_next may lead after a handler.                      *)
Led(d, e) == e = d \/ (d = listen_event /\ e = signal_event)

LEMMA HandleFacts ==
  ASSUME NEW list, NEW s, IsChain(list, s), NEW n, n = Len(s),
         NEW adds \in Seq(Peer), OnlyOnce(adds),
         \A i \in 1 .. Len(adds) : adds[i] \notin ToSet(s),
         exit_time \in {"unset", "set", "passed"},
         exit_time = "unset" <=> listen_event \in ToSet(s),
         Handle(list, n, adds)
  PROVE  \E t : /\ IsChain(all_events', t) /\ active_events' = Len(t)
                /\ exit_time' \in {"unset", "set", "passed"}
                /\ exit_time' = "unset" <=> listen_event \in ToSet(t)
                /\ ToSet(t) \cap Peer = (ToSet(s) \cap Peer) \cup ToSet(adds)
                /\ \A q \in Peer \ ToSet(adds) : Led(list.le_next[q], all_events'.le_next[q])
<1> DEFINE grown == inserted(list, adds)
<1>1. PICK t : /\ IsChain(grown, t) /\ Len(t) = Len(s) + Len(adds)
               /\ ToSet(t) = ToSet(s) \cup ToSet(adds)
               /\ \A d \in Event \ ToSet(adds) : grown.le_next[d] = list.le_next[d]
  BY InsertedChain
<1>2. ToSet(adds) \subseteq Peer
  BY ToSetFacts
<1>3. \/ /\ all_events' = grown /\ active_events' = n + Len(adds)
         /\ exit_time' = exit_time
      \/ /\ exit_time = "unset" /\ exit_time' = "set"
         /\ all_events' = LIST_REMOVE(grown, listen_event)
         /\ active_events' = n + Len(adds) - 1
  BY DEF Handle
<1> HIDE DEF grown
<1>4. ToSet(t) \cap Peer = (ToSet(s) \cap Peer) \cup ToSet(adds)
      /\ (listen_event \in ToSet(t) <=> listen_event \in ToSet(s))
  BY <1>1, <1>2, EventFacts
<1>5. CASE /\ all_events' = grown /\ active_events' = n + Len(adds)
           /\ exit_time' = exit_time
  <2>1. \A q \in Peer \ ToSet(adds) : Led(list.le_next[q], all_events'.le_next[q])
    BY <1>1, <1>5, EventFacts DEF Led
  <2> QED
    BY <1>1, <1>4, <1>5, <2>1
<1>6. CASE /\ exit_time = "unset" /\ exit_time' = "set"
           /\ all_events' = LIST_REMOVE(grown, listen_event)
           /\ active_events' = n + Len(adds) - 1
  <2>1. PICK k \in 1 .. Len(t) : t[k] = listen_event
    <3>1. listen_event \in ToSet(t) /\ t \in Seq(Event)
      BY <1>1, <1>4, <1>6 DEF IsChain
    <3> QED
      BY <3>1, ToSetFacts
  <2> DEFINE u == RemoveAt(t, k)
  <2>2. /\ IsChain(all_events', u) /\ Len(u) = Len(t) - 1
        /\ ToSet(u) = ToSet(t) \ {listen_event}
        /\ \A d \in Event :
             all_events'.le_next[d] =
               IF d \in ToSet(t) /\ grown.le_next[d] = listen_event
               THEN grown.le_next[listen_event] ELSE grown.le_next[d]
    <3>1. t[k] # signal_event /\ IsChain(grown, t)
      BY <1>1, <2>1, EventFacts
    <3>2. /\ IsChain(LIST_REMOVE(grown, t[k]), RemoveAt(t, k))
          /\ Len(RemoveAt(t, k)) = Len(t) - 1
          /\ ToSet(RemoveAt(t, k)) = ToSet(t) \ {t[k]}
          /\ \A d \in Event :
               LIST_REMOVE(grown, t[k]).le_next[d] =
                 IF d \in ToSet(t) /\ grown.le_next[d] = t[k]
                 THEN grown.le_next[t[k]] ELSE grown.le_next[d]
      BY <2>1, <3>1, RemoveChain
    <3> QED
      BY <1>6, <2>1, <3>2
  <2>3. grown.le_next[listen_event] = signal_event
    BY <1>1 DEF IsChain
  <2> HIDE DEF u
  <2>4. \A q \in Peer \ ToSet(adds) : Led(list.le_next[q], all_events'.le_next[q])
    BY <1>1, <2>2, <2>3, EventFacts DEF Led
  <2>5. active_events' = Len(u)
    BY <1>1, <1>6, <2>2
  <2>6. ToSet(u) \cap Peer = (ToSet(s) \cap Peer) \cup ToSet(adds)
        /\ listen_event \notin ToSet(u)
    BY <1>4, <2>2, EventFacts
  <2> QED
    BY <1>6, <2>2, <2>4, <2>5, <2>6
<1> QED
  BY <1>3, <1>5, <1>6

LEMMA FreedChain ==
  ASSUME NEW list, NEW s, IsChain(list, s), ev \in Peer, ev \notin ToSet(s)
  PROVE  /\ IsChain(freed(list), s)
         /\ \A d \in Event : d # ev => freed(list).le_next[d] = list.le_next[d]
<1> DEFINE l == freed(list)
<1>1. list \in List /\ s \in Seq(Event) /\ \A i \in 1 .. Len(s) : s[i] \in Event /\ s[i] # ev
  BY ToSetFacts DEF IsChain
<1>2. l \in List /\ l.head = list.head
  BY <1>1, EventFacts DEF freed, List
<1>3. \A d \in Event : d # ev => l.le_next[d] = list.le_next[d]
  BY <1>1 DEF freed, List
<1> HIDE DEF l
<1>4. \A i \in 1 .. Len(s) - 1 : l.le_next[s[i]] = s[i + 1]
  <2> TAKE i \in 1 .. Len(s) - 1
  <2>1. i \in 1 .. Len(s)
    BY <1>1
  <2> QED
    BY <1>1, <1>3, <2>1 DEF IsChain
<1>5. IsChain(l, s)
  BY <1>1, <1>2, <1>3, <1>4, EventFacts DEF IsChain
<1> QED
  BY <1>3, <1>5 DEF l

(* The list without the event whose handler is called.                     *)
LEMMA OneShotFacts ==
  ASSUME ListInv, ev \in Peer, ev \in Pending
  PROVE  \E s : /\ IsChain(one_shot.list, s) /\ one_shot.n = Len(s)
                /\ ToSet(s) = Pending \ {ev}
                /\ \A q \in Peer \ {ev} : all_events.le_next[q] # ev =>
                     one_shot.list.le_next[q] = all_events.le_next[q]
<1> DEFINE L == Listed(all_events)
<1>1. IsChain(all_events, L) /\ active_events = Len(L) /\ L \in Seq(Event)
  BY DEF ListInv, IsChain
<1>2. PICK k \in 1 .. Len(L) : L[k] = ev
  <2> HIDE DEF L
  <2>1. ev \in ToSet(L)
    BY DEF Pending, L
  <2> QED
    BY <1>1, <2>1, ToSetFacts
<1> DEFINE s == RemoveAt(L, k)
           removed == LIST_REMOVE(all_events, ev)
<1>3. /\ IsChain(removed, s) /\ Len(s) = Len(L) - 1 /\ ToSet(s) = ToSet(L) \ {ev}
      /\ \A d \in Event :
           removed.le_next[d] =
             IF d \in ToSet(L) /\ all_events.le_next[d] = ev
             THEN all_events.le_next[ev] ELSE all_events.le_next[d]
  <2> HIDE DEF L
  <2>1. L[k] # signal_event
    BY <1>2, EventFacts
  <2>2. /\ IsChain(LIST_REMOVE(all_events, L[k]), RemoveAt(L, k))
        /\ Len(RemoveAt(L, k)) = Len(L) - 1
        /\ ToSet(RemoveAt(L, k)) = ToSet(L) \ {L[k]}
        /\ \A d \in Event :
             LIST_REMOVE(all_events, L[k]).le_next[d] =
               IF d \in ToSet(L) /\ all_events.le_next[d] = L[k]
               THEN all_events.le_next[L[k]] ELSE all_events.le_next[d]
    <3>1. IsChain(all_events, L) /\ k \in 1 .. Len(L)
      BY <1>1, <1>2
    <3> QED
      BY <2>1, <3>1, RemoveChain
  <2> QED
    BY <1>2, <2>2
<1> HIDE DEF s, removed
<1>4. /\ IsChain(freed(removed), s)
      /\ \A d \in Event : d # ev => freed(removed).le_next[d] = removed.le_next[d]
  BY <1>3, FreedChain
<1>5. one_shot.list = freed(removed) /\ one_shot.n = active_events - 1
  BY DEF one_shot, removed
<1>6. \A q \in Peer \ {ev} : all_events.le_next[q] # ev =>
        one_shot.list.le_next[q] = all_events.le_next[q]
  BY <1>3, <1>4, <1>5, EventFacts
<1> QED
  BY <1>1, <1>3, <1>4, <1>5, <1>6 DEF Pending

(* A handler keeps what is said of the list, and it leaves the peers on it *)
(* where they are.                                                         *)
LEMMA ListKept ==
  ASSUME NEW list, NEW s, IsChain(list, s), NEW n, n = Len(s),
         NEW adds \in Seq(Peer), OnlyOnce(adds),
         \A i \in 1 .. Len(adds) : adds[i] \notin ToSet(s),
         exit_time \in {"unset", "set", "passed"},
         exit_time = "unset" <=> listen_event \in ToSet(s),
         Handle(list, n, adds),
         connected' \subseteq Peer,
         (ToSet(s) \cap Peer) \cup ToSet(adds) \subseteq connected'
  PROVE  /\ ListInv'
         /\ \A q \in Peer \cap ToSet(s) :
              q \in Pending' /\ Led(list.le_next[q], all_events'.le_next[q])
<1>1. PICK t : /\ IsChain(all_events', t) /\ active_events' = Len(t)
               /\ exit_time' \in {"unset", "set", "passed"}
               /\ exit_time' = "unset" <=> listen_event \in ToSet(t)
               /\ ToSet(t) \cap Peer = (ToSet(s) \cap Peer) \cup ToSet(adds)
               /\ \A q \in Peer \ ToSet(adds) : Led(list.le_next[q], all_events'.le_next[q])
  BY HandleFacts
<1>2. Listed(all_events') = t
  BY <1>1, ListedIs
<1>3. Pending' = ToSet(t)
  BY <1>2 DEF Pending
<1>4. ListInv'
  BY <1>1, <1>2, <1>3 DEF ListInv
<1>5. ASSUME NEW q \in Peer \cap ToSet(s)
      PROVE  q \notin ToSet(adds)
  BY ToSetFacts
<1> QED
  BY <1>1, <1>3, <1>4, <1>5

(* A step that does not move the walk.                                     *)
LEMMA WalkKept ==
  ASSUME WalkInv, pc' = pc, poll_list' = poll_list, revents' = revents,
         ev' = ev, iter' = iter,
         \A q \in Peer \cap Pending :
           q \in Pending' /\ Led(all_events.le_next[q], all_events'.le_next[q]),
         \A q \in Peer \cap ready : q \in ready'
  PROVE  WalkInv'
<1> SUFFICES ASSUME pc = "walk"
             PROVE  (Slots /\ AtItsSlot /\ PeersAhead /\ ReadyAhead)'
  BY DEF WalkInv
<1>1. Slots /\ AtItsSlot /\ PeersAhead /\ ReadyAhead
  BY DEF WalkInv
<1>2. Slots' /\ AtItsSlot' /\ Ahead' = Ahead
  BY <1>1 DEF Slots, AtItsSlot, Ahead
<1>3. PeersAhead'
  <2> SUFFICES ASSUME NEW i \in Ahead
               PROVE  /\ poll_list[i] \in Pending'
                      /\ \/ all_events'.le_next[poll_list[i]] = poll_list[i + 1]
                         \/ /\ poll_list[i + 1] = listen_event
                            /\ all_events'.le_next[poll_list[i]] = signal_event
    BY <1>2 DEF PeersAhead
  <2>1. /\ poll_list[i] \in Peer \cap Pending
        /\ \/ all_events.le_next[poll_list[i]] = poll_list[i + 1]
           \/ /\ poll_list[i + 1] = listen_event
              /\ all_events.le_next[poll_list[i]] = signal_event
    BY <1>1 DEF PeersAhead, Ahead
  <2>2. /\ poll_list[i] \in Pending'
        /\ Led(all_events.le_next[poll_list[i]], all_events'.le_next[poll_list[i]])
    BY <2>1
  <2> QED
    BY <2>1, <2>2, EventFacts DEF Led
<1>4. ReadyAhead'
  BY <1>1, <1>2 DEF ReadyAhead, Ahead
<1> QED
  BY <1>2, <1>3, <1>4

(* A step that goes on to the next slot.                                   *)
LEMMA WalkAdvances ==
  ASSUME ListInv, WalkInv, Walking, Advance,
         \A q \in (Peer \cap Pending) \ {ev} : all_events.le_next[q] # ev =>
           q \in Pending' /\ Led(all_events.le_next[q], all_events'.le_next[q]),
         \A q \in (Peer \cap ready) \ {ev} : q \in ready'
  PROVE  WalkInv'
<1> DEFINE n == Len(poll_list)
<1>1. Slots /\ AtItsSlot /\ PeersAhead /\ ReadyAhead
  BY DEF WalkInv, Walking
<1>2. /\ n \in Nat /\ n >= 1 /\ iter \in 1 .. n /\ poll_list[n] = signal_event
      /\ \A i \in 1 .. n : poll_list[i] \in Event
      /\ \A i \in 1 .. n : poll_list[i] = listen_event => i = n - 1
      /\ \A i, j \in 1 .. n : poll_list[i] = poll_list[j] => i = j
  BY <1>1 DEF Slots, OnlyOnce, Walking
<1>3. /\ iter' = iter + 1 /\ ev' = all_events.le_next[ev] /\ poll_list' = poll_list
      /\ revents' = revents /\ pc' = pc
  BY DEF Advance
<1>4. ev = poll_list[iter] \/ (poll_list[iter] = listen_event /\ ev = signal_event)
  BY <1>1, <1>2 DEF AtItsSlot, Walking
<1>5. /\ all_events.le_next[signal_event] = NULL
      /\ all_events.le_next[listen_event] = signal_event
  BY DEF ListInv, IsChain
<1> HIDE DEF n
<1>6. Slots'
  <2>1. iter + 1 \in 1 .. n + 1
    BY <1>2
  <2> QED
    BY <1>1, <1>3, <2>1 DEF Slots, n
<1>7. AtItsSlot'
  <2> SUFFICES ASSUME iter + 1 <= n
               PROVE  \/ ev' = poll_list[iter + 1] \/ ev' = NULL
                      \/ poll_list[iter + 1] = listen_event /\ ev' = signal_event
    BY <1>3 DEF AtItsSlot, n
  <2>1. CASE ev = signal_event
    BY <1>3, <1>5, <2>1
  <2>2. CASE ev = listen_event
    <3>1. iter = n - 1
      BY <1>2, <1>4, <2>2, EventFacts
    <3>2. iter + 1 = n
      BY <1>2, <3>1
    <3> QED
      BY <1>2, <1>3, <1>5, <2>2, <3>2
  <2>3. CASE ev \in Peer
    <3>1. ev = poll_list[iter] /\ iter \in Ahead
      BY <1>2, <1>4, <2>3, EventFacts DEF Ahead, n
    <3> QED
      BY <1>1, <1>3, <3>1 DEF PeersAhead
  <2>4. ev \in Event
    BY <1>2, <1>4, EventFacts
  <2> QED
    BY <2>1, <2>2, <2>3, <2>4 DEF Event
<1>8. ASSUME NEW i \in Ahead'
      PROVE  i \in Ahead /\ i \in 1 .. n /\ ev = poll_list[iter] /\ i > iter /\ ev \in Peer
  <2>1. i \in 1 .. n /\ i >= iter + 1 /\ poll_list[i] \in Peer
    BY <1>3 DEF Ahead, n
  <2>2. i \in Ahead /\ i > iter
    BY <1>2, <2>1 DEF Ahead, n
  <2>3. i # n
    BY <1>2, <2>1, EventFacts
  <2>4. poll_list[iter] # listen_event
    BY <1>2, <2>1, <2>3
  <2>5. poll_list[iter] # signal_event
    BY <1>2, <2>1, <2>3
  <2> QED
    BY <1>2, <1>4, <2>1, <2>2, <2>4, <2>5 DEF Event
<1>9. PeersAhead'
  <2> SUFFICES ASSUME NEW i \in Ahead'
               PROVE  /\ poll_list[i] \in Pending'
                      /\ \/ all_events'.le_next[poll_list[i]] = poll_list[i + 1]
                         \/ /\ poll_list[i + 1] = listen_event
                            /\ all_events'.le_next[poll_list[i]] = signal_event
    BY <1>3 DEF PeersAhead
  <2>1. /\ poll_list[i] \in Peer \cap Pending
        /\ \/ all_events.le_next[poll_list[i]] = poll_list[i + 1]
           \/ /\ poll_list[i + 1] = listen_event
              /\ all_events.le_next[poll_list[i]] = signal_event
    BY <1>1, <1>8 DEF PeersAhead, Ahead
  <2>2. i # n
    BY <1>2, <2>1, EventFacts
  <2>3. poll_list[i] # ev /\ poll_list[i + 1] # ev
    <3>1. i \in 1 .. n /\ i + 1 \in 1 .. n /\ i # iter /\ i + 1 # iter
      BY <1>2, <1>8, <2>2
    <3> QED
      BY <1>2, <1>8, <3>1
  <2>4. all_events.le_next[poll_list[i]] # ev
    BY <1>8, <2>1, <2>3, EventFacts
  <2>5. /\ poll_list[i] \in Pending'
        /\ Led(all_events.le_next[poll_list[i]], all_events'.le_next[poll_list[i]])
    BY <2>1, <2>3, <2>4
  <2> QED
    BY <2>1, <2>5, EventFacts DEF Led
<1>10. ReadyAhead'
  <2> SUFFICES ASSUME NEW i \in Ahead', i \in revents
               PROVE  poll_list[i] \in ready'
    BY <1>3 DEF ReadyAhead
  <2>1. poll_list[i] \in Peer /\ poll_list[i] \in ready
    BY <1>1, <1>8 DEF ReadyAhead, Ahead
  <2>2. poll_list[i] # ev
    BY <1>2, <1>8
  <2> QED
    BY <2>1, <2>2
<1> QED
  BY <1>6, <1>7, <1>9, <1>10 DEF WalkInv

(* The array, doubled until it has n slots, has them.                      *)
LEMMA PowerGrows ==
  ASSUME NEW n \in Nat
  PROVE  2 ^ n \in Nat /\ n <= 2 ^ n
<1> DEFINE S == 1 .. n
           T == SUBSET S
           f == [i \in S |-> {i}]
<1>1. IsFiniteSet(S) /\ Cardinality(S) = n
  BY FS_Interval
<1> HIDE DEF S
<1>2. IsFiniteSet(T) /\ Cardinality(T) = 2 ^ Cardinality(S)
  BY <1>1, FS_SUBSET, Zenon
<1>3. f \in Injection(S, T)
  <2>1. f \in [S -> T]
    OBVIOUS
  <2>2. \A i, j \in S : f[i] = f[j] => i = j
    OBVIOUS
  <2> HIDE DEF f, T
  <2> QED
    BY <2>1, <2>2 DEF Injection, IsInjective
<1> HIDE DEF T, f
<1>4. Cardinality(S) <= Cardinality(T) /\ Cardinality(T) \in Nat
  BY <1>2, <1>3, FS_Injection, FS_CardinalityType
<1>5. Cardinality(T) = 2 ^ n
  BY <1>1, <1>2, Zenon
<1> DEFINE p == 2 ^ n
<1>6. Cardinality(T) = p
  BY <1>5
<1> HIDE DEF p
<1>7. p \in Nat /\ n <= p
  BY <1>1, <1>4, <1>6
<1> QED
  BY <1>7, Zenon DEF p

LEMMA DoubledHolds ==
  ASSUME NEW a \in Nat, NEW n \in Nat
  PROVE  doubled(a, n) \in Nat /\ n <= doubled(a, n)
<1> DEFINE base == IF a = 0 THEN InitialAllocated ELSE a
           power == [k \in Nat |-> 2 ^ k]
           S == {k \in 0 .. n : base * power[k] >= n}
<1>1. base \in Nat /\ base >= 1
  BY AllocatedAssumption
<1>2. \A k \in Nat : power[k] \in Nat /\ k <= power[k]
  <2> SUFFICES ASSUME NEW k \in Nat
               PROVE  power[k] \in Nat /\ k <= power[k]
    OBVIOUS
  <2>1. 2 ^ k \in Nat /\ k <= 2 ^ k
    BY PowerGrows
  <2>2. power[k] = 2 ^ k
    BY Zenon
  <2> QED
    BY <2>1, <2>2, Zenon
<1>3. \A k \in Nat : power[k] = 2 ^ k
  BY Zenon
<1> HIDE DEF base, power
<1>4. n \in S
  <2>1. power[n] \in Nat /\ n <= power[n]
    BY <1>2
  <2>2. base * power[n] >= power[n]
    BY <1>1, <2>1
  <2> QED
    BY <1>1, <2>1, <2>2
<1>5. S \in SUBSET Nat
  OBVIOUS
<1>6. Min(S) \in S
  <2> HIDE DEF S
  <2> QED
    BY <1>4, <1>5, MinExists
<1>7. power[Min(S)] \in Nat /\ base * power[Min(S)] >= n
  BY <1>2, <1>6
<1>8. base * power[Min(S)] \in Nat
  BY <1>1, <1>7
<1>9. doubled(a, n) = base * power[Min(S)]
  <2>1. S = {k \in 0 .. n : base * 2 ^ k >= n}
    <3>1. \A k \in 0 .. n : k \in Nat
      OBVIOUS
    <3>2. \A k \in 0 .. n : power[k] = 2 ^ k
      BY <1>3, <3>1, Zenon
    <3> QED
      BY <3>2, Zenon
  <2>2. power[Min(S)] = 2 ^ Min(S)
    <3>1. Min(S) \in Nat
      BY <1>5, <1>6
    <3> QED
      BY <1>3, <3>1, Zenon
  <2> HIDE DEF S
  <2> QED
    BY <2>1, <2>2, Zenon DEF doubled, base
<1> QED
  BY <1>7, <1>8, <1>9

-----------------------------------------------------------------------------
(* Every action keeps the invariant of the loop.                           *)

LEMMA SeqsOf ==
  ASSUME NEW S \in SUBSET Peer, NEW adds \in SetToSeqs(S)
  PROVE  adds \in Seq(Peer) /\ OnlyOnce(adds) /\ ToSet(adds) \subseteq S
<1> DEFINE n == Cardinality(S)
<1>1. n \in Nat
  BY PeerAssumption, FS_Subset, FS_CardinalityType
<1> HIDE DEF n
<1>2. adds \in [1 .. n -> S] /\ \A i, j \in 1 .. n : i # j => adds[i] # adds[j]
  BY DEF SetToSeqs, n
<1>3. adds \in Seq(S) /\ Len(adds) = n
  BY <1>1, <1>2
<1>4. adds \in Seq(Peer)
  BY <1>1, <1>2
<1> QED
  BY <1>2, <1>3, <1>4, ToSetFacts DEF OnlyOnce

LEMMA LoopInitInv == Init => LoopInv
<1> SUFFICES ASSUME Init
             PROVE  LoopInv
  OBVIOUS
<1> DEFINE s == <<listen_event, signal_event>>
<1>1. all_events \in List
  BY EventFacts DEF Init, List
<1>2. s \in Seq(Event) /\ Len(s) = 2 /\ s[1] = listen_event /\ s[2] = signal_event
  BY EventFacts
<1> HIDE DEF s
<1>3. /\ all_events.head = listen_event
      /\ all_events.le_next[signal_event] = NULL
      /\ all_events.le_next[listen_event] = signal_event
  BY EventFacts DEF Init
<1>4. OnlyOnce(s)
  BY <1>2, EventFacts DEF OnlyOnce
<1>5. IsChain(all_events, s)
  BY <1>1, <1>2, <1>3, <1>4 DEF IsChain
<1>6. Listed(all_events) = s
  BY <1>5, ListedIs
<1>7. ToSet(s) = {listen_event, signal_event}
  <2>1. ToSet(s) = {s[i] : i \in 1 .. 2}
    BY <1>2, ToSetFacts
  <2> QED
    BY <1>2, <2>1
<1>8. ListInv
  BY <1>2, <1>5, <1>6, <1>7, EventFacts DEF Init, ListInv, Pending
<1>9. ArrayInv /\ WalkInv
  BY DEF Init, ArrayInv, WalkInv
<1> QED
  BY <1>8, <1>9 DEF Init, LoopInv

LEMMA PollInv ==
  ASSUME LoopInv, Poll
  PROVE  LoopInv'
<1> DEFINE L == Listed(all_events)
           n == Len(L)
<1>1. /\ poll_list' = L /\ dropped' = dropped /\ ready' = ready
      /\ all_events' = all_events /\ active_events' = active_events
      /\ exit_time' = exit_time /\ connected' = connected
      /\ poll_allocated' = IF active_events > poll_allocated
                           THEN doubled(poll_allocated, active_events)
                           ELSE poll_allocated
  BY DEF Poll
<1>2. /\ L \in Seq(Event) /\ n \in Nat /\ n >= 1 /\ OnlyOnce(L) /\ active_events = n
      /\ IsChain(all_events, L) /\ poll_allocated \in Nat
  BY DEF LoopInv, ListInv, ArrayInv, IsChain
<1>3. ListInv' /\ dropped' = {}
  BY <1>1 DEF LoopInv, ListInv, Pending
<1>4. ArrayInv'
  BY <1>1, <1>2, DoubledHolds DEF ArrayInv
<1>5. CASE pc' = "walk" /\ ev' = all_events.head /\ iter' = 1
  <2>1. revents' = reported
    BY DEF Poll
  <2>2. \A i \in revents' : L[i] \in ready
    BY <2>1 DEF reported
  <2> HIDE DEF L
  <2>3. /\ L[1] = all_events.head /\ L[n] = signal_event
        /\ all_events.le_next[listen_event] = signal_event
        /\ \A i \in 1 .. n - 1 : all_events.le_next[L[i]] = L[i + 1]
        /\ \A i, j \in 1 .. n : L[i] = L[j] => i = j
        /\ \A i \in 1 .. n : L[i] \in Event /\ L[i] \in ToSet(L)
    BY <1>2, ToSetFacts DEF IsChain, OnlyOnce
  <2> HIDE DEF n
  <2>4. ASSUME NEW i \in 1 .. n, L[i] = listen_event
        PROVE  i = n - 1
    <3>1. i \in 1 .. n - 1 /\ i + 1 \in 1 .. n /\ n \in 1 .. n
      BY <1>2, <2>3, <2>4, EventFacts
    <3>2. L[i + 1] = L[n]
      BY <2>3, <2>4, <3>1
    <3>3. i + 1 = n
      BY <2>3, <3>1, <3>2
    <3> QED
      BY <1>2, <3>1, <3>3
  <2>5. Slots'
    <3>1. 1 \in 1 .. n + 1
      BY <1>2
    <3> QED
      BY <1>1, <1>2, <1>5, <2>3, <2>4, <3>1 DEF Slots, n
  <2>6. AtItsSlot'
    BY <1>1, <1>5, <2>3 DEF AtItsSlot
  <2>7. ASSUME NEW i \in Ahead'
        PROVE  i \in 1 .. n - 1 /\ L[i] \in Peer
    <3>1. i \in 1 .. n /\ L[i] \in Peer
      BY <1>1 DEF Ahead, n
    <3> QED
      BY <1>2, <2>3, <3>1, EventFacts
  <2>8. PeersAhead'
    <3> SUFFICES ASSUME NEW i \in Ahead'
                 PROVE  L[i] \in ToSet(L) /\ all_events.le_next[L[i]] = L[i + 1]
      BY <1>1 DEF PeersAhead, Pending, L
    <3>1. i \in 1 .. n /\ i \in 1 .. n - 1
      BY <1>2, <2>7
    <3> QED
      BY <2>3, <3>1
  <2>9. ReadyAhead'
    BY <1>1, <2>2 DEF ReadyAhead
  <2> QED
    BY <1>3, <1>4, <2>5, <2>6, <2>8, <2>9 DEF LoopInv, WalkInv
<1>6. CASE pc' = "returned"
  BY <1>3, <1>4, <1>6 DEF LoopInv, WalkInv
<1> QED
  BY <1>5, <1>6 DEF Poll

(* The steps that leave the list alone, and the array too.                 *)
LEMMA StillInv ==
  ASSUME LoopInv, all_events' = all_events, active_events' = active_events,
         poll_allocated' = poll_allocated, poll_list' = poll_list,
         exit_time' = exit_time \/ (exit_time = "set" /\ exit_time' = "passed"),
         connected' = connected, dropped' = dropped,
         WalkInv'
  PROVE  LoopInv'
<1>1. ListInv'
  <2>1. Pending' = Pending /\ Listed(all_events') = Listed(all_events)
    BY DEF Pending
  <2> QED
    BY <2>1 DEF LoopInv, ListInv
<1> QED
  BY <1>1 DEF LoopInv, ArrayInv

LEMMA QuietInv ==
  ASSUME LoopInv, all_events' = all_events, active_events' = active_events,
         poll_allocated' = poll_allocated, poll_list' = poll_list,
         exit_time' = exit_time \/ (exit_time = "set" /\ exit_time' = "passed"),
         connected' = connected, dropped' = dropped,
         pc' = pc, revents' = revents, ev' = ev, iter' = iter,
         \A q \in Peer \cap ready : q \in ready'
  PROVE  LoopInv'
<1>1. \A q \in Peer \cap Pending :
        q \in Pending' /\ Led(all_events.le_next[q], all_events'.le_next[q])
  BY DEF Pending, Led
<1>2. WalkInv'
  BY <1>1, WalkKept DEF LoopInv
<1> QED
  BY <1>2, StillInv

LEMMA PassInv ==
  ASSUME LoopInv, Walking, Advance,
         all_events' = all_events, active_events' = active_events,
         exit_time' = exit_time, connected' = connected, dropped' = dropped,
         \A q \in (Peer \cap ready) \ {ev} : q \in ready'
  PROVE  LoopInv'
<1>1. \A q \in Peer \cap Pending :
        q \in Pending' /\ Led(all_events.le_next[q], all_events'.le_next[q])
  BY DEF Pending, Led
<1>2. WalkInv'
  BY <1>1, WalkAdvances DEF LoopInv
<1> QED
  BY <1>2, StillInv DEF Advance

LEMMA CallPeerInv ==
  ASSUME LoopInv, CallPeer
  PROVE  LoopInv'
<1>1. Walking /\ iter \in revents /\ ev \in Peer /\ Advance /\ ready' = ready \ {ev}
  BY DEF CallPeer
<1>2. PICK served \in SUBSET Waiting, stays \in BOOLEAN, again \in SUBSET {ev} :
        /\ again # {} => stays
        /\ connected' = IF stays THEN connected ELSE connected \ {ev}
        /\ \E adds \in SetToSeqs(served \cup again) :
             Handle(one_shot.list, one_shot.n, adds)
  BY DEF CallPeer
<1>3. PICK adds \in SetToSeqs(served \cup again) : Handle(one_shot.list, one_shot.n, adds)
  BY <1>2
<1>4. ListInv /\ WalkInv /\ ArrayInv /\ dropped = {}
  BY DEF LoopInv
<1>5. ev \in Pending /\ ev \in ready
  <2>1. Slots /\ AtItsSlot /\ PeersAhead /\ ReadyAhead /\ iter <= Len(poll_list) /\ ev # NULL
    BY <1>1, <1>4 DEF WalkInv, Walking
  <2>2. ev = poll_list[iter] /\ iter \in Ahead
    BY <1>1, <2>1, EventFacts DEF Slots, AtItsSlot, Ahead
  <2> QED
    BY <1>1, <2>1, <2>2 DEF PeersAhead, ReadyAhead
<1>6. dropped' = dropped
  BY <1>5 DEF CallPeer
<1>7. PICK s : /\ IsChain(one_shot.list, s) /\ one_shot.n = Len(s)
               /\ ToSet(s) = Pending \ {ev}
               /\ \A q \in Peer \ {ev} : all_events.le_next[q] # ev =>
                    one_shot.list.le_next[q] = all_events.le_next[q]
  BY <1>1, <1>4, <1>5, OneShotFacts
<1>8. /\ served \subseteq connected /\ served \cap Pending = {} /\ connected \subseteq Peer
      /\ Pending \cap Peer \subseteq connected /\ ev \notin served
  BY <1>4, <1>5 DEF Waiting, ListInv
<1>9. adds \in Seq(Peer) /\ OnlyOnce(adds) /\ ToSet(adds) \subseteq served \cup again
  <2>1. served \cup again \in SUBSET Peer
    BY <1>1, <1>8
  <2> QED
    BY <2>1, SeqsOf
<1>10. \A i \in 1 .. Len(adds) : adds[i] \notin ToSet(s)
  <2>1. \A d \in ToSet(adds) : d \notin ToSet(s)
    BY <1>7, <1>8, <1>9
  <2> QED
    BY <1>9, <2>1, ToSetFacts
<1>11. connected' \subseteq Peer /\ (ToSet(s) \cap Peer) \cup ToSet(adds) \subseteq connected'
  <2>1. CASE stays
    BY <1>2, <1>5, <1>7, <1>8, <1>9, <1>1, <2>1
  <2>2. CASE ~stays
    <3>1. again = {} /\ connected' = connected \ {ev}
      BY <1>2, <2>2
    <3> QED
      BY <1>7, <1>8, <1>9, <3>1
  <2> QED
    BY <2>1, <2>2
<1>12. exit_time \in {"unset", "set", "passed"}
       /\ (exit_time = "unset" <=> listen_event \in ToSet(s))
  BY <1>1, <1>4, <1>7, EventFacts DEF ListInv
<1>13. /\ ListInv'
       /\ \A q \in Peer \cap ToSet(s) :
            q \in Pending' /\ Led(one_shot.list.le_next[q], all_events'.le_next[q])
  BY <1>3, <1>7, <1>9, <1>10, <1>11, <1>12, ListKept
<1>14. \A q \in (Peer \cap Pending) \ {ev} : all_events.le_next[q] # ev =>
         q \in Pending' /\ Led(all_events.le_next[q], all_events'.le_next[q])
  <2> TAKE q \in (Peer \cap Pending) \ {ev}
  <2> HAVE all_events.le_next[q] # ev
  <2>1. one_shot.list.le_next[q] = all_events.le_next[q] /\ q \in Peer \cap ToSet(s)
    BY <1>7
  <2>2. q \in Pending' /\ Led(one_shot.list.le_next[q], all_events'.le_next[q])
    BY <1>13, <2>1
  <2> QED
    BY <2>1, <2>2
<1>15. WalkInv'
  BY <1>1, <1>4, <1>14, WalkAdvances
<1> QED
  BY <1>1, <1>4, <1>6, <1>13, <1>15 DEF LoopInv, ArrayInv, Advance

(* A handler that leaves every event on the list.                          *)
LEMMA HandlerInv ==
  ASSUME ListInv, NEW adds \in Seq(Peer), OnlyOnce(adds),
         ToSet(adds) \cap Pending = {}, connected \subseteq connected',
         ToSet(adds) \subseteq connected', connected' \subseteq Peer,
         Handle(all_events, active_events, adds)
  PROVE  /\ ListInv'
         /\ \A q \in Peer \cap Pending :
              q \in Pending' /\ Led(all_events.le_next[q], all_events'.le_next[q])
<1> DEFINE s == Listed(all_events)
<1>1. /\ IsChain(all_events, s) /\ active_events = Len(s) /\ Pending = ToSet(s)
      /\ exit_time \in {"unset", "set", "passed"}
      /\ (exit_time = "unset" <=> listen_event \in ToSet(s))
      /\ ToSet(s) \cap Peer \subseteq connected
  BY DEF ListInv, Pending
<1> HIDE DEF s
<1>2. \A i \in 1 .. Len(adds) : adds[i] \notin ToSet(s)
  BY <1>1, ToSetFacts
<1>3. (ToSet(s) \cap Peer) \cup ToSet(adds) \subseteq connected'
  BY <1>1
<1> QED
  BY <1>1, <1>2, <1>3, ListKept

LEMMA CallListenInv ==
  ASSUME LoopInv, CallListen
  PROVE  LoopInv'
<1>1. /\ Walking /\ iter \in revents /\ ev = listen_event
      /\ ready' = ready \ {ev} /\ dropped' = dropped /\ Advance
  BY DEF CallListen
<1>2. CASE UNCHANGED <<all_events, active_events, exit_time, connected>>
  BY <1>1, <1>2, PassInv
<1>3. ASSUME NEW p \in Peer \ connected, connected' = connected \cup {p},
             NEW adds \in {<< >>, <<p>>}, Handle(all_events, active_events, adds)
      PROVE  LoopInv'
  <2>1. ListInv /\ WalkInv /\ connected \subseteq Peer /\ Pending \cap Peer \subseteq connected
    BY DEF LoopInv, ListInv
  <2>2. adds \in Seq(Peer) /\ OnlyOnce(adds) /\ ToSet(adds) \subseteq {p}
    <3>1. CASE adds = << >>
      BY <3>1 DEF OnlyOnce, ToSet
    <3>2. CASE adds = <<p>>
      BY <3>2 DEF OnlyOnce, ToSet
    <3> QED
      BY <1>3, <3>1, <3>2
  <2>3. /\ ListInv'
        /\ \A q \in Peer \cap Pending :
             q \in Pending' /\ Led(all_events.le_next[q], all_events'.le_next[q])
    <3>1. /\ ToSet(adds) \cap Pending = {} /\ connected \subseteq connected'
          /\ ToSet(adds) \subseteq connected' /\ connected' \subseteq Peer
      BY <1>3, <2>1, <2>2
    <3> QED
      BY <1>3, <2>1, <2>2, <3>1, HandlerInv
  <2>4. WalkInv'
    BY <1>1, <2>1, <2>3, WalkAdvances DEF LoopInv
  <2> QED
    BY <1>1, <2>3, <2>4 DEF LoopInv, ArrayInv, Advance
<1> QED
  BY <1>2, <1>3 DEF CallListen

LEMMA CallHandlerInv ==
  ASSUME LoopInv, CallHandler
  PROVE  LoopInv'
<1>0. PICK served \in SUBSET Waiting :
        \E adds \in SetToSeqs(served) : Handle(all_events, active_events, adds)
  BY DEF CallHandler
<1>1. PICK adds \in SetToSeqs(served) : Handle(all_events, active_events, adds)
  BY <1>0
<1>2. /\ connected' = connected /\ ready' = ready /\ dropped' = dropped /\ pc' = pc
      /\ poll_allocated' = poll_allocated /\ poll_list' = poll_list
      /\ revents' = revents /\ ev' = ev /\ iter' = iter
  BY DEF CallHandler
<1>3. ListInv /\ WalkInv /\ connected \subseteq Peer /\ served \subseteq connected \ Pending
  BY DEF LoopInv, ListInv, Waiting
<1>4. adds \in Seq(Peer) /\ OnlyOnce(adds) /\ ToSet(adds) \subseteq served
  BY <1>3, SeqsOf
<1>5. /\ ListInv'
      /\ \A q \in Peer \cap Pending :
           q \in Pending' /\ Led(all_events.le_next[q], all_events'.le_next[q])
  <2>1. /\ ToSet(adds) \cap Pending = {} /\ connected \subseteq connected'
        /\ ToSet(adds) \subseteq connected' /\ connected' \subseteq Peer
    BY <1>2, <1>3, <1>4
  <2> QED
    BY <1>1, <1>3, <1>4, <2>1, HandlerInv
<1>6. WalkInv'
  BY <1>2, <1>3, <1>5, WalkKept
<1> QED
  BY <1>2, <1>5, <1>6 DEF LoopInv, ArrayInv

LEMMA LoopNextInv == LoopInv /\ [Next]_allVars => LoopInv'
<1> SUFFICES ASSUME LoopInv, [Next]_allVars
             PROVE  LoopInv'
  OBVIOUS
<1>1. CASE UNCHANGED vars
  BY <1>1, QuietInv DEF vars, loopVars
<1>2. CASE EnterSignal
  BY <1>2, PassInv DEF EnterSignal
<1>3. CASE CallHandler
  BY <1>3, CallHandlerInv
<1>4. CASE LeaveSignal
  <2>1. \A q \in Peer \cap ready : q \in ready'
    BY <1>4, EventFacts DEF LeaveSignal
  <2> QED
    BY <1>4, <2>1, QuietInv DEF LeaveSignal, loopVars
<1>5. CASE Dispatch
  <2>1. CASE Poll
    BY <2>1, PollInv
  <2>2. CASE Skip
    BY <2>2, PassInv DEF Skip
  <2>3. CASE CallPeer
    BY <2>3, CallPeerInv
  <2>4. CASE CallListen
    BY <2>4, CallListenInv
  <2>5. CASE EndOfWalk
    <3>1. ListInv'
      <4>1. Pending' = Pending /\ Listed(all_events') = Listed(all_events)
        BY <2>5 DEF EndOfWalk, Pending
      <4> QED
        BY <2>5, <4>1 DEF EndOfWalk, LoopInv, ListInv
    <3>2. ArrayInv' /\ WalkInv' /\ dropped' = {}
      BY <2>5 DEF EndOfWalk, LoopInv, ArrayInv, WalkInv
    <3> QED
      BY <3>1, <3>2 DEF LoopInv
  <2> QED
    BY <1>5, <2>1, <2>2, <2>3, <2>4, <2>5 DEF Dispatch
<1>6. CASE SignalComes
  BY <1>6, QuietInv DEF SignalComes, loopVars
<1>7. CASE BecomesReady
  BY <1>7, QuietInv DEF BecomesReady, loopVars
<1>8. CASE SecondPasses
  BY <1>8, QuietInv DEF SecondPasses
<1> QED
  BY <1>1, <1>2, <1>3, <1>4, <1>5, <1>6, <1>7, <1>8
     DEF Next, HandleSignals, allVars

(* LoopInv, of the list and the walk, and SigInv, of the signals, hold in  *)
(* every reachable state.                                                  *)
THEOREM Invariance == Spec => [](LoopInv /\ SigInv)
<1>1. InitAll => LoopInv /\ SigInv
  BY LoopInitInv, SigInitInv DEF InitAll
<1>2. LoopInv /\ SigInv /\ [Next]_allVars => (LoopInv /\ SigInv)'
  BY LoopNextInv, SigNextInv
<1> QED
  BY <1>1, <1>2, PTL DEF Spec

(* active_events counts the list exactly, and the array of poll has room   *)
(* for it, however many peers come and in whatever order their handlers    *)
(* and the signals' change the list.                                       *)
THEOREM ActiveAlwaysExact == Spec => []ActiveExact
<1>1. LoopInv => ActiveExact
  BY DEF LoopInv, ListInv, ArrayInv, ActiveExact
<1> QED
  BY <1>1, Invariance, PTL

(* No deferred read or write is called that poll did not report, although  *)
(* handlers change the list while it is walked.                            *)
THEOREM NeverSpurious == Spec => []NoSpuriousCall
<1>1. LoopInv => NoSpuriousCall
  BY DEF LoopInv, NoSpuriousCall
<1> QED
  BY <1>1, Invariance, PTL

(* When signal_read_handler has returned no signal is left over, however   *)
(* many signals there are, however large the pipe and its reads.           *)
THEOREM NoSignalEverLost == Spec => []NoSignalLost
<1>1. SigInv => NoSignalLost
  BY DEF SigInv, SigType, Flagged, Awaited, Unhandled, NoSignalLost, Idle
<1> QED
  BY <1>1, Invariance, PTL
=============================================================================
