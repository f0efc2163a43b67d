---------------------------- MODULE EventSystem ----------------------------
(***************************************************************************)
(* lib/event.c as a whole: the loop of EventLoop, whose handler of the     *)
(* signal event is the loop of SignalPipe.  While that one runs the other  *)
(* waits, but a signal may come at any time, into the loop or into poll.   *)
(***************************************************************************)
EXTENDS EventLoop

CONSTANTS signals, PipeSize, BufSize, MaxSignals   \* see SignalPipe

ASSUME SignalsAssumption == signals \in Seq(ToSet(signals)) /\ IsInjective(signals)
ASSUME SizesAssumption ==
  PipeSize \in Nat \ {0} /\ BufSize \in Nat \ {0} /\ MaxSignals \in Nat

VARIABLES
  all_signals, sig_received, pipe, sig, got_something, unseen, came,
  sig_pc   \* pc of SignalPipe

sigVars == <<all_signals, sig_received, pipe, sig_pc, sig, got_something, unseen, came>>

allVars == <<vars, sigVars>>

Signals == INSTANCE SignalPipe WITH pc <- sig_pc

InitAll == Init /\ Signals!Init

Idle == sig_pc = "dispatch"

-----------------------------------------------------------------------------
(* The call of signal_read_handler, for good or, when list and array have  *)
(* drifted apart, with an empty pipe, which it tolerates.                  *)
EnterSignal ==
  /\ Walking /\ iter \in revents /\ ev = signal_event
  /\ Signals!Enter
  /\ UNCHANGED <<all_events, active_events, exit_time, connected, ready, dropped>>
  /\ Advance

(* A handler, child_handler in the masters, serves peers that wait.        *)
CallHandler ==
  /\ Signals!Call
  /\ \E served \in SUBSET Waiting : \E adds \in SetToSeqs(served) :
       Handle(all_events, active_events, adds)
  /\ UNCHANGED <<poll_allocated, poll_list, revents, ev, iter, pc, connected,
                 ready, dropped>>

(* The pipe is empty: on to the flags, or back to event_dispatch.          *)
LeaveSignal ==
  /\ Signals!Drained
  /\ ready' = ready \ {signal_event}
  /\ UNCHANGED <<loopVars, connected, dropped>>

HandleSignals ==
  \/ EnterSignal \/ CallHandler \/ LeaveSignal
  \/ (Signals!Read \/ Signals!CheckFlag \/ Signals!ClearFlag) /\ UNCHANGED vars

Dispatch ==
  /\ Idle
  /\ Poll \/ Skip \/ CallPeer \/ CallListen \/ EndOfWalk
  /\ UNCHANGED sigVars

SignalComes ==
  /\ \E s \in Signals!Signal : Signals!signal_handler(s)
  /\ ready' = ready \cup {signal_event}
  /\ UNCHANGED <<loopVars, connected, dropped>>

Next ==
  \/ HandleSignals \/ Dispatch
  \/ SignalComes
  \/ (BecomesReady \/ SecondPasses) /\ UNCHANGED sigVars

Spec == InitAll /\ [][Next]_allVars

(* The process is scheduled: it takes a step again and again, or is found  *)
(* asleep in poll or out of the loop again and again.  Nothing forces a    *)
(* descriptor to become ready or a signal to come.                         *)
Asleep ==
  /\ Idle
  /\ \/ pc = "returned"
     \/ pc = "poll" /\ exit_time # "passed" /\ reported = {}

FairSpec ==
  /\ Spec
  /\ []<>Asleep \/ []<><<HandleSignals \/ Dispatch>>_allVars

-----------------------------------------------------------------------------
(* Properties *)

(* active_events is the number of listed events, so that poll looks at the *)
(* whole list (no event at its tail, where the socket is, is starved) and  *)
(* the list is copied into an array that has room for it.                  *)
ActiveExact ==
  /\ active_events = Len(Listed(all_events))
  /\ Len(poll_list) <= poll_allocated

(* Although list and array drift apart when the listen event is deleted    *)
(* during a walk, no deferred read or write is called that poll did not    *)
(* report: no client is dropped that is there.                             *)
NoSpuriousCall == dropped = {}

(* A peer whose socket is ready is handled, whatever the other events and  *)
(* the signals do, unless the loop has returned.                           *)
ReadyIsHandled ==
  \A p \in Peer : p \in ready ~> p \notin ready \/ pc = "returned"

(* When signal_read_handler has returned no signal is left over: one that  *)
(* came since its handler last looked has its flag set and its byte in the *)
(* pipe.                                                                   *)
NoSignalLost ==
  Idle => \A s \in unseen \cap ToSet(all_signals) : sig_received[s] /\ pipe > 0

(* A signal is followed by a call of its handler, as long as it is listed  *)
(* and the loop has not returned.                                          *)
SignalIsHandled ==
  \A s \in Signals!Signal :
    s \in unseen \cap ToSet(all_signals)
      ~> s \notin unseen \cap ToSet(all_signals) \/ pc = "returned"
=============================================================================
