---------------------------- MODULE SignalPipe -----------------------------
(***************************************************************************)
(* Signals in lib/event.c: an asynchronous handler sets a flag and writes  *)
(* a byte to a pipe; the event loop, when it finds the pipe readable,      *)
(* drains it and calls the handlers of the flagged signals, again until a  *)
(* drain finds nothing.  The asynchronous handler may run between any two  *)
(* instructions of the loop, but it runs to its end.  EventSystem composes *)
(* this with the loop.                                                     *)
(***************************************************************************)
EXTENDS Integers, FiniteSets, SequencesExt

CONSTANTS
  signals,    \* the signals added, in the order of the list
  PipeSize,   \* the capacity of the pipe
  BufSize,    \* sizeof(buf), 256 in the code
  MaxSignals  \* how many signals come (a bound)

Signal == ToSet(signals)

VARIABLES
  all_signals,     \* the list of signal_add and signal_del
  sig_received,
  pipe,            \* the number of bytes in the pipe
  pc,              \* "dispatch", "read", "check", "clear" or "call"
  sig,             \* the place of the loop in the list
  got_something,
  unseen,          \* the signals that came after their handler last began
  came             \* the number of signals so far

Init ==
  /\ all_signals = signals
  /\ sig_received = [s \in Signal |-> FALSE]
  /\ pipe = 0
  /\ pc = "dispatch"
  /\ sig = 1
  /\ got_something = FALSE
  /\ unseen = {}
  /\ came = 0

-----------------------------------------------------------------------------
(* signal_handler.  Both ends of the pipe are non-blocking: a write to a   *)
(* full pipe fails, and a full pipe is as good a wake-up.                  *)
signal_handler(s) ==
  /\ came < MaxSignals
  /\ came' = came + 1
  /\ sig_received' = [sig_received EXCEPT ![s] = @ \/ s \in ToSet(all_signals)]
  /\ pipe' = Min({pipe + 1, PipeSize})
  /\ unseen' = unseen \cup {s}
  /\ UNCHANGED <<all_signals, pc, sig, got_something>>

(* event_dispatch calls signal_read_handler. *)
Enter ==
  /\ pc = "dispatch"
  /\ pc' = "read" /\ got_something' = FALSE
  /\ UNCHANGED <<all_signals, sig_received, pipe, sig, unseen, came>>

Read ==
  /\ pc = "read" /\ pipe > 0
  /\ pipe' = pipe - Min({pipe, BufSize})
  /\ got_something' = TRUE
  /\ UNCHANGED <<all_signals, sig_received, pc, sig, unseen, came>>

Drained ==
  /\ pc = "read" /\ pipe = 0
  /\ pc' = IF got_something THEN "check" ELSE "dispatch"
  /\ sig' = 1
  /\ UNCHANGED <<all_signals, sig_received, pipe, got_something, unseen, came>>

(* One round of the loop over the signals.  A seeded bug: after it, what   *)
(* came meanwhile is drained and the handler returns.                      *)
Bug_CheckFlag ==
  /\ pc = "check"
  /\ IF sig > Len(all_signals)
     THEN pc' = "dispatch" /\ pipe' = 0 /\ UNCHANGED <<sig, got_something>>
     ELSE /\ IF sig_received[all_signals[sig]]
             THEN pc' = "clear" /\ UNCHANGED <<sig, got_something>>
             ELSE pc' = pc /\ sig' = sig + 1 /\ UNCHANGED got_something
          /\ UNCHANGED pipe
  /\ UNCHANGED <<all_signals, sig_received, unseen, came>>

CheckFlag ==
  /\ pc = "check"
  /\ IF sig > Len(all_signals)
     THEN pc' = "read" /\ got_something' = FALSE /\ UNCHANGED sig
     ELSE IF sig_received[all_signals[sig]]
          THEN pc' = "clear" /\ UNCHANGED <<sig, got_something>>
          ELSE pc' = pc /\ sig' = sig + 1 /\ UNCHANGED got_something
  /\ UNCHANGED <<all_signals, sig_received, pipe, unseen, came>>

(* A seeded bug: all flags are cleared.                                    *)
Bug_ClearFlag ==
  /\ pc = "clear"
  /\ sig_received' = [s \in Signal |-> FALSE]
  /\ pc' = "call"
  /\ UNCHANGED <<all_signals, pipe, sig, got_something, unseen, came>>

ClearFlag ==
  /\ pc = "clear"
  /\ sig_received' = [sig_received EXCEPT ![all_signals[sig]] = FALSE]
  /\ pc' = "call"
  /\ UNCHANGED <<all_signals, pipe, sig, got_something, unseen, came>>

(* The handler begins; it may take its own signal off the list, as         *)
(* child_handler does.                                                     *)
Call ==
  /\ pc = "call"
  /\ unseen' = unseen \ {all_signals[sig]}
  /\ \/ sig' = sig + 1 /\ UNCHANGED all_signals
     \/ all_signals' = RemoveAt(all_signals, sig) /\ UNCHANGED sig
  /\ pc' = "check"
  /\ UNCHANGED <<sig_received, pipe, got_something, came>>
=============================================================================
