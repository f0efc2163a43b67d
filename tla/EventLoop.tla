----------------------------- MODULE EventLoop -----------------------------
(***************************************************************************)
(* event_dispatch of lib/event.c under the handlers of the two masters.    *)
(* EventSystem composes it with the signals and states its properties.     *)
(*                                                                         *)
(* The events are a linked list that grows at its head.  A round of the    *)
(* loop copies the list into an array for poll(2) and then walks list and  *)
(* array side by side, calling the handlers of the slots poll reported.    *)
(* Handlers add events, and one of them deletes the listen event, so list  *)
(* and array drift apart during the walk.  A deferred read or write that   *)
(* is called although its socket has nothing for it takes EAGAIN for a     *)
(* broken connection and drops a healthy client.                           *)
(***************************************************************************)
EXTENDS Integers, FiniteSets, SequencesExt

CONSTANTS
  Peer,              \* the peers; each has at most one event at a time
  listen_event, signal_event,
  InitialAllocated,  \* the first size of the poll array: 512 in the code
  NULL

ASSUME PeerAssumption == IsFiniteSet(Peer)
ASSUME EventAssumption ==
  /\ listen_event # signal_event
  /\ Peer \cap {listen_event, signal_event} = {}
  /\ NULL \notin Peer \cup {listen_event, signal_event}
ASSUME AllocatedAssumption == InitialAllocated \in Nat \ {0}

Event == Peer \cup {listen_event, signal_event}

VARIABLES
  all_events,      \* the list: its head and the le_next of every event
  active_events, poll_allocated,
  poll_list,       \* the events of the slots, in order
  revents,         \* the slots poll reported
  ev, iter,        \* where the walk is: an event and a slot
  pc,              \* "poll", "walk" or "returned"
  exit_time,       \* "unset", "set" or "passed"
  connected,       \* the peers that exist
  ready,           \* the events whose descriptors are readable or writable
  dropped          \* healthy peers dropped on account of a spurious call

loopVars == <<all_events, active_events, poll_allocated, poll_list, revents,
              ev, iter, pc, exit_time>>
vars == <<loopVars, connected, ready, dropped>>

-----------------------------------------------------------------------------
(* The list (LIST_INSERT_HEAD, LIST_REMOVE, LIST_FOREACH)                  *)

(* The events from the head on.                                            *)
Listed(list) ==
  LET next(s) == IF s = << >> THEN list.head ELSE list.le_next[Last(s)]
      first[n \in 0 .. Cardinality(Event)] ==
        IF n = 0 THEN << >>
        ELSE LET s == first[n - 1]
             IN IF next(s) = NULL THEN s ELSE Append(s, next(s))
  IN first[Cardinality(Event)]

LIST_INSERT_HEAD(list, e) ==
  [head |-> e, le_next |-> [list.le_next EXCEPT ![e] = list.head]]

(* The events of adds are added in turn.                                   *)
inserted(list, adds) == FoldLeft(LIST_INSERT_HEAD, list, adds)

(* The removed event keeps its own le_next, as the listen event has to.    *)
LIST_REMOVE(list, e) ==
  LET listed == ToSet(Listed(list))
  IN [head |-> IF list.head = e THEN list.le_next[e] ELSE list.head,
      le_next |-> [d \in Event |-> IF d \in listed /\ list.le_next[d] = e
                                   THEN list.le_next[e] ELSE list.le_next[d]]]

Pending == ToSet(Listed(all_events))

(* event_init and master_mode: the signal pipe first, then the socket.     *)
Init ==
  /\ all_events = [head |-> listen_event,
                   le_next |-> [e \in Event |-> IF e = listen_event
                                                THEN signal_event ELSE NULL]]
  /\ active_events = 2
  /\ poll_allocated = 0
  /\ poll_list = << >>
  /\ revents = {}
  /\ ev = NULL /\ iter = 0
  /\ pc = "poll"
  /\ exit_time = "unset"
  /\ connected = {} /\ ready = {} /\ dropped = {}

-----------------------------------------------------------------------------
(* event_dispatch *)

(* The array is doubled until it has n slots.                              *)
doubled(allocated, n) ==
  LET base == IF allocated = 0 THEN InitialAllocated ELSE allocated
  IN base * 2 ^ Min({k \in 0 .. n : base * 2 ^ k >= n})

(* The slots that are ready, among those poll is told of.                  *)
reported ==
  LET slots == Listed(all_events)
  IN {i \in 1 .. Len(slots) : i <= active_events /\ slots[i] \in ready}

Poll ==
  LET slots == Listed(all_events)
  IN /\ pc = "poll"
     /\ poll_allocated' = IF active_events > poll_allocated
                          THEN doubled(poll_allocated, active_events)
                          ELSE poll_allocated
     /\ poll_list' = slots
     /\ revents' = reported
     /\ \/ /\ reported # {}
           /\ pc' = "walk" /\ ev' = all_events.head /\ iter' = 1
        \/ /\ reported = {} /\ exit_time = "passed"
           /\ pc' = "returned" /\ UNCHANGED <<ev, iter>>
     /\ UNCHANGED <<all_events, active_events, exit_time, connected, ready, dropped>>

Walking == pc = "walk" /\ ev # NULL /\ iter <= Len(poll_list)

(* The next event is read before the handler is called.  Seeded bugs: it   *)
(* is read afterwards; the walk ends after one call.                       *)
Bug_Advance ==
  /\ ev' = all_events'.le_next[ev]
  /\ iter' = iter + 1
  /\ UNCHANGED <<poll_allocated, poll_list, revents, pc>>

Bug_one_call ==
  /\ ev' = IF iter \in revents THEN NULL ELSE all_events.le_next[ev]
  /\ iter' = iter + 1
  /\ UNCHANGED <<poll_allocated, poll_list, revents, pc>>

Advance ==
  /\ ev' = all_events.le_next[ev]
  /\ iter' = iter + 1
  /\ UNCHANGED <<poll_allocated, poll_list, revents, pc>>

Skip ==
  /\ Walking /\ iter \notin revents
  /\ UNCHANGED <<all_events, active_events, exit_time, connected, ready, dropped>>
  /\ Advance

(* What a handler does to the list: it adds the events of adds in turn,    *)
(* and may be the one that calls shutdown_master, which deletes the listen *)
(* event and sets exit_time.                                               *)
Handle(list, n, adds) ==
  LET grown == inserted(list, adds)
      added == n + Len(adds)
  IN \/ /\ all_events' = grown
        /\ active_events' = added
        /\ UNCHANGED exit_time
     \/ /\ exit_time = "unset"
        /\ all_events' = LIST_REMOVE(grown, listen_event)
        /\ active_events' = added - 1
        /\ exit_time' = "set"

(* The peers that wait for a job have no event.                            *)
Waiting == connected \ Pending

(* The handler of a deferred read or write.  It is not persistent: the     *)
(* loop takes it off the list first, and its memory is freed in the end.   *)
(* Its client may go on, wait or have gone, and waiting clients may be     *)
(* served.  A seeded bug: active_events is not decremented.                *)
freed(list) == [list EXCEPT !.le_next[ev] = NULL]

Bug_one_shot == [list |-> freed(LIST_REMOVE(all_events, ev)), n |-> active_events]

one_shot == [list |-> freed(LIST_REMOVE(all_events, ev)), n |-> active_events - 1]

CallPeer ==
  /\ Walking /\ iter \in revents /\ ev \in Peer
  /\ \E served \in SUBSET Waiting, stays \in BOOLEAN, again \in SUBSET {ev} :
       /\ again # {} => stays
       /\ ev \notin ready => ~stays
       /\ connected' = IF stays THEN connected ELSE connected \ {ev}
       /\ \E adds \in SetToSeqs(served \cup again) :
            Handle(one_shot.list, one_shot.n, adds)
  /\ dropped' = IF ev \in ready THEN dropped ELSE dropped \cup {ev}
  /\ ready' = ready \ {ev}
  /\ Advance

(* listen_handler; accept fails when the socket has been closed meanwhile. *)
CallListen ==
  /\ Walking /\ iter \in revents /\ ev = listen_event
  /\ \/ /\ ev \in ready /\ exit_time = "unset"
        /\ \E p \in Peer \ connected :
             /\ connected' = connected \cup {p}
             /\ \E adds \in {<< >>, <<p>>} : Handle(all_events, active_events, adds)
     \/ UNCHANGED <<all_events, active_events, exit_time, connected>>
  /\ ready' = ready \ {ev}
  /\ UNCHANGED dropped
  /\ Advance

(* The end of the walk.  Nothing of it is used again.                      *)
EndOfWalk ==
  /\ pc = "walk" /\ ~Walking
  /\ pc' = "poll"
  /\ poll_list' = << >> /\ revents' = {}
  /\ ev' = NULL /\ iter' = 0
  /\ UNCHANGED <<all_events, active_events, poll_allocated, exit_time, connected,
                 ready, dropped>>

(* Outside: a socket becomes ready and stays so until it is handled; the   *)
(* second that event_loopexit allows passes.                               *)
BecomesReady ==
  /\ \E e \in Pending \ (ready \cup {signal_event}) : ready' = ready \cup {e}
  /\ UNCHANGED <<loopVars, connected, dropped>>

SecondPasses ==
  /\ exit_time = "set"
  /\ exit_time' = "passed"
  /\ UNCHANGED <<all_events, active_events, poll_allocated, poll_list, revents,
                 ev, iter, pc, connected, ready, dropped>>
=============================================================================
