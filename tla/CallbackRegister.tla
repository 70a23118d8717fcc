--------------------------- MODULE CallbackRegister ---------------------------
(***************************************************************************)
(* What livekit::server::WebhookReceiver promises about its callbacks,     *)
(* whatever the locking: the set of callbacks is one register, replaced    *)
(* and read atomically.  A dispatch reads it once and runs on_event, then  *)
(* the callback of the event's name, both of the set it read.              *)
(*                                                                         *)
(* A callback set is named by the call that installed it (Ctor names the   *)
(* set given to the constructor); its targets are the slots it fills.      *)
(***************************************************************************)
CONSTANTS Calls,      \* the API calls of a behaviour
          EventNames, \* the event names that have a slot of their own
          OnEvent,    \* the slot called for every event
          Ctor,       \* names the callback set given to the constructor
          None        \* no target, no call, an event name without a slot

Slots == EventNames \cup {OnEvent}
Generations == Calls \cup {Ctor}

VARIABLES phase,     \* how far each call got
          slots,     \* the slots each callback set fills
          event,     \* the event a dispatching call handles
          current,   \* the installed callback set
          snapshot,  \* the callback set a dispatching call read
          delivered  \* the set whose target ran, for each slot of a call

vars == <<phase, slots, event, current, snapshot, delivered>>

Init == /\ phase = [c \in Calls |-> "idle"]
        /\ slots \in [Generations -> SUBSET Slots]
        /\ \A c \in Calls : slots[c] = {}
        /\ event = [c \in Calls |-> None]
        /\ current = Ctor
        /\ snapshot = [c \in Calls |-> None]
        /\ delivered = [c \in Calls |-> [s \in Slots |-> None]]

Move(c, from, to) == /\ phase[c] \in from
                     /\ phase' = [phase EXCEPT ![c] = to]

Offer(c, S) == /\ Move(c, {"idle"}, "offered")
               /\ slots' = [slots EXCEPT ![c] = S]
               /\ UNCHANGED <<event, current, snapshot, delivered>>

Replace(c) == /\ Move(c, {"offered"}, "returned")
              /\ current' = c
              /\ UNCHANGED <<slots, event, snapshot, delivered>>

Request(c, e) == /\ Move(c, {"idle"}, "requested")
                 /\ event' = [event EXCEPT ![c] = e]
                 /\ UNCHANGED <<slots, current, snapshot, delivered>>

Take(c) == /\ Move(c, {"requested"}, "taken")
           /\ snapshot' = [snapshot EXCEPT ![c] = current]
           /\ UNCHANGED <<slots, event, current, delivered>>

Run(c, s) == /\ s \in slots[snapshot[c]]
             /\ delivered' = [delivered EXCEPT ![c][s] = snapshot[c]]
             /\ UNCHANGED <<slots, event, current, snapshot>>

RunOnEvent(c) == Move(c, {"taken"}, "notifying") /\ Run(c, OnEvent)

Notified(c) == /\ \/ Move(c, {"notifying"}, "notified")
                  \/ Move(c, {"taken"}, "notified") /\ OnEvent \notin slots[snapshot[c]]
               /\ UNCHANGED <<slots, event, current, snapshot, delivered>>

RunSpecific(c) == Move(c, {"notified"}, "handling") /\ Run(c, event[c])

Return(c) == /\ \/ Move(c, {"handling"}, "returned")
                \/ Move(c, {"notified"}, "returned") /\ event[c] \notin slots[snapshot[c]]
             /\ UNCHANGED <<slots, event, current, snapshot, delivered>>

\* A rejected request, a failed copy, or an exception of a callback.
Throw(c) == /\ Move(c, {"requested", "taken", "notifying", "notified", "handling"}, "threw")
            /\ UNCHANGED <<slots, event, current, snapshot, delivered>>

Next == \E c \in Calls :
          \/ \E S \in SUBSET Slots : Offer(c, S)
          \/ \E e \in EventNames \cup {None} : Request(c, e)
          \/ Replace(c) \/ Take(c) \/ RunOnEvent(c) \/ Notified(c)
          \/ RunSpecific(c) \/ Return(c) \/ Throw(c)

Spec == Init /\ [][Next]_vars
===============================================================================
