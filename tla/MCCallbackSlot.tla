---------------------------- MODULE MCCallbackSlot ----------------------------
(* The webhook receivers of the bindings (CallbackSlot.tla), for TLC. *)
CONSTANTS SlotCalls, OnEvent, Ctor, NoCall, Bindings

VARIABLES binding, slot_pc, slot_parent, slots, callback, writer, readers, left, local,
          latest, snapshot, delivered

Slot == INSTANCE CallbackSlot WITH
  Calls <- SlotCalls, None <- NoCall, Hosts <- Bindings,
  host <- binding, pc <- slot_pc, parent <- slot_parent

ASSUME SlotNamesAreDistinct == Slot!NamesAreDistinct

Webhooks_Spec == Slot!FairSpec

-------------------------------------------------------------------------------
\* "no user code runs under locks" (webhook.rs:71), and so in every binding, but
\* for the destructor of a callback that Python's set_callback replaces, which
\* runs under its lock (webhook.py:85-86).
UserCodeUnlocked == Slot!UserCodeUnlocked

\* The guarded words implement the atomic register of callbacks: "SetCallback
\* atomically replaces or clears the callback" (.NET README:171), and a dispatch
\* runs the callback it read, never half of it.
SlotImplementsRegister == Slot!SlotImplementsRegister

\* Callbacks, key providers and destructors may replace the callback and
\* dispatch events: every call ends, unless that destructor of Python calls the
\* receiver whose lock it runs under, which then stays locked.
SlotCallsEnd == Slot!SlotCallsEnd
===============================================================================
