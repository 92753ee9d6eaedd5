---------------------------- MODULE AtomicInventory ----------------------------
(***************************************************************************)
(* What the persistence adapter promises its caller: the finalization      *)
(* state is one value that changes by whole events.                        *)
(*                                                                         *)
(*   committed  the state a restart would come back with (NoDoc before     *)
(*              the run's first plan is durable);                          *)
(*   acked      what the live adapter has confirmed to the lifecycle       *)
(*              machine, NoDoc when there is no adapter.                   *)
(*                                                                         *)
(* A confirmed event is never lost, a state is never half of an event, and *)
(* at most one event is committed beyond what was confirmed.               *)
(***************************************************************************)
EXTENDS FinalizationInventory

CONSTANT NoDoc

VARIABLES committed, acked

vars == <<committed, acked>>

Init == committed = NoDoc /\ acked = NoDoc

\* The run publishes its plan and an empty inventory.
Create ==
  /\ committed = NoDoc
  /\ committed' = EmptyJournal.inventory
  /\ UNCHANGED acked

\* One event becomes durable, on top of everything confirmed before it.
Commit ==
  /\ acked # NoDoc
  /\ acked = committed
  /\ \E j \in CommittableJournals(acked) : committed' = j.inventory
  /\ UNCHANGED acked

\* A caller learns the durable state: the commit returns, or a process opens it.
Acknowledge ==
  /\ committed # NoDoc
  /\ acked' = committed
  /\ UNCHANGED committed

\* The adapter is gone: a crash, or an error that ends the process.
Lose ==
  /\ acked' = NoDoc
  /\ UNCHANGED committed

Next == Create \/ Commit \/ Acknowledge \/ Lose

Spec == Init /\ [][Next]_vars
================================================================================
