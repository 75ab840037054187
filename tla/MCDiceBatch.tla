---------------------------- MODULE MCDiceBatch ----------------------------
(***************************************************************************)
(* A model of DiceBatch for TLC: a simulation of two rolls or a cost run   *)
(* of one roll per mode, beside a simulation of one roll.                  *)
(***************************************************************************)
EXTENDS DiceBatch, TLC

\* One process measures or simulates, the other is in its way.
CONSTANTS p1, p2

SomeProcesses == {p1, p2}

SomeCommands ==
    (p1 :> {[name |-> "simulate", n |-> 2], [name |-> "simulate-event", n |-> 2],
            [name |-> "cost", n |-> 1]})
    @@ (p2 :> {[name |-> "simulate", n |-> 1]})

SomeMemos == {MemoOf(p, loop, i) : p \in SomeProcesses, loop \in 1..3, i \in 1..2}

SomeModes == {"pda", "pda-beta", "event"}

SomeFees == [pda |-> 3, event |-> 1] @@ ("pda-beta" :> 4)
=============================================================================
