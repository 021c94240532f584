----------------------------- MODULE AtomicBump -----------------------------
(***************************************************************************)
(* util.AtomicBumpUint32: the lock-free "raise this word to at least v"    *)
(* that guards AggMetric.lastSaveStart.                                    *)
(*                                                                         *)
(*   prev := Swap(loc, newVal)                                             *)
(*   for prev > newVal { newVal = prev; prev = Swap(loc, newVal) }         *)
(*                                                                         *)
(* The only atomic instruction is the swap, so the word itself may go      *)
(* down for a while: a caller with a small value takes the larger one out  *)
(* of the word and carries it until it has swapped it back in.  Readers    *)
(* (AggMetric.persist) can observe such a dip.                             *)
(***************************************************************************)
EXTENDS Naturals

CONSTANTS Callers,  \* goroutines that may run AtomicBump at the same time
          Values    \* the values they bump to (chunk T0's; 0 is "nothing yet")

ASSUME ValuesAssumption == Values \subseteq Nat \ {0}

VARIABLES loc,     \* the shared word
          newVal,  \* newVal[c]: local variable of caller c, 0 when c is not inside AtomicBump
          highest  \* history: the highest value any call was given so far

vars == <<loc, newVal, highest>>

Running == {c \in Callers : newVal[c] # 0}

Init ==
    /\ loc = 0
    /\ newVal = [c \in Callers |-> 0]
    /\ highest = 0

\* A caller enters the function with argument v.
Call(c, v) ==
    /\ newVal[c] = 0
    /\ newVal' = [newVal EXCEPT ![c] = v]
    /\ highest' = IF v > highest THEN v ELSE highest
    /\ UNCHANGED loc

\* Variants of Swap with a fault: no loop; >= instead of >; off by one.
SwapNoLoop(c) ==
    /\ newVal[c] # 0
    /\ loc' = newVal[c]
    /\ newVal' = [newVal EXCEPT ![c] = 0]
    /\ UNCHANGED highest

SwapGeq(c) ==
    /\ newVal[c] # 0
    /\ loc' = newVal[c]
    /\ newVal' = [newVal EXCEPT ![c] = IF loc >= newVal[c] THEN loc ELSE 0]
    /\ UNCHANGED highest

SwapPlusOne(c) ==
    /\ newVal[c] # 0
    /\ loc' = newVal[c]
    /\ newVal' = [newVal EXCEPT ![c] = IF loc > newVal[c] THEN loc + 1 ELSE 0]
    /\ UNCHANGED highest

\* One swap instruction and the loop test that follows it: the caller leaves
\* with nothing to do, or carries the larger value it took out of the word.
Swap(c) ==
    /\ newVal[c] # 0
    /\ loc' = newVal[c]
    /\ newVal' = [newVal EXCEPT ![c] = IF loc > newVal[c] THEN loc ELSE 0]
    /\ UNCHANGED highest

Next == \E c \in Callers : Swap(c) \/ \E v \in Values : Call(c, v)

\* The Go scheduler keeps running a goroutine that is inside the function.
Fairness == \A c \in Callers : WF_vars(Swap(c))

Spec == Init /\ [][Next]_vars /\ Fairness
-----------------------------------------------------------------------------
\* The word and the values carried by running calls are values that were given.
TypeOK ==
    /\ loc \in Values \cup {0}
    /\ newVal \in [Callers -> Values \cup {0}]
    /\ highest \in Values \cup {0}

\* "assures the given address stores the highest uint32 between the current
\* value, the value provided and the value provided by any other concurrently
\* executing call": the highest value is never lost, it is in the word or
\* carried by a caller that is about to put it back.
HighestHeld == highest = loc \/ \E c \in Callers : newVal[c] = highest

\* Nothing above the highest argument appears out of thin air.
Bounded == loc <= highest /\ \A c \in Callers : newVal[c] <= highest

\* The inductive invariant: TypeOK, the value is held, and nothing exceeds it.
IInv == TypeOK /\ HighestHeld /\ Bounded

\* Once no call is running the word holds the highest value ever given.
QuiescentHighest == Running = {} => loc = highest

\* Every call returns: the loop of a caller ends however the others interleave.
BumpReturns == \A c \in Callers : newVal[c] # 0 ~> newVal[c] = 0
=============================================================================
