-------------------------- MODULE AtomicBumpProofs --------------------------
(* Proofs about util.AtomicBumpUint32, for any number of callers and any    *)
(* set of values.                                                           *)
EXTENDS AtomicBump, TLAPS

\* The initial word, 0 with nobody inside the function, satisfies the invariant.
LEMMA InitIInv == Init => IInv
  BY ValuesAssumption DEF Init, IInv, TypeOK, HighestHeld, Bounded

\* Every call and every swap instruction preserves the invariant.
LEMMA NextIInv == IInv /\ [Next]_vars => IInv'
<1> SUFFICES ASSUME IInv, [Next]_vars PROVE IInv'
    OBVIOUS
<1> USE ValuesAssumption DEF IInv, TypeOK, HighestHeld, Bounded
<1>a. Values \cup {0} \subseteq Nat
  OBVIOUS
<1>b. \A d \in Callers : newVal[d] \in Nat
  <2>1. \A d \in Callers : newVal[d] \in Values \cup {0}
    OBVIOUS
  <2> QED BY <2>1, <1>a
<1>1. ASSUME NEW c \in Callers, NEW v \in Values, Call(c, v) PROVE IInv'
  <2>a. v \in Nat /\ v # 0 /\ highest \in Nat /\ loc \in Nat
    OBVIOUS
  <2>b. TypeOK'
    BY <1>1 DEF Call
  <2>1. TypeOK' /\ Bounded'
    BY <1>1, <1>b, <2>a, <2>b DEF Call
  <2>2. CASE v > highest
    BY <1>1, <2>1, <2>2 DEF Call
  <2>3. CASE ~(v > highest)
    <3>1. newVal[c] # highest
      BY <1>1, <2>3 DEF Call
    <3> QED BY <1>1, <2>1, <2>3, <3>1 DEF Call
  <2> QED BY <2>2, <2>3
<1>2. ASSUME NEW c \in Callers, Swap(c) PROVE IInv'
  <2>1. TypeOK' /\ Bounded'
    BY <1>2 DEF Swap
  <2>2. HighestHeld'
    <3>1. CASE highest = loc
      <4>1. CASE loc > newVal[c]
        BY <1>2, <3>1, <4>1 DEF Swap
      <4>2. CASE ~(loc > newVal[c])
        BY <1>2, <3>1, <4>2 DEF Swap
      <4> QED BY <4>1, <4>2
    <3>2. CASE \E d \in Callers : newVal[d] = highest
      BY <1>2, <3>2 DEF Swap
    <3> QED BY <3>1, <3>2
  <2> QED BY <2>1, <2>2
<1>3. CASE UNCHANGED vars
  BY <1>3 DEF vars
<1> QED BY <1>1, <1>2, <1>3 DEF Next

\* The inductive invariant holds in every reachable state.
THEOREM Invariance == Spec => []IInv
  BY InitIInv, NextIInv, PTL DEF Spec

\* AtomicBump never loses the highest value: it is in the word, or some
\* concurrently executing call carries it.
THEOREM HighestHeldAlways == Spec => []HighestHeld
<1>1. IInv => HighestHeld
  BY DEF IInv
<1> QED BY <1>1, Invariance, PTL

\* When no call is executing the word is the highest value ever bumped to.
THEOREM QuiescentHighestAlways == Spec => []QuiescentHighest
<1>1. IInv => QuiescentHighest
  BY ValuesAssumption DEF IInv, TypeOK, HighestHeld, Bounded, QuiescentHighest, Running
<1> QED BY <1>1, Invariance, PTL
=============================================================================
