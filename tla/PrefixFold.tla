------------------------------ MODULE PrefixFold ------------------------------
(***************************************************************************)
(* What the stream promises a consumer, without saying how: events are     *)
(* numbered from 1, and what a consumer holds is always the events up to   *)
(* some number, which only grows.                                          *)
(***************************************************************************)
EXTENDS Naturals

CONSTANT Consumers

VARIABLES
    top,   \* the highest number assigned
    fold   \* the numbers each consumer's state reflects

Init == top = 0 /\ fold = [c \in Consumers |-> {}]

Publish ==
    /\ top' \in Nat
    /\ top' > top
    /\ UNCHANGED fold

(* The next event is applied, or a snapshot replaces the fold. *)
Fold(c) ==
    /\ \E n \in 0..top : fold[c] \subseteq 1..n
                         /\ fold' = [fold EXCEPT ![c] = 1..n]
    /\ UNCHANGED top

Next == Publish \/ \E c \in Consumers : Fold(c)

Spec == Init /\ [][Next]_<<top, fold>>
===============================================================================
