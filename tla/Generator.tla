----------------------------- MODULE Generator -----------------------------
(***************************************************************************)
(* What wperf-lib.h promises of each of its listing calls: it "works like a*)
(* generator, yields the next element" of what the last collecting call,   *)
(* the one with a null pointer, put in the list, and says false when there *)
(* is nothing left.  A collecting call begins the list afresh, wherever    *)
(* the last one was left.                                                  *)
(***************************************************************************)
EXTENDS Sequences

CONSTANTS Unknown,    \* nothing collected, or the collection was overtaken
          Collected,  \* the answer of a successful collecting call
          End,        \* the answer false: no more elements
          Elsewhere   \* the last call was to another routine

VARIABLES list,   \* what there is to collect: the generator only reads it
          todo,   \* the elements still to be yielded, or Unknown
          answer  \* what the last call answered

vars == <<todo, answer>>

Init == todo = Unknown /\ answer = Elsewhere

\* From the first element, all of them.
Collect == answer' = Collected /\ todo' = list'

\* Whatever is called then, it does not answer that it has collected.
Lose == todo' = Unknown /\ answer' # Collected

Yield == /\ todo # Unknown /\ todo # <<>>
         /\ answer' = Head(todo)
         /\ todo' = Tail(todo)

NoMore == /\ todo = <<>>
          /\ answer' = End
          /\ UNCHANGED todo

Other == answer' = Elsewhere /\ UNCHANGED todo

Next == Collect \/ Other \/ Yield \/ NoMore \/ Lose

Spec == Init /\ [][Next]_vars
=============================================================================
