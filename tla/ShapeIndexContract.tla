------------------------- MODULE ShapeIndexContract -------------------------
(***************************************************************************)
(* What MutableS2ShapeIndex promises to its callers: it can be mutated     *)
(* while nobody reads it, and a const method reads exactly the shapes it   *)
(* holds.  That the index is built lazily is invisible.                    *)
(***************************************************************************)
CONSTANT Threads

VARIABLES shapes,   \* the ids of the shapes in the index
          answer    \* per thread: {} or {the shapes its iterator ranges over}

Init == shapes = {} /\ answer = [t \in Threads |-> {}]

AddShape(id) ==
  /\ \A t \in Threads : answer[t] = {}
  /\ id \notin shapes
  /\ shapes' = shapes \cup {id}
  /\ UNCHANGED answer

RemoveShapes(removed) ==
  /\ \A t \in Threads : answer[t] = {}
  /\ shapes' = shapes \ removed
  /\ UNCHANGED answer

BeginRead(t) ==
  /\ answer[t] = {}
  /\ answer' = [answer EXCEPT ![t] = {shapes}]
  /\ UNCHANGED shapes

EndRead(t) ==
  /\ answer[t] # {}
  /\ answer' = [answer EXCEPT ![t] = {}]
  /\ UNCHANGED shapes

Next == \/ \E id \in shapes' : AddShape(id)
        \/ \E removed \in SUBSET shapes : RemoveShapes(removed)
        \/ \E t \in Threads : BeginRead(t) \/ EndRead(t)

Spec == Init /\ [][Next]_<<shapes, answer>>
=============================================================================
