--------------------------- MODULE MCRegistration ---------------------------
(***************************************************************************)
(* Instances of Registration for TLC: who sends which request.             *)
(***************************************************************************)
EXTENDS RegistrationRefinement, TLC

CONSTANTS p1, p2, p3, p4, p5, r1, r2, r3, r4, r5, c1, c2, c3

\* The first participant sends two requests, the others one each.
MCOwnerTwice ==
    [r \in Registers |->
        CASE r \in {r1, r2} -> p1
          [] r = r3 -> p2
          [] r = r4 -> p3
          [] r = r5 -> p4]

\* Every request comes from a participant of its own.
Sender(r) ==
    CASE r = r1 -> p1 [] r = r2 -> p2 [] r = r3 -> p3 [] r = r4 -> p4 [] r = r5 -> p5

MCOwnerEach == [r \in Registers |-> Sender(r)]

\* Requests of the same participant can be exchanged, and so can cancel requests
\* and participants together with their only request.
MCSymmetryTwice == Permutations({r1, r2}) \cup Permutations(Cancels)

Exchange == [x \in {r3, r4, p2, p3} |->
    CASE x = r3 -> r4 [] x = r4 -> r3 [] x = p2 -> p3 [] x = p3 -> p2]

MCSymmetryTwiceMore == MCSymmetryTwice \cup {Exchange}

Together(f) ==
    [x \in Registers \cup {Sender(r) : r \in Registers} |->
        IF x \in Registers THEN f[x] ELSE Sender(f[CHOOSE r \in Registers : Sender(r) = x])]

MCSymmetryEach == {Together(f) : f \in Permutations(Registers)} \cup Permutations(Cancels)
=============================================================================
