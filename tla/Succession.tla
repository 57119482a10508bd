----------------------------- MODULE Succession -----------------------------
(***************************************************************************)
(* What the election promises the masters: candidates stand in line, each  *)
(* once, in the order in which they came, and any of them may leave.  Only *)
(* the head of the line leads, and nobody takes over from a leader that    *)
(* did not leave or resign before.  A head need not lead.                  *)
(***************************************************************************)
EXTENDS Sequences, Naturals

VARIABLES line,     \* the candidates, by the time they came
          leading   \* the candidate that leads, if one does

vars == <<line, leading>>

Init == line = <<>> /\ leading = {}

Members == {line[i] : i \in 1 .. Len(line)}

Join == /\ \E c \in Members' \ Members : line' = Append(line, c)
        /\ UNCHANGED leading

Leave == \E i \in 1 .. Len(line) :
            /\ line' = [j \in 1 .. Len(line) - 1 |-> IF j < i THEN line[j] ELSE line[j + 1]]
            /\ leading' = leading \ {line[i]}

Lead == /\ line # <<>>
        /\ leading = {}
        /\ leading' = {Head(line)}
        /\ UNCHANGED line

Resign == /\ leading # {}
          /\ leading' = {}
          /\ UNCHANGED line

Next == Join \/ Leave \/ Lead \/ Resign

Spec == Init /\ [][Next]_vars
=============================================================================
