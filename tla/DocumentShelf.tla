---------------------------- MODULE DocumentShelf ----------------------------
(***************************************************************************)
(* What the generation pipeline promises about the files of a job, with    *)
(* no worker, queue, status or transaction in sight: documents are         *)
(* rendered, possibly more often than needed; the files of a job appear on *)
(* the shelf together, all from one finished rendering; and they never     *)
(* change afterwards.                                                      *)
(***************************************************************************)
EXTENDS Naturals

CONSTANTS Jobs,        \* document jobs
          Kinds,       \* kinds of artifact
          Formats      \* Formats[j]: the kinds that job j must produce

VARIABLES shelf,       \* shelf[j][k]: the rendering on the shelf, 0 if none
          renders      \* renderings so far

Empty == [k \in Kinds |-> 0]

Init == /\ shelf = [j \in Jobs |-> Empty]
        /\ renders = 0

\* Some worker renders a document.
Render == /\ renders' = renders + 1
          /\ UNCHANGED shelf

\* The files of rendering n become the files of job j.
Publish(j, n) ==
  /\ shelf[j] = Empty
  /\ shelf' = [shelf EXCEPT ![j] = [k \in Kinds |-> IF k \in Formats[j] THEN n ELSE 0]]
  /\ UNCHANGED renders

Next == Render \/ \E j \in Jobs, n \in 1..renders : Publish(j, n)

Spec == Init /\ [][Next]_<<shelf, renders>>
=============================================================================
