------------------------------ MODULE MCRenderQueue ------------------------------
(* Small instances of RenderQueue.                                             *)
EXTENDS RenderQueue

SomeMessages == {"", "GO LOW", "GO/LOW"}
SpaceForBreak == [m \in SomeMessages |-> IF m = "" THEN "" ELSE "GO LOW"]

Blank == [lane |-> Null, left |-> 0, mid |-> 0, right |-> 0,
          linkOk |-> TRUE, message |-> "", visible |-> TRUE]

\* The link lost, a lane, a car beside and behind, a message and the hidden
\* phase of its blink, the message with a break.
SomeJobs ==
  LET car == [Blank EXCEPT !.lane = "mid", !.mid = 1, !.left = 1]
      told == [Blank EXCEPT !.mid = 1, !.message = "GO LOW"]
  IN  {[Blank EXCEPT !.linkOk = FALSE], car, told,
       [told EXCEPT !.visible = FALSE], [told EXCEPT !.message = "GO/LOW"]}

\* A message on and off, beside a car.
NewsJobs ==
  {[Blank EXCEPT !.mid = 1, !.message = m] : m \in {"", "GO LOW"}}
    \union {[Blank EXCEPT !.mid = 2, !.left = 1]}

\* A car behind that comes closer.
CarJobs == {[Blank EXCEPT !.mid = level] : level \in 1 .. 3}
================================================================================
