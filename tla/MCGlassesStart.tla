----------------------------- MODULE MCGlassesStart -----------------------------
EXTENDS GlassesStart

CONSTANTS r1, r2, p1, n1, Built

Plain == [room |-> Null, pin |-> Null, name |-> Null, render |-> Null, relay |-> Null]
TypingError == [Plain EXCEPT !.room = Typo, !.pin = Typo, !.render = Typo]
Seed == [room |-> r2, pin |-> None, name |-> n1, render |-> "text", relay |-> Built]

\* Packaged, from the relay itself, and from a computer with a mistyped and with
\* a complete query.
MCLaunches ==
  {[search |-> Plain, origin |-> "https", fallback |-> Built, pinned |-> TRUE],
   [search |-> TypingError, origin |-> "https", fallback |-> Null, pinned |-> FALSE],
   [search |-> Seed, origin |-> "http", fallback |-> Null, pinned |-> FALSE]}

\* All filled in; another room with nothing else; a room the form refuses.
MCForms ==
  {[room |-> r1, pin |-> p1, name |-> n1, render |-> "text"],
   [room |-> r2, pin |-> None, name |-> None, render |-> None],
   [room |-> Typo, pin |-> None, name |-> None, render |-> None]}
================================================================================
