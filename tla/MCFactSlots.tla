------------------------------ MODULE MCFactSlots ------------------------------
(* Values of FactSlots' constants for model checking. *)
EXTENDS FactSlots

CONSTANTS port, host, tool, v1, v2

\* A plain decided fact, and the variations the writer tells apart.
Says(k, v) == [turn |-> 1, key |-> k, value |-> v, status |-> Decided,
               replaces |-> None, keeps |-> {}, listed |-> FALSE, fixes |-> FALSE,
               finds |-> None, departs |-> {}, aims |-> None]
Speaks(fs, ls) == [facts |-> fs, leaves |-> ls, day |-> 1]
One(f) == Speaks(<<f>>, {})
A == Says(port, v1)
B == Says(port, v2)

\* What the writer, the holds and the crashes between them do about one key.
SlotStories ==
  { One(A), One(B), One([B EXCEPT !.keeps = {v1}]),
    One([A EXCEPT !.status = Rejected]),
    [One([A EXCEPT !.status = Considered]) EXCEPT !.day = 2],
    [One([B EXCEPT !.replaces = v1]) EXCEPT !.day = 0],
    One([B EXCEPT !.listed = TRUE]),
    Speaks(<<A, [B EXCEPT !.turn = 2]>>, {}),
    Speaks(<<>>, {<<v2, v1>>}),
    Speaks(<<[A EXCEPT !.turn = 2]>>, {<<v1, v2>>}) }

\* Another key and an edge: what the judge closes across keys.
MixedStories ==
  { One(Says(tool, v1)),
    One([Says(tool, v2) EXCEPT !.replaces = v1, !.keeps = {v1}]),
    One([Says(host, v2) EXCEPT !.replaces = v1]),
    Speaks(<<[Says(host, v2) EXCEPT !.fixes = TRUE, !.turn = 2], Says(host, v1)>>, {}) }

\* Facts matched to a known row that their turn departs from: a slot's, which
\* another fact of the session may close first, and a use of the same role.
MatchedStories ==
  { Speaks(<<B, [Says(host, v1) EXCEPT !.turn = 2, !.finds = port, !.departs = {v1, v2}]>>, {}),
    One([Says(tool, v2) EXCEPT !.finds = tool, !.departs = {v1}]) }

SeveralStories == SlotStories \cup MixedStories \cup MatchedStories

\* A matched fact whose turn does not speak of the stored value.
PassingStories == { One(A), One([Says(host, v2) EXCEPT !.finds = port]) }

\* Two processes: writers of one key, a held value and its settlement, and a
\* judge that closes across keys.
OverlapStories ==
  { One(A), One([B EXCEPT !.keeps = {v1}]),
    Speaks(<<[Says(host, v2) EXCEPT !.replaces = v1]>>, {<<v2, v1>>}),
    Speaks(<<[A EXCEPT !.turn = 2]>>, {<<v1, v2>>}) }

\* A held value that a later session releases.
ReleaseStories == { One(A), One([B EXCEPT !.keeps = {v1}]),
                    Speaks(<<A, [B EXCEPT !.turn = 2]>>, {}) }

NoStories == {}

AllOn == {{"match", "consolidate", "hold"}}
=============================================================================
