---------------------------- MODULE Reservations ----------------------------
(***************************************************************************)
(* What the schedule promises, without handlers, transactions or tables: a *)
(* set of reservations, each an owner holding a resource in a window, that *)
(* owners change one at a time and in which two owners never hold the same *)
(* resource in overlapping windows.                                        *)
(***************************************************************************)
EXTENDS Integers

CONSTANTS Owners
VARIABLE held  \* set of [owner, res, win]

Clash(g, h) ==
  /\ g.owner # h.owner /\ g.res = h.res
  /\ g.win.from < h.win.to /\ h.win.from < g.win.to

Consistent == \A g, h \in held : ~ Clash(g, h)

\* o takes, moves or gives back reservations; nobody else's change.
Change(o) ==
  /\ \A h \in (held' \ held) \cup (held \ held') : h.owner = o
  /\ Consistent'

Init == held = {}
Next == \E o \in Owners : Change(o)
Spec == Init /\ [][Next]_held
=============================================================================
