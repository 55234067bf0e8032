------------------------------- MODULE Errlog -------------------------------
(***************************************************************************)
(* The two rings of core/errlog.c, the stack of errors and the log of      *)
(* events: the newest entry pushes out the oldest of a full ring.  An      *)
(* entry is the number of the event it tells of; 0 is an unused place.     *)
(***************************************************************************)
EXTENDS Naturals

Unused(depth) == [items |-> [i \in 0 .. depth - 1 |-> 0], head |-> 0, count |-> 0]

\* log_event and err_push: r is a ring of this depth.
Pushed(r, depth, entry) ==
  LET full == r.count = depth
      head == IF full THEN (r.head + 1) % depth ELSE r.head
      count == IF full THEN depth ELSE r.count + 1
  IN [items |-> [r.items EXCEPT ![(head + count - 1) % depth] = entry],
      head |-> head, count |-> count]

\* The place log_at points to, and the one err_pop copies from.
Place_FromStart(r, depth, index) == index % depth
Place(r, depth, index) == (r.head + index) % depth

err_pop(r, depth) == [r EXCEPT !.head = (@ + 1) % depth, !.count = @ - 1]
=============================================================================
