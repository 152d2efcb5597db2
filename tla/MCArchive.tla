----------------------------- MODULE MCArchive -----------------------------
(* An archive of two identical files, one that is in the catalogue already    *)
(* and an archive b, which holds some junk and an archive c.  That one is     *)
(* nested too deep, and if it were unpacked would yield another.  Of the      *)
(* three goroutines for the entries of a two have a slot.                     *)
EXTENDS Archive

CONSTANTS a, b, c, e, f, g, h

SmallContent == [x \in Archives |-> IF x = a THEN <<f, b, g, e>>
                                    ELSE IF x = b THEN <<h, c>> ELSE <<c>>]

\* Whose bytes an item has.
SmallHash == [i \in Items |-> IF i = c THEN NoHash ELSE IF i = g THEN f ELSE i]

\* The publishes that may fail, with or without the message taken.
SmallFaults == {<<"publish", f>>}
=============================================================================
