------------------------------- MODULE Ranges -------------------------------
(***************************************************************************)
(* The parts of a file that are served: a header "bytes=first-last", read  *)
(* by the controller for local files and by the storage providers for all  *)
(* others (livrosController.js 233-244, storage/storageProvider.js 10-22). *)
(***************************************************************************)
EXTENDS Integers

\* MaxSafe stands for Number.MAX_SAFE_INTEGER, which no size of a file exceeds; one
\* number stands for all above it.
CONSTANTS MaxSize, MaxSafe

VARIABLE range   \* the last header, and the answers to it

\* Either number of the header may be left out (-1).
None == -1
Number == None..(MaxSafe + 1)
Header == [first : Number, last : Number, size : 0..MaxSize]
Refused == [start |-> 0, end |-> None]
Min(a, b) == IF a < b THEN a ELSE b

\* A slip: the last byte asked for, also behind the end of the file.
LocalUncut(h) ==
  LET start == IF h.first = None THEN 0 ELSE h.first
      end == IF h.last = None THEN h.size - 1 ELSE h.last
  IN  IF start > end \/ start >= h.size THEN Refused ELSE [start |-> start, end |-> end]

\* servirConteudoLivro, with a file of the local library.
Local(h) ==
  LET start == IF h.first = None THEN 0 ELSE h.first
      end == IF h.last = None THEN h.size - 1 ELSE Min(h.last, h.size - 1)
  IN  IF start > end \/ start >= h.size THEN Refused ELSE [start |-> start, end |-> end]

\* normalizeRange: "-n" are the last n bytes; numbers that are not safe are refused.
Suffix(h) == h.first = None /\ h.last # None
Remote(h) ==
  LET start == CASE Suffix(h) -> IF h.last > h.size THEN 0 ELSE h.size - h.last
                 [] h.first = None /\ ~Suffix(h) -> 0
                 [] OTHER -> h.first
      end == IF Suffix(h) \/ h.last = None THEN h.size - 1 ELSE h.last
  IN  IF start > MaxSafe \/ end > MaxSafe \/ end < start \/ start >= h.size THEN Refused
      ELSE [start |-> start, end |-> Min(end, h.size - 1)]

Answered(h) == [header |-> h, local |-> Local(h), remote |-> Remote(h)]

Init == range = Answered([first |-> None, last |-> None, size |-> 0])
Ask == \E h \in Header : range' = Answered(h)
Spec == Init /\ [][Ask]_range

Piece == [start : 0..MaxSize, end : None..MaxSize]
TypeOK == range \in [header : Header, local : Piece, remote : Piece]

\* A part that is answered is a part of the file, and it is the same wherever the file
\* is kept, but for the last bytes ("-n"), of which the local files serve the first
\* n + 1, and for a last byte that is not safe, which the local files cut and the others
\* refuse (livrosController.js:237-241, storageProvider.js:12-21).
RangesAgree ==
  /\ \A piece \in {range.local, range.remote} :
       piece # Refused => piece.start <= piece.end /\ piece.end < range.header.size
  /\ ~Suffix(range.header) /\ range.header.last <= MaxSafe => range.local = range.remote
=============================================================================
