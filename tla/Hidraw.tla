------------------------------- MODULE Hidraw -------------------------------
(***************************************************************************)
(* How the program finds a HID device (helper/internal/hidraw): the nodes  *)
(* of /sys/class/hidraw, what their uevent files say, and which of several *)
(* matching nodes is taken.  Both lighting devices are found this way, and *)
(* two processes exclude each other only if they find the same node.       *)
(*                                                                         *)
(* An entry of the class directory is a record of                          *)
(*   number   N when its name is hidraw<N>, Unnumbered otherwise           *)
(*   name     where its name stands in the alphabet                        *)
(*   uevent   the lines of its uevent file, none when it is unreadable     *)
(* and a line is a record of its key, of the vendor and the product a      *)
(* HID_ID line names, and of whether it is well formed: three fields, two  *)
(* of them hexadecimal.                                                    *)
(***************************************************************************)
EXTENDS Integers, Sequences

Unnumbered == -1

nodeLess(a, b) ==
  \/ a.number # Unnumbered /\ b.number = Unnumbered
  \/ a.number # Unnumbered /\ b.number # Unnumbered /\ a.number < b.number
  \/ a.number = b.number /\ a.name < b.name

\* The last well formed HID_ID line counts; its values are cut to 16 bits.
parseUevent(lines) ==
  LET ids == {i \in DOMAIN lines : lines[i].key = "HID_ID" /\ lines[i].wellFormed}
      last == CHOOSE i \in ids : \A j \in ids : j <= i
  IN  IF ids = {} THEN <<>>
      ELSE <<lines[last].vendor % 65536, lines[last].product % 65536>>

FindByVIDPID(class, vid, pid) == {e \in class : parseUevent(e.uevent) = <<vid, pid>>}

\* The first match in the order of nodeLess, as a set: empty when there is none.
FindOneByVIDPID(class, vid, pid) ==
  LET matches == FindByVIDPID(class, vid, pid)
  IN  {e \in matches : \A f \in matches : f = e \/ nodeLess(e, f)}

-----------------------------------------------------------------------------
\* Mutant: the rest that does not fill a frame is left out.
FullChunks(s, n) == [i \in 1..(Len(s) \div n) |-> SubSeq(s, (i - 1) * n + 1, i * n)]

\* The loop by which both devices cut a list into frames of at most n entries.
Chunks(s, n) ==
  [i \in 1..((Len(s) + n - 1) \div n) |->
     SubSeq(s, (i - 1) * n + 1, IF i * n < Len(s) THEN i * n ELSE Len(s))]
=============================================================================
