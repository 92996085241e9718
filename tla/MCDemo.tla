------------------------------- MODULE MCDemo --------------------------------
(***************************************************************************)
(* Two clients for one connection slot, and a UART that two keys fill.     *)
(* What acts from outside is split into settings, whose behaviours TLC     *)
(* adds up instead of multiplying them.                                    *)
(***************************************************************************)
EXTENDS Demo

MCSettings ==
  {{"--control-socket", "clients", "signals"},
   {"--control-socket", "rival", "signals"},
   {"--net", "--control-socket", "keys", "signals"},
   {"--disk", "--net", "signals"},
   {"--disk", "--read-only", "signals"}}

Header(version, defects, size) == [version |-> version, defects |-> defects, size |-> size]
Good == Header(3, {}, 1)

\* The file the path names first may be unusable, an old image whose bytes mean
\* nothing beyond its header, or another one than the file moved there.
MCImages ==
  {[First |-> Good, Second |-> Good], [First |-> Header(2, {"length"}, 1), Second |-> Good],
   [First |-> Good, Second |-> Header(3, {}, 2)], [First |-> Header(3, {"length"}, 1), Second |-> Good],
   [First |-> Good, Second |-> Header(2, {"backing"}, 1)]}
=============================================================================
