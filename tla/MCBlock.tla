------------------------------- MODULE MCBlock -------------------------------
(***************************************************************************)
(* Three sectors, batches of two segments and words of sixteen values:     *)
(* writes that take two batches, reads into overlapping buffers, sectors   *)
(* past the end, and one whose offset wraps to the first.                  *)
(***************************************************************************)
EXTENDS Block

Ask(kind, sector, segments) == [kind |-> kind, sector |-> sector, segments |-> segments, flaw |-> "None"]

MCRequests ==
  { Ask("Out", 0, <<"a", "b", "a">>), Ask("Out", 1, <<"a">>), Ask("Out", 2, <<"a", "b">>),
    Ask("Out", 8, <<"a">>),
    Ask("In", 0, <<"a", "a", "b">>),
    Ask("Flush", 0, <<>>),
    Ask("GetId", 0, <<"a">>), Ask("Unknown", 0, <<>>),
    [Ask("Out", 1, <<"a">>) EXCEPT !.flaw = "Shape"],
    [Ask("Out", 1, <<"a">>) EXCEPT !.flaw = "Status"] }
=============================================================================
