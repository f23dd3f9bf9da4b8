-------------------------------- MODULE MCFD --------------------------------
(* Programs over two files that take up the same poll descriptor one after  *)
(* the other: readers that meet a Close, deadlines that meet their timers,   *)
(* and late calls, timers and notifications that meet the next file.         *)
EXTENDS FDPrograms, TLC

CONSTANTS g1, g2, g3, f1, f2

FileWords == Files \X (Modes \cup {"c"})

Use(kind, f, modes, d) == [kind |-> kind, file |-> f, modes |-> modes, deadline |-> d]

OpenFile(f) == Use("open", f, {}, 0)
Read(f) == Use("io", f, {"r"}, 0)
Write(f) == Use("io", f, {"w"}, 0)
SetDeadline(f, modes, d) == Use("setdeadline", f, modes, d)
Misc(f) == Use("misc", f, {}, 0)
CloseFile(f) == Use("close", f, {}, 0)

Program(n, s1, s2, s3) ==
  [calls |-> (g1 :> s1) @@ (g2 :> s2) @@ (g3 :> s3), ready |-> n]

\* Two readers of one file, a call that only holds a reference, and two Closes.
Closing ==
  Program(2, <<OpenFile(f1), Read(f1)>>, <<Read(f1), Misc(f1)>>,
             <<CloseFile(f1), CloseFile(f1)>>)

\* A deadline for both modes is replaced by one that has passed, by none, or by
\* another, while the first may be firing, and the file is closed.
Deadlines(d, n) ==
  Program(n, <<OpenFile(f1), Read(f1)>>,
             <<SetDeadline(f1, Modes, 1), SetDeadline(f1, {"r"}, d)>>,
             <<CloseFile(f1)>>)

\* A reader and a writer with one deadline.
Both ==
  Program(1, <<OpenFile(f1), Read(f1)>>, <<SetDeadline(f1, Modes, 1)>>, <<Write(f1)>>)

\* The descriptor of a file that is closed is given to the next one, while
\* notifications or timers for the first are late.
ReuseNotified ==
  Program(2, <<OpenFile(f1), Read(f1)>>, <<CloseFile(f1), OpenFile(f2), Read(f2)>>,
             <<>>)

ReuseTimed ==
  Program(0, <<OpenFile(f1), Read(f1)>>,
             <<CloseFile(f1), OpenFile(f2), SetDeadline(f2, {"r"}, 1), Read(f2)>>,
             <<SetDeadline(f1, {"r"}, 1)>>)

ThePrograms ==
  {Closing, Deadlines(-1, 1), Deadlines(0, 0), Deadlines(2, 0), Both, ReuseNotified, ReuseTimed}

Reused == {ReuseNotified}
=============================================================================
