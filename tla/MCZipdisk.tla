------------------------------ MODULE MCZipdisk ------------------------------
(***************************************************************************)
(* Archives of every shape for the iterator: slices with blocks of every   *)
(* method, cut off anywhere, without blocks, empty, and missing, and with  *)
(* the load addresses of one another.                                      *)
(***************************************************************************)
EXTENDS ZipdiskInfo

Files == INSTANCE ZipdiskFiles

\* Slices a packer writes.
Written == {Files!SliceOf(<<Files!Filled(1, 0), Files!Packed(1, 1)>>, 0),
            Files!SliceOf(<<Files!Raw(1, 2)>>, 0)}

Cut == {Files!SliceOf(<<Files!Packed(1, 3), Files!Raw(1, 4)>>, n) : n \in {1, 4, 5, 6, 10}}

Empty == {Files!SliceOf(<<>>, 0), Files!SliceOf(<<>>, 2)}

Odd == {Files!SliceOf(<<Files!Filled(1, 5), Files!Unused(1, 6), Files!Raw(1, 7)>>, 0),
        Files!Missing}

\* Slices that the dump begins at another place than the iterator: a list of
\* filled blocks, and one that leads the dump out of step.
Moved == {Files!OtherLoad(<<Files!Fill(1, 65, 2), Files!Fill(1, 65, 3)>>),
          Files!OtherLoad(<<Files!Raw(1, 2), Files!Filled(1, 0)>>)}

SliceKinds == Written \cup Cut \cup Empty \cup Odd \cup Moved

\* Slices of any kind at the start and at the end.  The heap behind a slice:
\* bytes that read as a raw block, or as a packed one.
Plain == Files!SliceOf(<<Files!Filled(1, 0)>>, 0)

MCArchives ==
  UNION {{Files!Archive(TRUE, <<x, y, Plain, Plain, z>>, heap),
          Files!Archive(TRUE, <<Plain, Plain, x, y, z>>, heap)} :
            x \in SliceKinds, y \in SliceKinds, z \in SliceKinds, heap \in {1, 130}}
  \cup {Files!Archive(FALSE, <<>>, 1)}
===============================================================================
