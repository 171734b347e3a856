------------------------------- MODULE MCUnzip -------------------------------
(***************************************************************************)
(* Archives of four and five slices to convert: blocks of every method,    *)
(* on the first and last tracks and sectors and beyond them, and blocks    *)
(* that cannot be unpacked.                                                *)
(***************************************************************************)
EXTENDS Unzip

Files == INSTANCE ZipdiskFiles

MCNoContent == <<>>

\* Each of these ends up in some slice.  The address 1, 0 comes several times.
Blocks == {Files!Raw(1, 0), Files!Packed(17, 20), Files!TooMany(18, 18), Files!Raw(18, 19),
           Files!Filled(35, 16), Files!Raw(36, 0), Files!Packed(63, 255), Files!Filled(1, 0)}

Bad == {Files!TooFew(2, 0), Files!Unused(2, 1)}

One(b) == Files!SliceOf(<<b>>, 0)

First == {Files!SliceOf(<<b, c>>, 0) : b \in Blocks, c \in Blocks \cup Bad}

Plain == One(Files!Filled(9, 0))

\* The heap behind a slice: bytes that read as a raw block, or as a packed one.
MCArchives ==
  UNION {{Files!Archive(TRUE, <<s, Plain, One(b), One(Files!Packed(40, 16))>> \o fifth, heap) :
            s \in First, b \in {Files!Raw(1, 0)} \cup Bad,
            fifth \in {<<>>, <<One(Files!Raw(40, 16))>>, <<One(Files!Unused(36, 0))>>}} :
              heap \in {1, 130}}
  \cup {Files!Archive(FALSE, <<>>, 1), Files!Archive(TRUE, <<Files!SliceOf(<<>>, 0),
                                                  Plain, Plain, Plain>>, 1),
        Files!Archive(TRUE, <<Plain, One(Files!Raw(1, 0)), Files!SliceOf(<<>>, 0), Plain>>, 1)}
===============================================================================
