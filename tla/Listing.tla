------------------------------- MODULE Listing -------------------------------
(***************************************************************************)
(* What zcc_d64_dir_dump prints (d64.c): the line of the disk and a line   *)
(* for each entry of the directory object of D64Dir, with the names        *)
(* converted by Petasc and the file types of cbmdos.c.  A block on the     *)
(* disk is here also [diskname], the disk name it has when it is the BAM.  *)
(***************************************************************************)
EXTENDS D64Dir, Petasc

CONSTANTS
  ZCC_CBMDOS_FILENAME_MAX,  \* 16 in the code, also the length of a disk name
  ZCC_D64_DISKID_MAXLEN,    \* 5 in the code
  NameBytes   \* the PETSCII name that each name of D64Dir stands for

Petscii == [1..ZCC_CBMDOS_FILENAME_MAX -> 0..255]

ASSUME NameLengthsAssumption ==
  /\ ZCC_CBMDOS_FILENAME_MAX \in Nat \ {0}
  /\ ZCC_D64_DISKID_MAXLEN \in 0..ZCC_CBMDOS_FILENAME_MAX
ASSUME NameBytesAssumption ==
  /\ DOMAIN NameBytes \subseteq Names
  /\ \A n \in DOMAIN NameBytes : /\ NameBytes[n] \in Petscii
                                 /\ n = 0 <=> NameBytes[n][1] = 0
  /\ \A e \in Garbage \cup {c.entries[n] : c \in Content, n \in Slots} :
       e.name \in DOMAIN NameBytes
ASSUME DiskNamesAssumption == \A c \in Content : c.diskname \in Petscii

VARIABLES
  header,   \* the name and the id printed for the disk, or NotPrinted
  lines     \* the lines printed for the entries

printVars == <<header, lines>>

NotPrinted == [name |-> <<>>, id |-> <<-1>>]

ListInit ==
  /\ DirInit
  /\ header = NotPrinted
  /\ lines = <<>>

Text(pet, n) == CString(zcc_pet_to_asc_str(pet, n))

zcc_cbmdos_filetype_str(t) ==
  CASE t % 8 = 0 -> "del"
    [] t % 8 = 1 -> "seq"
    [] t % 8 = 2 -> "prg"
    [] t % 8 = 3 -> "usr"
    [] t % 8 = 4 -> "rel"
    [] OTHER -> "???"

Closed(t) == t >= 128
Locked(t) == (t \div 64) % 2 = 1

Line(e) ==
  [blocks |-> e.blocks,
   name |-> Text(NameBytes[e.name], ZCC_CBMDOS_FILENAME_MAX),
   open |-> ~Closed(e.filetype),
   type |-> zcc_cbmdos_filetype_str(e.filetype),
   locked |-> Locked(e.filetype)]

\* zcc_d64_dir_read has copied the disk name from the BAM, and nothing has
\* been written to the image since.  The id printed is taken from the name.
DiskName == Block(DirTrack, BamSector).diskname

Lines(s) == [k \in DOMAIN s |-> Line(s[k])]

\* zcc_d64_dir_dump prints on the step that D64Dir takes from "dump".
DumpLines ==
  \/ /\ dpc = "dump"
     /\ header' = [name |-> Text(DiskName, ZCC_CBMDOS_FILENAME_MAX),
                   id |-> Text(DiskName, ZCC_D64_DISKID_MAXLEN)]
     /\ lines' = Lines(entries)
  \/ /\ dpc # "dump"
     /\ UNCHANGED printVars

ListNext == DirNext /\ DumpLines

ListSpec == ListInit /\ [][ListNext]_<<vars, dirVars, printVars>>

\* The program waits for nobody.
FairListSpec == ListSpec /\ WF_<<vars, dirVars, printVars>>(ListNext)

-------------------------------------------------------------------------------
(* Properties.                                                             *)

\* How a PETSCII code is to appear: letters in the case the computer shows
\* them in, digits and signs as they are, the space that fills a name as a
\* space, what has no ASCII as the sign for that, and nothing as a byte that is
\* no ASCII.  Nothing more is asked of the control codes, and of the rows for
\* which the table of petasc.c has not what its comments say: $60, which is to
\* be a copy of $c0 (petasc.c:76) and gives no letters, and the rows from $c0
\* on behind the letters, where an entry is missing.
Appears(p, a) ==
  /\ a \in 0..127
  /\ p \in (32..64) \cup (91..95) => a = p
  /\ p \in 65..90 => a = p + 32
  /\ p \in 193..218 => a = p - 128
  /\ p = 160 => a = 32
  /\ p \in (128..191) \ {141, 160} => a = Underscore

\* A name is printed from its first byte to the first zero, one character for
\* each byte.  The code 255 is a case of its own, see NameNotCut.
PrintedAs(pet, text, n) ==
  LET zeros == {k \in 1..n : pet[k] = 0}
  IN  (\A k \in 1..n : pet[k] # 255) =>
        /\ Len(text) = IF zeros = {} THEN n ELSE Min(zeros) - 1
        /\ \A k \in DOMAIN text : Appears(pet[k], text[k])

\* The lines are printed, and the image is still there.
Printed == dpc = "close"

\* The listing has the name of the disk and, in the order of the directory, a
\* line for every entry with the entry's own name, whatever bytes the names
\* on the image are made of.
NamesShown ==
  Printed =>
    /\ PrintedAs(DiskName, header.name, ZCC_CBMDOS_FILENAME_MAX)
    /\ Len(lines) = Len(entries)
    /\ \A k \in DOMAIN entries :
         PrintedAs(NameBytes[entries[k].name], lines[k].name, ZCC_CBMDOS_FILENAME_MAX)

-------------------------------------------------------------------------------
(* What the comments of petasc.c say and the code does not do.             *)

\* petasc.c:230: "Translation stops at the first 0x0" in the PETSCII string: a
\* disk name without one is shown whole.
NameNotCut ==
  Printed /\ (\A k \in DOMAIN DiskName : DiskName[k] # 0)
    => Len(header.name) = ZCC_CBMDOS_FILENAME_MAX
===============================================================================
