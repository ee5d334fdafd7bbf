---------------------------- MODULE KernelVersion ----------------------------
(***************************************************************************)
(* The pure part of src/sys/kernel/mod.rs: struct Version, its total       *)
(* order, its parser and the two conversions between a Version and the     *)
(* u32 that the process-wide cache stores.                                 *)
(*                                                                         *)
(* A u32 is represented by its four bytes in memory order.  That is the    *)
(* view u32::from_ne_bytes / to_ne_bytes work on, and it keeps every       *)
(* number far below the word size of the tools.                            *)
(***************************************************************************)
EXTENDS Integers, Sequences, ProcResult

CONSTANT LittleEndian    \* byte order of the machine the crate is built for

ASSUME EndianAssumption == LittleEndian \in BOOLEAN

U16Max == 65535
Byte == 0..255
U16 == 0..U16Max
U32 == Byte \X Byte \X Byte \X Byte

Version == [major : Byte, minor : Byte, patch : U16]

New(major, minor, patch) ==
  [major |-> major, minor |-> minor, patch |-> patch]

\* The value of the static KERNEL that stands for "not read yet".
SENTINEL == <<0, 0, 0, 0>>

(***************************************************************************)
(* Version::to_u32 and Version::from_u32.                                  *)
(***************************************************************************)
U16ToNeBytes(n) ==
  IF LittleEndian THEN <<n % 256, n \div 256>> ELSE <<n \div 256, n % 256>>

U16FromNeBytes(lo, hi) ==
  IF LittleEndian THEN lo + 256 * hi ELSE 256 * lo + hi

\* Mutant: only the low byte of the patch level survives the packing.
ToU32LosesPatchByte(v) == <<v.major, v.minor, U16ToNeBytes(v.patch)[1], 0>>

ToU32(v) ==
  <<v.major, v.minor, U16ToNeBytes(v.patch)[1], U16ToNeBytes(v.patch)[2]>>

FromU32(u) == New(u[1], u[2], U16FromNeBytes(u[3], u[4]))

(***************************************************************************)
(* impl Ord for Version: major, then minor, then patch.                    *)
(***************************************************************************)
Less(v, w) ==
  \/ v.major < w.major
  \/ v.major = w.major /\ v.minor < w.minor
  \/ v.major = w.major /\ v.minor = w.minor /\ v.patch < w.patch

(***************************************************************************)
(* Version::from_str.  A release text is cut at its first character that   *)
(* is neither a digit nor a dot and split at the dots.  What is left is a  *)
(* sequence of components: a number, or Blank for an empty component,      *)
(* which no integer parser accepts.  u8 and u16 parsing reject a number    *)
(* that does not fit; components after the third are ignored.              *)
(***************************************************************************)
Blank == -1
ReleaseText == Seq(Nat \cup {Blank})

\* Mutant: the components are not checked against the width of their fields.
ParseUnchecked(text) ==
  IF Len(text) >= 3 /\ \A k \in 1..3 : text[k] # Blank
  THEN Ok(New(text[1], text[2], text[3]))
  ELSE Err("BadRelease")

ParseVersion(text) ==
  IF /\ Len(text) >= 3
     /\ text[1] \in Byte
     /\ text[2] \in Byte
     /\ text[3] \in U16
  THEN Ok(New(text[1], text[2], text[3]))
  ELSE Err("BadRelease")
=============================================================================
