----------------------------- MODULE DecodeUnits -----------------------------
(***************************************************************************)
(* What one attempt to decode one profile produces (source.rs, DecodeUnit) *)
(* and what a table renders for it (table/*.rs, build).                    *)
(*                                                                         *)
(* The bytes of a profile are abstracted to the class from_bytes puts them *)
(* in; a decodable profile is a value of Profiles, and all that a scan     *)
(* tells apart about it is how many rows the table has for it.             *)
(***************************************************************************)
EXTENDS Naturals, Sequences

CONSTANTS Profiles,    \* payloads that decode, gzip-wrapped or raw
          RowCount,    \* RowCount[p]: the rows a table has for profile p
          EmptyBytes,  \* zero-length content
          BadGzip,     \* gzip magic, but the stream does not inflate
          BadProto,    \* inflated or raw bytes that are not a profile.proto
          Absent,      \* no file of that name
          Unreadable,  \* an entry fs::read fails on: no permission, a directory
          InFlux,      \* a file that is being rewritten in place
          NoFile,      \* DecodeUnit.file = None (inline bytes)
          NoError      \* the error column of a data row

ASSUME RowCountAssumption == RowCount \in [Profiles -> Nat]
ASSUME BytesAssumption    ==
  /\ {EmptyBytes, BadGzip, BadProto} \cap Profiles = {}
  /\ Absent # Unreadable /\ InFlux \notin {Absent, Unreadable}
  /\ {Absent, Unreadable, InFlux}
       \cap (Profiles \cup {EmptyBytes, BadGzip, BadProto}) = {}
ASSUME NoErrorAssumption  == NoError \notin {"read", "empty", "gunzip", "decode"}

Bytes    == Profiles \cup {EmptyBytes, BadGzip, BadProto}
Files    == Bytes \cup {Absent, Unreadable, InFlux}
Messages == {"read", "empty", "gunzip", "decode"}

Ok(p)  == [ok |-> TRUE,  value |-> p]
Err(m) == [ok |-> FALSE, value |-> m]
Results == [ok : {TRUE}, value : Profiles] \cup [ok : {FALSE}, value : Messages]

\* Decoded::from_bytes: the three ways bytes fail to be a profile, in the
\* order the code tries them.
FromBytes(b) ==
  IF b = EmptyBytes    THEN Err("empty")
  ELSE IF b = BadGzip  THEN Err("gunzip")
  ELSE IF b = BadProto THEN Err("decode")
  ELSE Ok(b)

\* resolve's read of one path: fs::read, then from_bytes.
Read(x) == IF x \in {Absent, Unreadable} THEN Err("read") ELSE FromBytes(x)

\* fs::read does not lock: of a file that is being rewritten in place it returns
\* whatever mix of old and new bytes it meets, and those may decode to anything.
Reads(x) == IF x = InFlux THEN {FromBytes(b) : b \in Bytes} ELSE {Read(x)}

Unit(f, r) == [file |-> f, result |-> r]

\* The data columns of an error row, every one of them NULL.
NullRow == <<>>

\* The rows build() pushes for one unit: row i of the table for a decoded
\* profile, or the single error row.
Block(u) ==
  [file  |-> u.file,
   error |-> IF u.result.ok THEN NoError ELSE u.result.value,
   rows  |-> IF u.result.ok
             THEN [i \in 1..RowCount[u.result.value] |-> <<u.result.value, i>>]
             ELSE <<NullRow>>]

\* build(): the batch is the concatenation of the units' blocks, in order; it
\* is kept as the sequence of blocks.
Build(units) == [i \in 1..Len(units) |-> Block(units[i])]
==============================================================================
