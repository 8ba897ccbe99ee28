------------------------------- MODULE Convert -------------------------------
(***************************************************************************)
(* Converting index files between the four versions (turbovec/src/convert) *)
(* up and down: what a file holds must come through any chain of           *)
(* conversions.                                                            *)
(*                                                                         *)
(* A legacy file (v5, v6) is one run of cells, a cell being a header       *)
(* field, a code byte, a float or an id; a reader finds its parts by the   *)
(* lengths it computes, so an array of the wrong length shifts all that    *)
(* follows.  A container (v7, v8) keeps its parts apart and is IoV7's      *)
(* subject, and what the code layouts hold PackLayouts'.  Here a layout is *)
(* a run of the right length that yields the codes if it is read whole.    *)
(***************************************************************************)
EXTENDS Integers, Sequences

CONSTANTS
  BLOCK,    \* rows of a block
  MaxDim,   \* MAX_DIM
  PlanesAt, \* rows from which v8 stores planes
  Given,    \* images a caller builds by hand, of whatever lengths
  Native    \* images of indexes: what an old build wrote to a file

Legacy    == {5, 6}
Container == {7, 8}

Refused == [refused |-> TRUE]
NoIds   == <<<<"none">>>>

(* Cells that stand for a number, and the floats that matter.              *)
Num(k)   == <<"number", k>>
Float(k) == <<"float", k>>
BadFloat == Float(-1)

VARIABLES
  file,  \* the file, or Refused when there is none
  whole, \* FALSE: it has lost its end
  image  \* history: what was first written to it
vars == <<file, whole, image>>

Cells(s) == {s[i] : i \in DOMAIN s}

-----------------------------------------------------------------------------
(* geometry.                                                               *)
PackedLen(bits, dim, n)  == n * ((dim * bits) \div 8)
BlockedLen(bits, dim, n) == (((n + BLOCK - 1) \div BLOCK) * BLOCK) * (dim \div (8 \div bits))

(* pack's layouts, of which a part or a shifted one is not the codes.      *)
Form(layout, codes, len) == [i \in 1 .. len |-> <<layout, i, codes>>]
Unform(layout, s) ==
  IF s = <<>> THEN <<>>
  ELSE IF \A i \in DOMAIN s : s[i] = <<layout, i, s[1][3]>> THEN s[1][3] ELSE <<"garbage">>

(* What is no number reads as one that no check accepts.                   *)
Number(c) == IF c[1] = "number" THEN c[2] ELSE -1

Slice(f, at, n) == SubSeq(f, at + 1, at + n)

CodebookLen(bits) == 2 * 2 ^ bits - 1

(* Faulty: the boundaries are skipped and not the centroids.               *)
CodebookShort(bits) == 2 ^ bits - 1

(* What read_legacy skips of a v6 file.                                    *)
Skipped(bits) == CodebookLen(bits)

-----------------------------------------------------------------------------
(* write_legacy: a codebook is made anew.                                  *)
WriteLegacy(i, version) ==
  <<Num(IF i.ids = NoIds THEN 0 ELSE 1), Num(version), Num(i.bits), Num(i.dim), Num(i.n)>>
  \o (IF version = 6
      THEN [j \in 1 .. CodebookLen(i.bits) |-> Float(j)]
           \o Form("seq", i.codes, BlockedLen(i.bits, i.dim, i.n))
      ELSE i.codes)
  \o i.scales \o <<Num(Len(i.shift))>> \o i.shift \o i.scale
  \o (IF i.ids = NoIds THEN <<>> ELSE i.ids)

(* from_parts stores a calibration that does nothing as none.              *)
Normal(i) == IF Cells(i.shift) \subseteq {Float(0)} /\ Cells(i.scale) \subseteq {Float(1)}
             THEN [i EXCEPT !.shift = <<>>, !.scale = <<>>] ELSE i

(* write_container: the checks of from_parts on values, and of             *)
(* from_index_and_ids, come on top; the file is unclaimed.                 *)
WriteContainer(i, version) ==
  LET layout == IF version = 8 /\ i.n >= PlanesAt THEN "planes" ELSE "seq"
  IN IF \/ BadFloat \in Cells(i.scales) \cup Cells(i.shift) \cup Cells(i.scale)
        \/ i.ids # NoIds /\ \E a, b \in DOMAIN i.ids : a # b /\ i.ids[a] = i.ids[b]
     THEN Refused
     ELSE [version |-> version, layout |-> layout, claimed |-> FALSE,
           body |-> [Normal(i) EXCEPT !.codes =
                       Form(layout, i.codes, BlockedLen(i.bits, i.dim, i.n))]]

(* Faulty: a calibration of two lengths is not noticed.                    *)
PairsAnyhow(i) == TRUE

Pairs(i) == Len(i.shift) = Len(i.scale)

(* The arrays of an image are as long as its header says.                  *)
Fits(i) ==
  /\ i.bits \in 2 .. 4
  /\ IF i.dim = 0 THEN i.n = 0 ELSE i.dim % 8 = 0 /\ i.dim <= MaxDim
  /\ Len(i.codes) = PackedLen(i.bits, i.dim, i.n)
  /\ Pairs(i) /\ Len(i.shift) \in {0, i.dim}
  /\ Len(i.scales) = i.n
  /\ i.ids # NoIds => Len(i.ids) = i.n

Write(i, version) == IF ~Fits(i) THEN Refused
                     ELSE IF version \in Legacy THEN [cells |-> WriteLegacy(i, version)]
                     ELSE WriteContainer(i, version)

-----------------------------------------------------------------------------
ReadLegacy(f) ==
  LET v6   == f[2] = Num(6)
      hasIds == f[1] = Num(1)
      bits == Number(f[3])
      dim  == Number(f[4])
      n    == Number(f[5])
      from == IF v6 THEN 5 + Skipped(bits) ELSE 5
      held == IF v6 THEN BlockedLen(bits, dim, n) ELSE PackedLen(bits, dim, n)
      at   == from + held      \* where the scales begin,
      trailer == at + n + 1    \* and the length of the calibration
      calib   == Number(f[trailer])
      ids     == trailer + 2 * calib
      codes   == Slice(f, from, held)
  IN IF \/ Len(f) < 5
        \/ bits \notin 2 .. 4
        \/ IF dim = 0 THEN n # 0 ELSE dim % 8 # 0 \/ dim > MaxDim
        \/ 2 * n > Len(f)  \* a row costs a code byte and a float
        \/ Len(f) < trailer
     THEN Refused
     ELSE IF calib \notin {0, dim} \/ Len(f) < ids + (IF hasIds THEN n ELSE 0)
     THEN Refused
     ELSE [bits |-> bits, dim |-> dim, n |-> n,
           codes  |-> IF v6 THEN Unform("seq", codes) ELSE codes,
           scales |-> Slice(f, at, n),
           shift  |-> Slice(f, trailer, calib), scale |-> Slice(f, trailer + calib, calib),
           ids    |-> IF hasIds THEN Slice(f, ids, n) ELSE NoIds]

(* read_v7, which leaves pending ops, claim and generation behind.         *)
ReadContainer(f) == [f.body EXCEPT !.codes = Unform(f.layout, f.body.codes)]

IsContainer(f) == "body" \in DOMAIN f

Read(f) == IF f = Refused \/ (IsContainer(f) /\ ~whole) THEN Refused
           ELSE IF IsContainer(f) THEN ReadContainer(f) ELSE ReadLegacy(f.cells)

-----------------------------------------------------------------------------
(* An old build wrote the file, or a caller an image of its own.           *)
Init == /\ whole = TRUE
        /\ \E i \in Given \cup Native, v \in Legacy \cup Container :
             image = i /\ file = Write(i, v)

(* convert_file: the file is replaced if it can be read and written.       *)
Convert(version) ==
  /\ Read(file) # Refused /\ Write(Read(file), version) # Refused
  /\ file' = Write(Read(file), version)
  /\ UNCHANGED <<whole, image>>

(* A copy of the file is cut short.                                        *)
Truncate == /\ file # Refused /\ whole
            /\ whole' = FALSE
            /\ IF IsContainer(file) THEN UNCHANGED file
               ELSE \E n \in 0 .. Len(file.cells) - 1 : file' = [cells |-> SubSeq(file.cells, 1, n)]
            /\ UNCHANGED image

Next == Truncate \/ \E v \in Legacy \cup Container : Convert(v)

Spec == Init /\ [][Next]_vars

-----------------------------------------------------------------------------
(* Whatever versions a file has been through it reads as what was first    *)
(* written: codes, scales, ids and calibration, one that does nothing      *)
(* being none; and a file cut short reads as nothing at all.               *)
ConversionKeeps ==
  IF whole THEN file # Refused => Read(file) # Refused /\ Normal(Read(file)) = Normal(image)
  ELSE Read(file) = Refused

(* What an index can hold every version can.                               *)
EveryVersionTakesIt ==
  whole /\ image \in Native => \A v \in Legacy \cup Container : Write(Read(file), v) # Refused
=============================================================================
