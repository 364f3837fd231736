----------------------------- MODULE VideoFiles -----------------------------
(***************************************************************************)
(* ReadSegmentFromFile (dash/dash_util.cc) and the split it calls: the     *)
(* table of segment sizes, from one text file per level.                   *)
(*                                                                         *)
(* A file is a record: whether it can be opened, and its lines.  A line is *)
(* what atoi makes of it, 0 for one that is no number, or Blank: the line  *)
(* that getline returns after the last newline, of which split leaves      *)
(* nothing.                                                                *)
(***************************************************************************)
EXTENDS Integers, Sequences, FiniteSets

Blank == -1

(* Mutant: a blank line counts as a segment, of no bytes.                  *)
SizesBlankToo(file) == [l \in DOMAIN file.lines |-> IF file.lines[l] = Blank THEN 0 ELSE file.lines[l]]

(* The sizes that a file lists, line by line: split returns nothing for a  *)
(* blank line.                                                             *)
Sizes(file) ==
  LET segments[n \in 0 .. Len(file.lines)] ==
        IF n = 0 THEN <<>>
        ELSE IF file.lines[n] = Blank THEN segments[n - 1]
        ELSE Append(segments[n - 1], file.lines[n])
  IN segments[Len(file.lines)]

(* The files are read in order, up to the first that cannot be opened.     *)
Opened(log) ==
  CHOOSE n \in 0 .. Len(log) :
    /\ \A l \in 1 .. n : log[l].opens
    /\ n < Len(log) => ~log[n + 1].opens

(* representation[level][index], both from 0.                              *)
ReadSegmentFromFile(log) ==
  [level \in 0 .. Opened(log) - 1 |->
     [index \in 0 .. Len(Sizes(log[level + 1])) - 1 |-> Sizes(log[level + 1])[index + 1]]]

-----------------------------------------------------------------------------
(* What the program takes for granted of its files: the first opens, every *)
(* line is blank or a positive number, and those read list equally many.   *)
SizeLines(file) == {l \in DOMAIN file.lines : file.lines[l] # Blank}

WellFormed(log) ==
  /\ log \in Seq([opens : BOOLEAN, lines : Seq(Int)])
  /\ log # <<>> /\ log[1].opens /\ SizeLines(log[1]) # {}
  /\ \A l \in DOMAIN log : \A i \in SizeLines(log[l]) : log[l].lines[i] > 0
  /\ \A l \in 1 .. Opened(log) :
       Cardinality(SizeLines(log[l])) = Cardinality(SizeLines(log[1]))
============================================================================
