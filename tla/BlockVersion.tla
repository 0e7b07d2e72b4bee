---------------------------- MODULE BlockVersion ----------------------------
(***************************************************************************)
(* Version numbers of an OFS block.  A version is a 64-bit integer whose   *)
(* high half is a term, advanced by the master each time it grants a write *)
(* lease, and whose low half counts the writes made within that term.      *)
(* TermWidth stands for the 2^32 of the code.                              *)
(***************************************************************************)
EXTENDS Integers

CONSTANT TermWidth

ASSUME TermWidthAssumption == TermWidth \in Nat \ {0}

Version == Nat

Term(v) == v \div TermWidth

\* Mutant: the term is not advanced.
SameTermVersion(v) == Term(v) * TermWidth

\* Block::NextVersion of the master: the first version of the next term.
NextVersion(v) == (Term(v) + 1) * TermWidth

\* Mutant: a write past the announced version opens a term of its own.
OwnTermVersion(v, newversion) ==
  IF v < newversion THEN newversion ELSE NextVersion(v)

\* Mutant: the announced version is taken, whatever the block is at.
AnnouncedVersion(v, newversion) == newversion

\* What the lease holder makes of its own version when it applies a write:
\* the version the lease announced, or one more when it is already past it.
PrimaryVersion(v, newversion) == IF v < newversion THEN newversion ELSE v + 1

Larger(a, b) == IF a < b THEN b ELSE a
=============================================================================
