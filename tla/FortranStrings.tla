--------------------------- MODULE FortranStrings ---------------------------
(***************************************************************************)
(* The string conversions of src/mpif_strings.c.  A Fortran string is a    *)
(* sequence of characters of fixed length, padded with blanks; a C string  *)
(* is the sequence before its NUL.  A C array is a sequence of bytes.      *)
(***************************************************************************)
EXTENDS Integers, Sequences, FiniteSetsExt

Blank == " "
NUL == "\\0"
Uninit == "?"        \* a byte of an array nothing was stored in

\* mpif_fstrlen: the position of the last non-blank character.
fstrlen(str) == Max({0} \cup {n \in DOMAIN str : str[n] # Blank})

\* mpif_strdup_f2c: a copy without the trailing blanks.
strdup_f2c(str) == SubSeq(str, 1, fstrlen(str))

\* mpif_strdup_f2c_trim: a copy without leading blanks either.
strdup_f2c_trim(str) ==
  LET end == fstrlen(str)
      begin == Min({end} \cup {n - 1 : n \in {m \in 1 .. end : str[m] # Blank}})
  IN  SubSeq(str, begin + 1, end)

\* mpif_strcpy_c2f: dest_length characters, truncated or padded.
strcpy_c2f(src, dest_length) ==
  [n \in 1 .. dest_length |-> IF n <= Len(src) THEN src[n] ELSE Blank]

\* mpif_fcount: the strings of an array before the first blank one; strarr
\* numbers them from 0.
fcount(strarr) == Min({n \in DOMAIN strarr : fstrlen(strarr[n]) = 0})

\* mpif_fcount2d: the same along row strarr_index of an array with
\* strarr_size rows, stored column by column.
fcount2dByRows(strarr, strarr_size, strarr_index) ==    \* mutant: C's order
  fcount([n \in {m \in DOMAIN strarr : strarr_index + m \in DOMAIN strarr}
            |-> strarr[strarr_index + n]])
fcount2d(strarr, strarr_size, strarr_index) ==
  LET At(n) == strarr_index + n * strarr_size
  IN  fcount([n \in {m \in DOMAIN strarr : At(m) \in DOMAIN strarr} |->
                strarr[At(n)]])

-----------------------------------------------------------------------------
(* The C array a string is returned in *)

\* char c_x[buflen + 2], its first and its last byte NUL.
TextArray(buflen) ==
  [n \in 1 .. buflen + 2 |-> IF n \in {1, buflen + 2} THEN NUL ELSE Uninit]

\* MPI stores `bytes' from the array's start; those that do not fit are not in
\* the array.
Store(array, bytes) ==
  [n \in DOMAIN array |-> IF n <= Len(bytes) THEN bytes[n] ELSE array[n]]

\* strlen, where no byte that was not stored happens to be NUL; beyond the
\* array when it holds no NUL.
strlen(array) ==
  Min({Len(array)}
        \cup {n - 1 : n \in {m \in DOMAIN array : array[m] = NUL}})

-----------------------------------------------------------------------------
(* What the standard asks of the conversions *)

Blanks(str) == \A n \in DOMAIN str : str[n] = Blank

\* `copy' is `str' without its trailing blanks, and with `leading' without
\* its leading ones.
IsTrimmed(copy, str, leading) ==
  \E b \in 0 .. Len(str) :
    LET e == b + Len(copy)
    IN  /\ e <= Len(str)
        /\ copy = SubSeq(str, b + 1, e)
        /\ Blanks(SubSeq(str, 1, b)) /\ Blanks(SubSeq(str, e + 1, Len(str)))
        /\ copy # <<>> => copy[Len(copy)] # Blank
        /\ leading /\ copy # <<>> => copy[1] # Blank
        /\ ~leading => b = 0
=============================================================================
