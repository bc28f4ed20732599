------------------------------- MODULE Memory -------------------------------
(***************************************************************************)
(* Memory::memcpy() and Memory::memclear() as they are built for Linux: a  *)
(* loop that moves blocks of 32 words of eight bytes, and a switch with a  *)
(* case, written out by hand, for every number of bytes that may be left.  *)
(* A case is a row of MOD0 macros, one for each word, and at its end one   *)
(* of MOD1 to MOD7 for the last bytes.  For Windows the loops are replaced *)
(* by calls of the C library; that is not modelled.                        *)
(***************************************************************************)
EXTENDS Naturals

CONSTANT Sizes  \* the values of n

MemoryAssumption == Sizes \subseteq Nat

VARIABLES call,     \* [op, size], op "memcpy" or "memclear"
          copied,   \* the bytes of dest that have the value of the same byte of src
          cleared,  \* the bytes of dest that are zero
          at,       \* dest_64 and src_64, in bytes
          n,        \* bytes to do
          done

vars == <<call, copied, cleared, at, n, done>>

Init == /\ call \in [op : {"memcpy", "memclear"}, size : Sizes]
        /\ copied = {} /\ cleared = {}
        /\ at = 0 /\ n = call.size /\ done = FALSE

(* The widths of the stores that MOD1 to MOD7 make, in their order; 0      *)
(* stands for a store that is not needed.                                  *)
CopyMods ==
  << <<1, 0, 0>>, <<2, 0, 0>>, <<2, 1, 0>>, <<4, 0, 0>>, <<4, 1, 0>>,
     <<4, 2, 0>>, <<4, 2, 1>> >>

ClearMods ==
  << <<1, 0, 0>>, <<2, 0, 0>>, <<2, 1, 0>>, <<4, 0, 0>>, <<4, 1, 0>>,
     <<4, 2, 0>>, <<4, 2, 1>> >>

(* The cases 1 to 256 of the two switches: ten times the MOD0s of a case,  *)
(* plus the number of the MOD that ends it, 0 if it ends with a MOD0.      *)
CopyCases ==
  <<   1,   2,   3,   4,   5,   6,   7,  10,  11,  12,  13,  14,  15,  16,  17,  20,
      21,  22,  23,  24,  25,  26,  27,  30,  31,  32,  33,  34,  35,  36,  37,  40,
      41,  42,  43,  44,  45,  46,  47,  50,  51,  52,  53,  54,  55,  56,  57,  60,
      61,  62,  63,  64,  65,  66,  67,  70,  71,  72,  73,  74,  75,  76,  77,  80,
      81,  82,  83,  84,  85,  86,  87,  90,  91,  92,  93,  94,  95,  96,  97, 100,
     101, 102, 103, 104, 105, 106, 107, 110, 111, 112, 113, 114, 115, 116, 117, 120,
     121, 122, 123, 124, 125, 126, 127, 130, 131, 132, 133, 134, 135, 136, 137, 140,
     141, 142, 143, 144, 145, 146, 147, 150, 151, 152, 153, 154, 155, 156, 157, 160,
     161, 162, 163, 164, 165, 166, 167, 170, 171, 172, 173, 174, 175, 176, 177, 180,
     181, 182, 183, 184, 185, 186, 187, 190, 191, 192, 193, 194, 195, 196, 197, 200,
     201, 202, 203, 204, 205, 206, 207, 210, 211, 212, 213, 214, 215, 216, 217, 220,
     221, 222, 223, 224, 225, 226, 227, 230, 231, 232, 233, 234, 235, 236, 237, 240,
     241, 242, 243, 244, 245, 246, 247, 250, 251, 252, 253, 254, 255, 256, 257, 260,
     261, 262, 263, 264, 265, 266, 267, 270, 271, 272, 273, 274, 275, 276, 277, 280,
     281, 282, 283, 284, 285, 286, 287, 290, 291, 292, 293, 294, 295, 296, 297, 300,
     301, 302, 303, 304, 305, 306, 307, 310, 311, 312, 313, 314, 315, 316, 317, 320 >>

ClearCases ==
  <<   1,   2,   3,   4,   5,   6,   7,  10,  11,  12,  13,  14,  15,  16,  17,  20,
      21,  22,  23,  24,  25,  26,  27,  30,  31,  32,  33,  34,  35,  36,  37,  40,
      41,  42,  43,  44,  45,  46,  47,  50,  51,  52,  53,  54,  55,  56,  57,  60,
      61,  62,  63,  64,  65,  66,  67,  70,  71,  72,  73,  74,  75,  76,  77,  80,
      81,  82,  83,  84,  85,  86,  87,  90,  91,  92,  93,  94,  95,  96,  97, 100,
     101, 102, 103, 104, 105, 106, 107, 110, 111, 112, 113, 114, 115, 116, 117, 120,
     121, 122, 123, 124, 125, 126, 127, 130, 131, 132, 133, 134, 135, 136, 137, 140,
     141, 142, 143, 144, 145, 146, 147, 150, 151, 152, 153, 154, 155, 156, 157, 160,
     161, 162, 163, 164, 165, 166, 167, 170, 171, 172, 173, 174, 175, 176, 177, 180,
     181, 182, 183, 184, 185, 186, 187, 190, 191, 192, 193, 194, 195, 196, 197, 200,
     201, 202, 203, 204, 205, 206, 207, 210, 211, 212, 213, 214, 215, 216, 217, 220,
     221, 222, 223, 224, 225, 226, 227, 230, 231, 232, 233, 234, 235, 236, 237, 240,
     241, 242, 243, 244, 245, 246, 247, 250, 251, 252, 253, 254, 255, 256, 257, 260,
     261, 262, 263, 264, 265, 266, 267, 270, 271, 272, 273, 274, 275, 276, 277, 280,
     281, 282, 283, 284, 285, 286, 287, 290, 291, 292, 293, 294, 295, 296, 297, 300,
     301, 302, 303, 304, 305, 306, 307, 310, 311, 312, 313, 314, 315, 316, 317, 320 >>

Words(entry) == entry \div 10
Widths(entry, mods) == IF entry % 10 = 0 THEN <<0, 0, 0>> ELSE mods[entry % 10]

(* The bytes that words stores of eight bytes, then stores of these widths *)
(* change: every store begins where the one before it ends.                *)
Stored(words, widths) == words * 8 + (widths[1] + widths[2] + widths[3])
Covered(words, widths) == at .. at + Stored(words, widths) - 1

(* The loops: 32 MOD0s, and n -= 256.                                      *)
CopyBlock == /\ call.op = "memcpy" /\ ~done /\ n > 256
             /\ copied' = copied \cup Covered(32, <<0, 0, 0>>)
             /\ at' = at + 32 * 8 /\ n' = n - 256
             /\ UNCHANGED <<call, cleared, done>>

ClearBlock == /\ call.op = "memclear" /\ ~done /\ n > 256
              /\ cleared' = cleared \cup Covered(32, <<0, 0, 0>>)
              /\ at' = at + 32 * 8 /\ n' = n - 256
              /\ UNCHANGED <<call, copied, done>>

(* The switches; there is no case 0.                                       *)
CopyCaseSlips ==  \* mutant: case 219 ends with MOD2
  /\ call.op = "memcpy" /\ ~done /\ n <= 256
  /\ LET cases == [CopyCases EXCEPT ![219] = 272]
     IN  copied' = IF n = 0 THEN copied
                   ELSE copied \cup Covered(Words(cases[n]), Widths(cases[n], CopyMods))
  /\ done' = TRUE /\ UNCHANGED <<call, cleared, at, n>>

CopyCase == /\ call.op = "memcpy" /\ ~done /\ n <= 256
            /\ copied' = IF n = 0 THEN copied
                         ELSE copied \cup Covered(Words(CopyCases[n]),
                                                  Widths(CopyCases[n], CopyMods))
            /\ done' = TRUE /\ UNCHANGED <<call, cleared, at, n>>

ClearCase == /\ call.op = "memclear" /\ ~done /\ n <= 256
             /\ cleared' = IF n = 0 THEN cleared
                           ELSE cleared \cup Covered(Words(ClearCases[n]),
                                                     Widths(ClearCases[n], ClearMods))
             /\ done' = TRUE /\ UNCHANGED <<call, copied, at, n>>

Next == CopyBlock \/ ClearBlock \/ CopyCase \/ ClearCase

Spec == Init /\ [][Next]_vars

-----------------------------------------------------------------------------
(* When the call returns, whichever case its size ends in and however      *)
(* often the loop runs before, the first size bytes are those of the       *)
(* source, or zero, and all others are what they were; on the way no byte  *)
(* beyond is ever stored.                                                  *)
Moved ==
  /\ copied \cup cleared \subseteq 0 .. call.size - 1
  /\ done => IF call.op = "memcpy" THEN copied = 0 .. call.size - 1
             ELSE cleared = 0 .. call.size - 1
=============================================================================
