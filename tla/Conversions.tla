---------------------------- MODULE Conversions ----------------------------
(***************************************************************************)
(* DataConvert: integers to decimal text (itoa, uitoa, lltoa, ulltoa) and  *)
(* back (atoi, atoui, atoll, atoull).  A behaviour prints one number and   *)
(* reads the text back, or reads a given text.                             *)
(*                                                                         *)
(* The 32-bit and the 64-bit functions have the same shape, with Bits for  *)
(* the width.  The unrolled ladder of the Windows build and the loop of    *)
(* the other build store the same digits in the same order, two at a time. *)
(***************************************************************************)
EXTENDS Integers, Sequences, SequencesExt

CONSTANTS Bits,     \* width of an integer
          Zero,     \* the code of '0'
          Values,   \* the magnitudes that are printed
          Sizes,    \* str_len
          Texts     \* the texts that are read, besides

ConversionAssumption ==
  Bits \in Nat \ {0, 1} /\ Zero \in Nat /\ Values \subseteq Nat /\ Sizes \subseteq Nat

Half == 2 ^ (Bits - 1)
Unsigned(n) == n % (2 * Half)
Signed(n) == ((n + Half) % (2 * Half)) - Half
Typed(n, signed) == IF signed THEN Signed(n) ELSE Unsigned(n)

Digits == <<"0", "1", "2", "3", "4", "5", "6", "7", "8", "9">>
IsDigit(c) == c \in ToSet(Digits)
DigitOf(c) == CHOOSE d \in 0 .. 9 : Digits[d + 1] = c
NUL == "NUL"

VARIABLES pc,      \* "itoa", "uitoa", "loop", "printed", "atoi" or "read"
          job,     \* the call: [signed, value, size]
          str,     \* the characters stored, by index
          base,    \* how many of them are the sign
          value,   \* uitoa's value
          next,    \* its next index
          returned,             \* what the printing call returns
          at, ret, first_num_flag, negative_flag,   \* atoi's locals
          overflow  \* has a signed expression overflowed (history)

printing == <<base, value, next, returned>>
reading == <<at, ret, first_num_flag, negative_flag, overflow>>
vars == <<pc, job, str, printing, reading>>

Numbers(signed) == IF signed
                   THEN { n \in Values \cup { -v : v \in Values } : n = Signed(n) }
                   ELSE { n \in Values : n = Unsigned(n) }

Init == /\ \E signed \in BOOLEAN :
             \/ /\ pc = "itoa" /\ str = << >>
                /\ job \in [signed : {signed}, value : Numbers(signed), size : Sizes]
             \/ /\ pc = "atoi"
                /\ \E text \in Texts, len \in 0 .. 2 :
                     /\ str = [i \in 0 .. Len(text) |->
                                 IF i = Len(text) THEN NUL ELSE text[i + 1]]
                     /\ job = [signed |-> signed, value |-> 0, size |-> len]
        /\ base = 0 /\ value = 0 /\ next = 0 /\ returned = 0
        /\ at = 0 /\ ret = 0 /\ first_num_flag = FALSE /\ negative_flag = FALSE
        /\ overflow = FALSE

-----------------------------------------------------------------------------
(* Printing.                                                               *)
Stored(i, c) == [k \in DOMAIN str \cup {i} |-> IF k = i THEN c ELSE str[k]]

(* The thresholds 10, 100, 1000, ...                                       *)
digits10(n) == CHOOSE k \in 1 .. 10 : n < 10 ^ k /\ (k = 1 \/ n >= 10 ^ (k - 1))

(* itoa(), lltoa(): a sign and the magnitude.                              *)
itoa == /\ pc = "itoa"
        /\ \/ /\ job.value >= 0
              /\ pc' = "uitoa" /\ value' = job.value
              /\ UNCHANGED <<str, base, returned>>
           \/ /\ job.value < 0 /\ job.size > 0
              /\ pc' = "uitoa" /\ value' = Unsigned(-job.value)
              /\ str' = Stored(0, "-") /\ base' = 1
              /\ UNCHANGED returned
           \/ /\ job.value < 0 /\ job.size = 0
              /\ pc' = "printed" /\ returned' = 0
              /\ UNCHANGED <<str, base, value>>
        /\ UNCHANGED <<job, next, reading>>

(* uitoa(), ulltoa(): nothing if the text does not fit.                    *)
uitoa == /\ pc = "uitoa"
         /\ IF job.size - base >= digits10(value)
            THEN pc' = "loop" /\ next' = digits10(value) - 1 /\ UNCHANGED returned
            ELSE pc' = "printed" /\ returned' = base /\ UNCHANGED next
         /\ UNCHANGED <<job, str, base, value, reading>>

(* MOD100, or the body of the loop: the last two digits of value.          *)
Pair(i, n) ==
  [k \in DOMAIN str \cup {i - 1, i} |->
     CASE k = i - 1 -> Digits[n \div 10 + 1] [] k = i -> Digits[(n % 10) + 1]
       [] OTHER -> str[k]]

Mod100 == /\ pc = "loop" /\ value >= 100
          /\ str' = Pair(base + next, value % 100)
          /\ value' = value \div 100 /\ next' = next - 2
          /\ UNCHANGED <<pc, job, base, returned, reading>>

(* LESS10 or LESS100, and the terminator.                                  *)
Less100 ==
  /\ pc = "loop" /\ value < 100
  /\ LET len == digits10(Unsigned(IF job.value < 0 THEN -job.value ELSE job.value))
         text == IF value < 10 THEN Stored(base + next, Digits[value + 1])
                 ELSE Pair(base + next, value)
     IN  /\ str' = [k \in DOMAIN text \cup {base + len} |->
                      IF k = base + len THEN NUL ELSE text[k]]
         /\ returned' = base + len
  /\ pc' = "printed"
  /\ UNCHANGED <<job, base, value, next, reading>>

-----------------------------------------------------------------------------
(* Reading.                                                                *)
Reread == /\ pc = "printed" /\ returned > base
          /\ pc' = "atoi" /\ job' = [job EXCEPT !.size = 0]
          /\ UNCHANGED <<str, printing, reading>>

Exit == /\ pc' = "read"
        /\ UNCHANGED <<job, str, printing, reading>>

More == pc = "atoi" /\ (job.size < 1 \/ at < job.size)
Step == at' = at + 1 /\ UNCHANGED <<pc, job, str, printing>>

(* ret * 10 + *str - '0', from the left.                                   *)
Sum(c) == ret * 10 + DigitOf(c)
ReadDigit ==
  /\ More /\ IsDigit(str[at])
  /\ Step /\ first_num_flag' = TRUE
  /\ ret' = IF first_num_flag THEN Typed(Sum(str[at]), job.signed) ELSE DigitOf(str[at])
  /\ overflow' = (overflow \/ (/\ job.signed /\ first_num_flag
                               /\ Sum(str[at]) + Zero >= Half))
  /\ UNCHANGED negative_flag

ReadMinusTwice ==  \* mutant: a sign does not end the blanks
  /\ More /\ str[at] = "-" /\ job.signed /\ ~first_num_flag
  /\ Step /\ negative_flag' = TRUE
  /\ UNCHANGED <<ret, first_num_flag, overflow>>
ReadMinus ==
  /\ More /\ str[at] = "-" /\ job.signed /\ ~first_num_flag
  /\ Step /\ first_num_flag' = TRUE /\ negative_flag' = TRUE
  /\ UNCHANGED <<ret, overflow>>

ReadPlus ==
  /\ More /\ str[at] = "+" /\ ~first_num_flag
  /\ Step /\ first_num_flag' = TRUE
  /\ UNCHANGED <<ret, negative_flag, overflow>>

ReadBlank ==
  /\ More /\ str[at] = " " /\ ~first_num_flag
  /\ Step /\ UNCHANGED <<ret, first_num_flag, negative_flag, overflow>>

ReadEnd ==
  /\ pc = "atoi"
  /\ \/ ~More
     \/ More /\ str[at] \in {"+", " "} /\ first_num_flag
     \/ More /\ str[at] = "-" /\ (first_num_flag \/ ~job.signed)
     \/ More /\ ~IsDigit(str[at]) /\ str[at] \notin {"-", "+", " "}
  /\ Exit

Result == IF negative_flag THEN Typed(-ret, job.signed) ELSE ret

Next == \/ itoa \/ uitoa \/ Mod100 \/ Less100 \/ Reread
        \/ ReadDigit \/ ReadMinus \/ ReadPlus \/ ReadBlank \/ ReadEnd

Spec == Init /\ [][Next]_vars

-----------------------------------------------------------------------------
Magnitude == IF job.value < 0 THEN -job.value ELSE job.value

(* A number that fits is printed as a sign and its decimal digits, without *)
(* leading zeros, and a terminator; nothing is stored beyond, and only the *)
(* terminator may lie one past the given length.  What does not fit stores *)
(* at most the sign, and that is all the result counts.                    *)
Printed ==
  pc = "printed" =>
    LET len == returned - base
    IN  IF len = 0 THEN str = IF base = 1 THEN [k \in {0} |-> "-"] ELSE << >>
        ELSE /\ DOMAIN str = 0 .. returned /\ str[returned] = NUL
             /\ returned <= job.size
             /\ base = 1 <=> job.value < 0
             /\ base = 1 => str[0] = "-"
             /\ \A k \in 1 .. len :
                  str[returned - k] = Digits[((Magnitude \div 10 ^ (k - 1)) % 10) + 1]
             /\ len > 1 => str[base] # "0"

(* The number a text stands for: blanks, a sign, digits.                   *)
Start == CHOOSE i \in DOMAIN str : str[i] # " " /\ \A k \in 0 .. i - 1 : str[k] = " "
Sign == IF str[Start] = "+" \/ (job.signed /\ str[Start] = "-") THEN 1 ELSE 0
Number == LET run == Start + Sign .. at - 1
          IN  FoldLeft(LAMBDA n, k : n * 10 + DigitOf(str[k]), 0,
                       [i \in 1 .. at - (Start + Sign) |-> Start + Sign + i - 1])

(* What is read is the number that the text stands for, modulo the width,  *)
(* it ends at the first character that is not part of it, and what was     *)
(* printed is read back.  No signed expression overflows for a number that *)
(* is more than the code of '0' below the largest: the sum adds the code   *)
(* of the digit before it subtracts that of '0'.                           *)
Parsed ==
  pc = "read" =>
    /\ at > Start => /\ \A k \in Start + Sign .. at - 1 : IsDigit(str[k])
                     /\ Result = Typed(IF Sign = 1 /\ str[Start] = "-"
                                       THEN -Number ELSE Number, job.signed)
                     /\ (Number < Half - Zero) => ~overflow
    /\ at <= Start => Result = 0
    /\ (job.size = 0 \/ at < job.size) => ~IsDigit(str[at])
    /\ returned > 0 => Result = Typed(job.value, job.signed)
=============================================================================
