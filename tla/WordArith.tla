----------------------------- MODULE WordArith ------------------------------
(***************************************************************************)
(* The 32-bit words of xadmin.js, as its helpers treat them: in two halves *)
(* of 16 bits, <<high, low>>.  The sign that JavaScript gives to a word is *)
(* left out.                                                               *)
(***************************************************************************)
EXTENDS Integers

Half == 65536
Halves == 0 .. Half - 1
Words == Halves \X Halves

\* The word of a number, negative or not
Word(n) == <<(n \div Half) % Half, n % Half>>

\* Mutant: the carry is not taken to the high half
SafeAddHalves(x, y) == <<(x[1] + y[1]) % Half, (x[2] + y[2]) % Half>>

\* Mutant: the low half is not cut off
SafeAddUncut(x, y) ==
    LET lsw == x[2] + y[2] IN <<(x[1] + y[1] + lsw \div Half) % Half, lsw>>

SafeAdd(x, y) ==
    LET lsw == x[2] + y[2]
        msw == x[1] + y[1] + lsw \div Half
    IN  <<msw % Half, lsw % Half>>

\* A rotation by 16 exchanges the halves
BitRotateLeft(num, cnt) ==
    LET turned == IF cnt < 16 THEN num ELSE <<num[2], num[1]>>
        up == 2 ^ (cnt % 16)
    IN  <<((turned[1] * up) % Half) + (turned[2] * up) \div Half,
          ((turned[2] * up) % Half) + (turned[1] * up) \div Half>>

-----------------------------------------------------------------------------
(* Words as sets of bits *)

\* The positions of the bits of a half that are 1
Bits(n) == {k \in 0 .. 15 : (n \div 2 ^ k) % 2 = 1}

\* The half with these bits
FromBits(set) ==
    LET bit(k) == IF k \in set THEN 2 ^ k ELSE 0
        four(k) == bit(k) + bit(k + 1) + bit(k + 2) + bit(k + 3)
    IN  four(0) + four(4) + four(8) + four(12)

AndHalf(m, n) == FromBits(Bits(m) \cap Bits(n))
OrHalf(m, n) == FromBits(Bits(m) \cup Bits(n))
XorHalf(m, n) == FromBits((Bits(m) \cup Bits(n)) \ (Bits(m) \cap Bits(n)))

BitAnd(u, v) == <<AndHalf(u[1], v[1]), AndHalf(u[2], v[2])>>
BitOr(u, v) == <<OrHalf(u[1], v[1]), OrHalf(u[2], v[2])>>
BitXor(u, v) == <<XorHalf(u[1], v[1]), XorHalf(u[2], v[2])>>
BitNot(u) == <<Half - 1 - u[1], Half - 1 - u[2]>>
=============================================================================
