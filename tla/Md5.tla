-------------------------------- MODULE Md5 ---------------------------------
(***************************************************************************)
(* The MD5 and the HMAC-MD5 of xadmin.js, whose digest of a url names its  *)
(* tab.  One step encodes a character or is one of the 64 operations on a  *)
(* block of 16 words.                                                      *)
(*                                                                         *)
(* A string is the sequence of its code points, a raw string one of bytes, *)
(* a hex string one of numbers below 16.  The words that JavaScript leaves *)
(* out of a sparse array are 0, as every use of them makes them.           *)
(***************************************************************************)
EXTENDS WordArith, Sequences

CONSTANTS
    Jobs,           \* calls of md5: the string, the key (empty: none), and raw
    Known           \* of a call without raw: its digest, in groups of 4 hex digits

Bytes == 0 .. 255

MaxCodePoint == 1114111
CodePoints == 0 .. MaxCodePoint

\* Halves of a surrogate pair, for which encodeURIComponent throws
Surrogates == 55296 .. 57343

\* Bound: beyond it the shifts of a length in bits leave 32 bits
MaxLength == 2 ^ 25

ASSUME JobsAreCalls ==
    \A j \in Jobs :
        /\ j \in [string: Seq(CodePoints), key: Seq(CodePoints), raw: BOOLEAN]
        /\ \A s \in {j.string, j.key} :
              Len(s) <= MaxLength /\ \A k \in 1 .. Len(s) : s[k] \notin Surrogates

VARIABLES
    job,            \* the call
    stage,          \* "encode", then what is hashed: "key", "inner", "outer", "plain"; then "done"
    rawKey,         \* the bytes of the key so far
    rawString,      \* those of the string
    encoded,        \* how many code points, of the key and then of the string, they are
    padded,         \* the padded words
    at,             \* the first word of the block
    step,           \* operations done on the block
    reg,            \* a, b, c, d, in the order in which the next operation takes them
    old,            \* olda, oldb, oldc, oldd
    bkey            \* the words of the key

input == <<job, rawKey, rawString, encoded>>
hash == <<padded, at, step, reg, old>>
md5Vars == <<input, stage, hash, bkey>>

-----------------------------------------------------------------------------
(* Strings, bytes and words *)

Utf8(c) ==
    CASE c < 128 -> <<c>>
      [] 128 <= c /\ c < 2048 -> <<192 + c \div 64, 128 + (c % 64)>>
      [] 2048 <= c /\ c < 65536 ->
            <<224 + c \div 4096, 128 + ((c \div 64) % 64), 128 + (c % 64)>>
      [] 65536 <= c -> <<240 + c \div 262144, 128 + ((c \div 4096) % 64),
                         128 + ((c \div 64) % 64), 128 + (c % 64)>>

\* A byte, or none
ByteAt(s, k) == IF k \in 1 .. Len(s) THEN s[k] ELSE 0

Rstr2binl(s) ==
    [k \in 1 .. (Len(s) + 3) \div 4 |->
        <<256 * ByteAt(s, 4 * k) + ByteAt(s, 4 * k - 1),
          256 * ByteAt(s, 4 * k - 2) + ByteAt(s, 4 * k - 3)>>]

\* The bytes of a word, from the lowest on
ByteOf(w, r) ==
    CASE r = 0 -> w[2] % 256
      [] r = 1 -> w[2] \div 256
      [] r = 2 -> w[1] % 256
      [] r = 3 -> w[1] \div 256

Binl2rstr(words) ==
    [k \in 1 .. 4 * Len(words) |-> ByteOf(words[1 + (k - 1) \div 4], (k - 1) % 4)]

Rstr2hex(s) ==
    [k \in 1 .. 2 * Len(s) |->
        IF k % 2 = 1 THEN s[(k + 1) \div 2] \div 16 ELSE s[(k + 1) \div 2] % 16]

-----------------------------------------------------------------------------
(* The operations on a block *)

Md5cmn(q, a, b, w, s, t) ==
    SafeAdd(BitRotateLeft(SafeAdd(SafeAdd(a, q), SafeAdd(w, t)), s), b)

\* md5ff, md5gg, md5hh and md5ii
Mixed(n, b, c, d) ==
    CASE n < 16 -> BitOr(BitAnd(b, c), BitAnd(BitNot(b), d))
      [] n \in 16 .. 31 -> BitOr(BitAnd(b, d), BitAnd(c, BitNot(d)))
      [] n \in 32 .. 47 -> BitXor(BitXor(b, c), d)
      [] n \in 48 .. 63 -> BitXor(c, BitOr(b, BitNot(d)))

\* The word of the block, the rotation and the constant of an operation
Input(n) ==
    CASE n < 16 -> n
      [] n \in 16 .. 31 -> (5 * n + 1) % 16
      [] n \in 32 .. 47 -> (3 * n + 5) % 16
      [] n \in 48 .. 63 -> (7 * n) % 16

Rotation(n) ==
    <<<<7, 12, 17, 22>>, <<5, 9, 14, 20>>, <<4, 11, 16, 23>>, <<6, 10, 15, 21>>>>
        [1 + n \div 16][1 + (n % 4)]

Constants ==
    <<-680876936, -389564586, 606105819, -1044525330, -176418897, 1200080426,
      -1473231341, -45705983, 1770035416, -1958414417, -42063, -1990404162,
      1804603682, -40341101, -1502002290, 1236535329,
      -165796510, -1069501632, 643717713, -373897302, -701558691, 38016083,
      -660478335, -405537848, 568446438, -1019803690, -187363961, 1163531501,
      -1444681467, -51403784, 1735328473, -1926607734,
      -378558, -2022574463, 1839030562, -35309556, -1530992060, 1272893353,
      -155497632, -1094730640, 681279174, -358537222, -722521979, 76029189,
      -640364487, -421815835, 530742520, -995338651,
      -198630844, 1126891415, -1416354905, -57434055, 1700485571, -1894986606,
      -1051523, -2054922799, 1873313359, -30611744, -1560198380, 1309151649,
      -145523070, -1120210379, 718787259, -343485551>>

-----------------------------------------------------------------------------
(* Hashing *)

Start == <<Word(1732584193), Word(-271733879), Word(-1732584194), Word(271733878)>>

\* Mutant: the length is put into the block that holds the 1 bit
PaddedShort(words, len) ==
    LET final == (len \div 512) * 16 + 14
        There(k) == IF k < Len(words) THEN words[k + 1] ELSE Word(0)
        Marked(k) == IF k = len \div 32 THEN BitOr(There(k), BitRotateLeft(Word(128), len % 32))
                     ELSE There(k)
    IN  [k \in 1 .. final + 2 |-> IF k - 1 = final THEN Word(len) ELSE Marked(k - 1)]

\* A 1 bit after the message, and its length before the last word of a block
Padded(words, len) ==
    LET final == ((len + 64) \div 512) * 16 + 14
        There(k) == IF k < Len(words) THEN words[k + 1] ELSE Word(0)
        Marked(k) == IF k = len \div 32 THEN BitOr(There(k), BitRotateLeft(Word(128), len % 32))
                     ELSE There(k)
    IN  [k \in 1 .. final + 2 |-> IF k - 1 = final THEN Word(len) ELSE Marked(k - 1)]

\* A key of more than 16 words is hashed first
FirstStage ==
    IF rawKey = <<>> THEN "plain" ELSE IF Len(Rstr2binl(rawKey)) > 16 THEN "key" ELSE "inner"

Pad(words, byte) ==
    [k \in 1 .. 16 |->
        BitXor(IF k <= Len(words) THEN words[k] ELSE Word(0), Word(byte * 257 * Half + byte * 257))]

\* What a stage hashes, and the length that binlMD5 is given for it
Message(s, words, digest) ==
    CASE s = "plain" -> Padded(Rstr2binl(rawString), 8 * Len(rawString))
      [] s = "key" -> Padded(words, 8 * Len(rawKey))
      [] s = "inner" -> Padded(Pad(words, 54) \o Rstr2binl(rawString), 512 + 8 * Len(rawString))
      [] s = "outer" -> Padded(Pad(words, 92) \o digest, 512 + 128)

Md5Init ==
    /\ job \in Jobs
    /\ stage = "encode"
    /\ rawKey = <<>>
    /\ rawString = <<>>
    /\ encoded = 0
    /\ bkey = <<>>
    /\ padded = <<>>
    /\ at = 0
    /\ step = 0
    /\ reg = Start
    /\ old = Start

\* The key is encoded before the string
Str2rstrUTF8 ==
    LET keyed == Len(job.key)
    IN  /\ stage = "encode"
        /\ encoded < keyed + Len(job.string)
        /\ IF encoded < keyed
           THEN rawKey' = rawKey \o Utf8(job.key[encoded + 1]) /\ UNCHANGED rawString
           ELSE rawString' = rawString \o Utf8(job.string[encoded - keyed + 1])
                /\ UNCHANGED rawKey
        /\ encoded' = encoded + 1
        /\ UNCHANGED <<job, stage, hash, bkey>>

BeginHash ==
    /\ stage = "encode"
    /\ encoded = Len(job.key) + Len(job.string)
    /\ stage' = FirstStage
    /\ bkey' = Rstr2binl(rawKey)
    /\ padded' = Message(FirstStage, bkey', <<>>)
    /\ UNCHANGED <<input, at, step, reg, old>>

\* Each operation replaces a, and the next one takes d, a, b, c
Operate ==
    LET a == reg[1]
        b == reg[2]
        new == Md5cmn(Mixed(step, b, reg[3], reg[4]), a, b, padded[at + Input(step) + 1],
                      Rotation(step), Word(Constants[step + 1]))
    IN  /\ stage \notin {"encode", "done"}
        /\ step < 64
        /\ reg' = <<reg[4], new, reg[2], reg[3]>>
        /\ step' = step + 1
        /\ UNCHANGED <<input, stage, padded, at, old, bkey>>

Sum == [k \in 1 .. 4 |-> SafeAdd(reg[k], old[k])]

NextBlock ==
    /\ stage \notin {"encode", "done"}
    /\ step = 64
    /\ at + 16 < Len(padded)
    /\ at' = at + 16
    /\ step' = 0
    /\ reg' = Sum
    /\ old' = Sum
    /\ UNCHANGED <<input, stage, padded, bkey>>

AfterStage == [key |-> "inner", inner |-> "outer", outer |-> "done", plain |-> "done"][stage]

EndHash ==
    /\ stage \notin {"encode", "done"}
    /\ step = 64
    /\ at + 16 >= Len(padded)
    /\ stage' = AfterStage
    /\ bkey' = IF stage = "key" THEN Sum ELSE bkey
    /\ IF AfterStage = "done"
       THEN reg' = Sum /\ UNCHANGED <<padded, at, step, old>>
       ELSE /\ padded' = Message(AfterStage, bkey', Sum)
            /\ at' = 0
            /\ step' = 0
            /\ reg' = Start
            /\ old' = Start
    /\ UNCHANGED input

Md5Next == Str2rstrUTF8 \/ BeginHash \/ Operate \/ NextBlock \/ EndHash

Md5Spec == Md5Init /\ [][Md5Next]_md5Vars

\* What md5 returns
Result == IF job.raw THEN Binl2rstr(reg) ELSE Rstr2hex(Binl2rstr(reg))

-----------------------------------------------------------------------------
(* Properties *)

\* Every register stays a word of 32 bits, the blocks fill the padded words, and
\* what is encoded is bytes.
WordsFillBlocks ==
    /\ job \in Jobs
    /\ stage \in {"encode", "key", "inner", "outer", "plain", "done"}
    /\ rawKey \in Seq(Bytes) /\ rawString \in Seq(Bytes)
    /\ encoded \in 0 .. Len(job.key) + Len(job.string)
    /\ padded \in Seq(Words) /\ bkey \in Seq(Words)
    /\ at \in Nat /\ at % 16 = 0
    /\ stage # "encode" => at + 16 <= Len(padded) /\ Len(padded) % 16 = 0
    /\ step \in 0 .. 64
    /\ reg \in [1 .. 4 -> Words] /\ old \in [1 .. 4 -> Words]

\* "Calculate the MD5 of an array of little-endian words" (xadmin.js): the
\* message, a byte 128, as few bytes 0 as fill a block up to its last eight
\* bytes, and the length in bits from its low byte on.  The word after the
\* length is one the code never writes.
PaddingFillsBlocks ==
    LET message == IF stage = "plain" THEN rawString ELSE rawKey
        n == Len(message)
        bytes == Binl2rstr(padded)
        bits == Binl2rstr(<<Word(8 * n), Word(0)>>)
    IN  stage \in {"plain", "key"} =>
            /\ Len(bytes) % 64 = 0
            /\ Len(bytes) \in n + 9 .. n + 72
            /\ \A k \in DOMAIN bytes :
                  bytes[k] = IF k <= n THEN message[k]
                             ELSE IF k = n + 1 THEN 128
                             ELSE IF k <= Len(bytes) - 8 THEN 0
                             ELSE bits[k - (Len(bytes) - 8)]

\* A call ends with the digest that MD5 (RFC 1321) or HMAC-MD5 (RFC 2104)
\* gives the string in UTF-8, whatever its length is with respect to the
\* blocks and whether the key has to be hashed.
DigestIsKnown ==
    stage = "done" =>
        LET hex == IF job.raw THEN Rstr2hex(Result) ELSE Result IN
        [k \in 1 .. Len(hex) \div 4 |->
            4096 * hex[4 * k - 3] + 256 * hex[4 * k - 2] + 16 * hex[4 * k - 1] + hex[4 * k]]
        = Known[job]
=============================================================================
